------------------------------ MODULE BlockOps ------------------------------
(***************************************************************************)
(* The operations of the paged KV-cache block manager                      *)
(* (runtime/src/llm_engine/block_manager.rs) as operators on one manager   *)
(* record m.  The engine keeps one such manager for each of its devices    *)
(* (GPU, host, disk), so the operators take the manager as an argument.    *)
(*                                                                         *)
(* A token sequence is abstracted to its length and to the hashes of its   *)
(* full-block prefixes: BlockHash[s][k] is compute_hash of the first       *)
(* k * BlockSize tokens that sequence s has, or will have once that many   *)
(* output tokens are appended.  Hash equality is prefix equality (no       *)
(* collisions, cf. check_hash_collision which only warns).                 *)
(*                                                                         *)
(* The loops over blocks are written in closed form.  They touch pairwise  *)
(* different blocks: BlockManager!HoldersSound is the invariant that makes *)
(* the closed forms the same as the loops.                                 *)
(***************************************************************************)
EXTENDS Integers, Sequences, FiniteSets

CONSTANTS
    BlockSize,   \* tokens per KV block (block_size)
    MaxLen,      \* bound on the tokens of one sequence
    Seqs,        \* sequence ids
    Regions,     \* ids of reserved or pinned block regions
    Hashes,      \* values of compute_hash on full-block prefixes
    BlockHash    \* BlockHash[s][k]: hash of the first k blocks of s

\* Blocks of s that can ever be full.
NumFull == MaxLen \div BlockSize

ASSUME SizeAssumption == BlockSize \in Nat \ {0} /\ MaxLen \in Nat
ASSUME FiniteAssumption == IsFiniteSet(Seqs) /\ IsFiniteSet(Regions)
ASSUME HashAssumption ==
    /\ Hashes \subseteq Nat \ {0}
    /\ BlockHash \in [Seqs -> [1..NumFull -> Hashes]]
\* Equal hashes mean equal prefixes: the same depth and the same hashes below.
ASSUME ChainAssumption ==
    \A s, t \in Seqs : \A i, j \in 1..NumFull :
        BlockHash[s][i] = BlockHash[t][j] =>
            i = j /\ \A k \in 1..i : BlockHash[s][k] = BlockHash[t][k]

NoHash == 0      \* Block.hash of a cleared block: u64::default()
NoBlock == -1    \* an absent entry of hash_block_table

CeilDiv(a, b) == (a + b - 1) \div b
Least(a, b) == IF a < b THEN a ELSE b
Elems(q) == {q[i] : i \in 1..Len(q)}

\* The elements of q that are in S, in the order of q: the k-th one is at the
\* position that has k such positions up to it.
PosIn(q, S) == {i \in 1..Len(q) : q[i] \in S}
RankIn(K, i) == Cardinality({j \in K : j <= i})
Kept(q, S) ==
    LET K == PosIn(q, S)
    IN  [k \in 1..Cardinality(K) |-> q[CHOOSE i \in K : RankIn(K, i) = k]]

-----------------------------------------------------------------------------
(* The manager record.  map is seq_block_mapping_table (live = the key is  *)
(* present), resv is reserved_blocks_table (<<>> = absent or empty), table *)
(* is hash_block_table.  exhausted and lost are history: alloc_block has   *)
(* panicked on an empty free list, and the blocks such a panic left with   *)
(* ref_cnt = 1 in no table at all.                                         *)

NoMap == [live |-> FALSE, ids |-> <<>>, slots |-> 0, filled |-> 0]

BlockMap(n) == [live : BOOLEAN, ids : Seq(0..(n - 1)), slots : 0..MaxLen,
                filled : 0..MaxLen]

Manager(n) ==
    [total : {n},
     free : Seq(0..(n - 1)),
     ref : [0..(n - 1) -> Int],
     status : [0..(n - 1) -> {"Free", "Used"}],
     len : [0..(n - 1) -> 0..BlockSize],
     hash : [0..(n - 1) -> Hashes \union {NoHash}],
     table : [Hashes -> 0..(n - 1) \union {NoBlock}],
     map : [Seqs -> BlockMap(n)],
     resv : [Regions -> Seq(0..(n - 1))],
     exhausted : BOOLEAN,
     lost : SUBSET (0..(n - 1))]

NewManager(n) ==
    [total |-> n,
     free |-> [i \in 1..n |-> i - 1],
     ref |-> [b \in 0..(n - 1) |-> 0],
     status |-> [b \in 0..(n - 1) |-> "Free"],
     len |-> [b \in 0..(n - 1) |-> 0],
     hash |-> [b \in 0..(n - 1) |-> NoHash],
     table |-> [h \in Hashes |-> NoBlock],
     map |-> [s \in Seqs |-> NoMap],
     resv |-> [r \in Regions |-> <<>>],
     exhausted |-> FALSE,
     lost |-> {}]

-----------------------------------------------------------------------------
(* BlockAllocator *)

\* watermark is a percentage: 97 for admitting a task, 100 for extending one.
can_alloc_blocks(m, required, watermark) ==
    (m.total - Len(m.free)) + required <= (watermark * m.total) \div 100

\* k calls of alloc_block: pop the front k free blocks, or as many as there
\* are before the call that panics.
Popped(m, k) == SubSeq(m.free, 1, Least(k, Len(m.free)))
Exhausts(m, k) == k > Len(m.free)

alloc_ref(m, ids) == [b \in DOMAIN m.ref |-> IF b \in Elems(ids) THEN 1 ELSE m.ref[b]]
alloc_status(m, ids) ==
    [b \in DOMAIN m.status |-> IF b \in Elems(ids) THEN "Used" ELSE m.status[b]]

\* Mutant: a block that is in use already is not counted again.
alloc_blocks_by_id_once(m, ids) ==
    [m EXCEPT
        !.free = Kept(m.free, DOMAIN m.ref \ Elems(ids)),
        !.status = alloc_status(m, ids),
        !.ref = alloc_ref(m, ids)]

\* alloc_block_by_id on every block of ids.
alloc_blocks_by_id(m, ids) ==
    [m EXCEPT
        !.free = Kept(m.free, DOMAIN m.ref \ Elems(ids)),
        !.status = alloc_status(m, ids),
        !.ref = [b \in DOMAIN m.ref |->
                    IF b \in Elems(ids) THEN m.ref[b] + 1 ELSE m.ref[b]]]

\* Mutant: the block goes to the free list whatever its count.
free_blocks_always(m, ids) ==
    [m EXCEPT
        !.free = m.free \o ids,
        !.status = [b \in DOMAIN m.status |->
                       IF b \in Elems(ids) THEN "Free" ELSE m.status[b]],
        !.ref = [b \in DOMAIN m.ref |->
                    IF b \in Elems(ids) THEN m.ref[b] - 1 ELSE m.ref[b]]]

\* free_block on every block of ids.
free_blocks(m, ids) ==
    [m EXCEPT
        !.free = m.free \o Kept(ids, {b \in DOMAIN m.ref : m.ref[b] = 1}),
        !.status = [b \in DOMAIN m.status |->
                       IF b \in Elems(ids) /\ m.ref[b] = 1 THEN "Free" ELSE m.status[b]],
        !.ref = [b \in DOMAIN m.ref |->
                    IF b \in Elems(ids) THEN m.ref[b] - 1 ELSE m.ref[b]]]

-----------------------------------------------------------------------------
(* Queries *)

\* The hash table may hold an entry whose block has since been relabelled.
lookup_block_id(m, h) ==
    IF m.table[h] # NoBlock /\ m.hash[m.table[h]] = h THEN m.table[h] ELSE NoBlock

\* How many consecutive blocks of s, from block j on and up to block q, hit.
NumHits(m, s, j, q) ==
    CHOOSE k \in 0..(q - j) :
        /\ \A i \in 1..k : lookup_block_id(m, BlockHash[s][j + i]) # NoBlock
        /\ k < q - j => lookup_block_id(m, BlockHash[s][j + k + 1]) = NoBlock

get_prefix_cache_blocks(m, s, total) ==
    [i \in 1..NumHits(m, s, 0, total \div BlockSize) |->
        lookup_block_id(m, BlockHash[s][i])]

\* Its caller asks for the blocks from filled on; start is rounded up.
get_prefix_cache_blocks_range(m, s, start, total) ==
    LET j == CeilDiv(start, BlockSize)
    IN  IF j >= total \div BlockSize THEN <<>>
        ELSE [i \in 1..NumHits(m, s, j, total \div BlockSize) |->
                 lookup_block_id(m, BlockHash[s][j + i])]

get_num_required_blocks(m, s, total) ==
    CeilDiv(total, BlockSize)
      - (IF m.map[s].live THEN Len(m.map[s].ids)
         ELSE Len(get_prefix_cache_blocks(m, s, total)))

can_alloc_seq(m, s, total, watermark) ==
    can_alloc_blocks(m, get_num_required_blocks(m, s, total), watermark)

get_num_allocated_unique_blocks(m, s) ==
    Cardinality({i \in 1..Len(m.map[s].ids) : m.ref[m.map[s].ids[i]] = 1})

\* The block ids that hold tokens start..end, and how many tokens of the
\* sequence they hold.  An empty range stands for None.
get_block_ids_range(m, s, start, end, partial) ==
    LET first == start \div BlockSize
        ids == m.map[s].ids
        last == Least((end \div BlockSize) + (IF partial THEN 1 ELSE 0), Len(ids))
    IN  IF first >= last THEN [ids |-> <<>>, filled |-> 0]
        ELSE [ids |-> SubSeq(ids, first + 1, last),
              filled |-> Least((last - 1) * BlockSize + m.len[ids[last]],
                               m.map[s].filled)]

-----------------------------------------------------------------------------
(* Operations on sequences *)

\* First half of alloc_blocks: how many tokens go into the last block, and
\* the manager once they are there.  A block that becomes full is labelled
\* and entered in the hash table.
LastBlock(m, s) == m.map[s].ids[Len(m.map[s].ids)]

AppendSlots(m, s, total) ==
    IF m.map[s].slots > 0
    THEN Least(BlockSize - m.len[LastBlock(m, s)], total - m.map[s].slots)
    ELSE 0

fill_last_block(m, s, total) ==
    LET n == AppendSlots(m, s, total)
        last == LastBlock(m, s)
        h == BlockHash[s][(m.map[s].slots + n) \div BlockSize]
    IN  IF n = 0 THEN m
        ELSE IF m.len[last] + n < BlockSize THEN [m EXCEPT !.len[last] = @ + n]
        ELSE [m EXCEPT !.len[last] = BlockSize,
                       !.hash[last] = h,
                       !.table[h] = last]

\* The labels of the blocks that take the tokens of s after the first slots.
NewHash(s, slots, total, j) ==
    IF slots + j * BlockSize <= total THEN BlockHash[s][(slots \div BlockSize) + j]
    ELSE NoHash
\* Mutant: all the tokens that are left go into one block.
NewLen_unbounded(slots, total, j) == total - slots - (j - 1) * BlockSize
NewLen(slots, total, j) == Least(BlockSize, total - slots - (j - 1) * BlockSize)

\* Mutant: the entries of the old labels stay.
alloc_table_no_evict(m, new, newhash) ==
    [h \in Hashes |->
        IF \E j \in 1..Len(new) : newhash[j] = h
        THEN new[CHOOSE j \in 1..Len(new) : newhash[j] = h] ELSE m.table[h]]

\* hash_block_table after the loop: block new[j] first evicts the entry of
\* its old label, then enters the new one if it is full.
alloc_table(m, new, newhash) ==
    [h \in Hashes |->
        IF \E j \in 1..Len(new) :
              newhash[j] = h /\ \A i \in (j + 1)..Len(new) : m.hash[new[i]] # h
        THEN new[CHOOSE j \in 1..Len(new) : newhash[j] = h]
        ELSE IF \E j \in 1..Len(new) : m.hash[new[j]] = h THEN NoBlock
        ELSE m.table[h]]

\* The index of b among the new blocks.
IndexIn(new, b) == CHOOSE j \in 1..Len(new) : new[j] = b

\* Second half: fresh blocks for the tokens after the first slots.
take_blocks(m, s, slots, total) ==
    LET k == CeilDiv(total - slots, BlockSize)
        new == Popped(m, k)
        newhash == [j \in 1..Len(new) |-> NewHash(s, slots, total, j)]
    IN  [m EXCEPT
            !.free = SubSeq(m.free, Len(new) + 1, Len(m.free)),
            !.ref = alloc_ref(m, new),
            !.status = alloc_status(m, new),
            !.len = [b \in DOMAIN m.len |->
                        IF b \in Elems(new) THEN NewLen(slots, total, IndexIn(new, b))
                        ELSE m.len[b]],
            !.hash = [b \in DOMAIN m.hash |->
                         IF b \in Elems(new) THEN newhash[IndexIn(new, b)] ELSE m.hash[b]],
            !.table = alloc_table(m, new, newhash),
            !.map[s] = IF Exhausts(m, k) THEN @
                       ELSE [live |-> TRUE, ids |-> @.ids \o new, slots |-> total,
                             filled |-> @.filled],
            !.exhausted = @ \/ Exhausts(m, k),
            !.lost = IF Exhausts(m, k) THEN @ \union Elems(new) ELSE @]

alloc_blocks(m, s, total) ==
    take_blocks(fill_last_block(m, s, total), s,
                m.map[s].slots + AppendSlots(m, s, total), total)

\* Mutant: the tokens after the cached blocks count as filled, too.
init_prefix_cache_blocks_all(m, s, total) ==
    LET ids == get_prefix_cache_blocks(m, s, total)
    IN  IF m.map[s].live THEN m
        ELSE [alloc_blocks_by_id(m, ids) EXCEPT
                 !.map[s] = [live |-> TRUE, ids |-> ids, slots |-> BlockSize * Len(ids),
                             filled |-> total]]

init_prefix_cache_blocks(m, s, total) ==
    LET ids == get_prefix_cache_blocks(m, s, total)
        reused == BlockSize * Len(ids)
    IN  IF m.map[s].live THEN m
        ELSE [alloc_blocks_by_id(m, ids) EXCEPT
                 !.map[s] = [live |-> TRUE, ids |-> ids, slots |-> reused,
                             filled |-> reused]]

\* Mutant: num_allocated_slots is not updated.
update_prefix_cache_blocks_slots(m, s, total) ==
    LET ids == get_prefix_cache_blocks_range(m, s, m.map[s].filled, total)
        cached == m.map[s].filled + BlockSize * Len(ids)
    IN  IF ~m.map[s].live THEN init_prefix_cache_blocks(m, s, total)
        ELSE [alloc_blocks_by_id(m, ids) EXCEPT
                 !.map[s] = [live |-> TRUE, ids |-> @.ids \o ids, slots |-> @.slots,
                             filled |-> cached]]

update_prefix_cache_blocks(m, s, total) ==
    LET ids == get_prefix_cache_blocks_range(m, s, m.map[s].filled, total)
        cached == m.map[s].filled + BlockSize * Len(ids)
    IN  IF ~m.map[s].live THEN init_prefix_cache_blocks(m, s, total)
        ELSE [alloc_blocks_by_id(m, ids) EXCEPT
                 !.map[s] = [live |-> TRUE, ids |-> @.ids \o ids, slots |-> cached,
                             filled |-> cached]]

update_filled_len(m, s, n) ==
    IF m.map[s].live THEN [m EXCEPT !.map[s].filled = n] ELSE m

\* Mutant: the last filled block is forgotten, too.
DropSet_off_by_one(m, s, filled) ==
    {m.map[s].ids[i] : i \in {j \in 1..Len(m.map[s].ids) :
                                  /\ j * BlockSize >= filled
                                  /\ m.ref[m.map[s].ids[j]] = 1}}

\* The blocks of s that free and free_and_drop_cache also forget: those no
\* one else holds and, for free, not completely filled.
DropSet(m, s, filled) ==
    {m.map[s].ids[i] : i \in {j \in 1..Len(m.map[s].ids) :
                                  /\ j * BlockSize > filled
                                  /\ m.ref[m.map[s].ids[j]] = 1}}

free_dropping(m, s, filled) ==
    LET drop == DropSet(m, s, filled)
    IN  [free_blocks(m, m.map[s].ids) EXCEPT
            !.map[s] = NoMap,
            !.table = [h \in Hashes |->
                          IF \E b \in drop : m.hash[b] = h THEN NoBlock ELSE m.table[h]],
            !.len = [b \in DOMAIN m.len |-> IF b \in drop THEN 0 ELSE m.len[b]],
            !.hash = [b \in DOMAIN m.hash |-> IF b \in drop THEN NoHash ELSE m.hash[b]]]

free(m, s) == free_dropping(m, s, m.map[s].filled)
free_and_drop_cache(m, s) == free_dropping(m, s, 0)

-----------------------------------------------------------------------------
(* Operations on regions *)

\* Blocks for the full blocks of the first total tokens of s from start on,
\* labelled but not entered in the hash table; r is the fresh region id.
reserve_blocks(m, r, s, start, total) ==
    LET j == start \div BlockSize
        k == IF total \div BlockSize > j THEN (total \div BlockSize) - j ELSE 0
        new == Popped(m, k)
    IN  [m EXCEPT
            !.free = SubSeq(m.free, Len(new) + 1, Len(m.free)),
            !.ref = alloc_ref(m, new),
            !.status = alloc_status(m, new),
            !.len = [b \in DOMAIN m.len |->
                        IF b \in Elems(new) THEN BlockSize ELSE m.len[b]],
            !.hash = [b \in DOMAIN m.hash |->
                         IF b \in Elems(new) THEN BlockHash[s][j + IndexIn(new, b)]
                         ELSE m.hash[b]],
            !.resv[r] = IF Exhausts(m, k) THEN @ ELSE new,
            !.exhausted = @ \/ Exhausts(m, k),
            !.lost = IF Exhausts(m, k) THEN @ \union Elems(new) ELSE @]

\* Mutant: the region keeps its references.
activate_reserved_blocks_leaking(m, r, hs) == [m EXCEPT !.resv[r] = <<>>]

\* The blocks whose hashes are in hs become reusable; an entry that is
\* already in the table wins (or_insert).  All blocks of the region are freed.
activate_reserved_blocks(m, r, hs) ==
    LET ids == m.resv[r]
        Lands(h, b) == h \in hs /\ b \in Elems(ids) /\ m.hash[b] = h
    IN  [free_blocks(m, ids) EXCEPT
            !.resv[r] = <<>>,
            !.table = [h \in Hashes |->
                          IF m.table[h] = NoBlock /\ \E b \in Elems(ids) : Lands(h, b)
                          THEN CHOOSE b \in Elems(ids) : Lands(h, b)
                          ELSE m.table[h]]]

\* hash_values are the hashes of blocks j+1..q of s; pinning stops at a miss.
pin_blocks_by_hashes(m, r, s, j, q) ==
    LET ids == [i \in 1..NumHits(m, s, j, q) |-> lookup_block_id(m, BlockHash[s][j + i])]
    IN  [alloc_blocks_by_id(m, ids) EXCEPT !.resv[r] = ids]

unpin_blocks(m, r) == [free_blocks(m, m.resv[r]) EXCEPT !.resv[r] = <<>>]

clear_cache(m) == [m EXCEPT !.table = [h \in Hashes |-> NoBlock]]
=============================================================================
