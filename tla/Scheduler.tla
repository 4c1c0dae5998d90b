------------------------------ MODULE Scheduler ------------------------------
(***************************************************************************)
(* scheduler.rs::Scheduler driven by engine.rs::LLMEngine: the request     *)
(* handlers, the engine loop (iter) and the background copies, over three  *)
(* block managers.  Tasks have one sequence (num_samples = 1), so a task   *)
(* is named by its sequence.                                               *)
(*                                                                         *)
(* The scheduler mutex is held for the whole of a handler and for the      *)
(* whole of schedule(); schedule's three loops are modelled one iteration  *)
(* per step, pc saying which loop runs, and no handler can step in between *)
(* (LockFree).  Where the code drops the mutex (while the workers execute, *)
(* between finished tasks, between reserve and pend) the handlers do       *)
(* interleave.                                                             *)
(*                                                                         *)
(* kv is history: which KV each block of each device really holds, so that *)
(* the bookkeeping can be compared with it.                                *)
(***************************************************************************)
EXTENDS BlockOps, SequencesExt

CONSTANTS
    NumGpu, NumHost, NumDisk,   \* blocks of each device
    Arrival,                    \* arrival_time of each task
    Modes,                      \* the configurations and loads to look at
    MaxOutputLen,               \* max_output_len of the requests
    DisableCache,               \* the tasks with disable_cache
    Decoded,                    \* the tasks that come in by reserve/trigger
    MaxBatchSize,
    DiskRecomputeThreshold      \* DISK_RECOMPUTE_THRESHOLD

NoTask == "none"     \* no task is in the hands of the reorder loop

ASSUME SchedulerAssumption ==
    /\ NoTask \notin Seqs
    /\ NumGpu \in Nat /\ NumHost \in Nat /\ NumDisk \in Nat
    /\ Arrival \in [Seqs -> Nat]
    /\ Modes \subseteq [reorder : BOOLEAN, overtaking : BOOLEAN, tokens : Nat \ {0},
                       lens : SUBSET (1..(MaxLen - 1))]
    /\ MaxOutputLen \in Nat \ {0}
    /\ DisableCache \subseteq Seqs /\ Decoded \subseteq Seqs
    /\ MaxBatchSize \in Nat \ {0}
    /\ DiskRecomputeThreshold \in Nat
    /\ MaxLen % BlockSize = 0
    /\ Regions = {"in", "out"} \X Seqs

VARIABLES
    mode,       \* the configuration, which never changes
    dev,        \* the block managers: gpu, host, disk
    kv,         \* history: the KV each block holds, [key, n]
    tlen,       \* token_ids.len() of each sequence
    olen,       \* output_len of each sequence
    status,     \* where each request is in its life
    waiting, allocated, pending,    \* the scheduler's queues
    bg,         \* the background manager's queue of copy jobs
    pc,         \* where the engine loop is
    kept,       \* extend loop: the tasks already extended
    cur, promoted, nextWaiting,     \* reorder loop: its locals
    idx, budget,                    \* dispatch loop: its locals
    batch,      \* the InferInputs of running_batch
    fetch, write,                   \* block mappings of this iteration
    finished    \* finished tasks not yet removed

queues == <<waiting, allocated, pending>>
locals == <<kept, cur, promoted, nextWaiting, idx, budget>>
step == <<batch, fetch, write>>
vars == <<mode, dev, kv, tlen, olen, status, queues, bg, pc, locals, step, finished>>

Devices == {"gpu", "host", "disk"}
NumOf == [gpu |-> NumGpu, host |-> NumHost, disk |-> NumDisk]
Garbage == [key |-> NoHash, n |-> 0]
\* The KV of tokens of the right sequence, a block too late.
Misplaced == [key |-> NoHash, n |-> BlockSize]

EnableReorder == mode.reorder
MaxNumBatchedTokens == mode.tokens
\* May a request be added before an earlier one?
Overtaking == mode.overtaking

Init ==
    /\ mode \in Modes
    /\ dev = [d \in Devices |-> NewManager(NumOf[d])]
    /\ kv = [d \in Devices |-> [b \in 0..(NumOf[d] - 1) |-> Garbage]]
    /\ tlen \in [Seqs -> mode.lens]
    /\ olen = [s \in Seqs |-> 0]
    /\ status = [s \in Seqs |-> "New"]
    /\ waiting = <<>> /\ allocated = <<>> /\ pending = {}
    /\ bg = <<>>
    /\ pc = "idle"
    /\ kept = <<>> /\ cur = NoTask /\ promoted = <<>> /\ nextWaiting = <<>>
    /\ idx = 1 /\ budget = 0
    /\ batch = <<>> /\ fetch = <<>> /\ write = <<>>
    /\ finished = <<>>

\* The engine loop does not hold the scheduler mutex.
LockFree == pc \in {"idle", "infer", "finish", "panicked"}

-----------------------------------------------------------------------------
(* Helpers of scheduler.rs *)

\* Mutants: the task replaces the one at its position; it goes to the back.
insert_replacing(q, s) ==
    LET i == SelectInSeq(q, LAMBDA t : Arrival[t] > Arrival[s])
    IN  IF i = 0 THEN Append(q, s) ELSE ReplaceAt(q, i, s)
insert_last(q, s) == Append(q, s)

\* insert_sorted_by: before the first task with a later arrival time.
insert_sorted_by(q, s) ==
    LET i == SelectInSeq(q, LAMBDA t : Arrival[t] > Arrival[s])
    IN  IF i = 0 THEN Append(q, s) ELSE InsertAt(q, i, s)

is_sorted_by(q) == \A i \in 1..(Len(q) - 1) : Arrival[q[i]] <= Arrival[q[i + 1]]

filled(d, s) == dev[d].map[s].filled

\* The check of try_alloc_infer_task on GPU gpu.
CanAlloc(s, gpu) == can_alloc_seq(gpu, s, tlen[s], 97)

\* try_extend_infer_task
CanExtend(d, s) == can_alloc_seq(dev[d], s, tlen[s], 100)

\* Mutant: nothing is done when the last block still has room.
try_extend_new_blocks_only(d, s) ==
    IF CanExtend(d, s) /\ get_num_required_blocks(dev[d], s, tlen[s]) > 0
    THEN alloc_blocks(dev[d], s, tlen[s]) ELSE dev[d]
try_extend_infer_task(d, s) ==
    IF CanExtend(d, s) THEN alloc_blocks(dev[d], s, tlen[s]) ELSE dev[d]

\* reserve_copy_blocks: Some when there is something to copy and room for
\* it.  The source blocks and the reserved blocks are zipped into a mapping.
CopySources(src, dst, s) ==
    IF src.map[s].filled <= dst.map[s].filled THEN <<>>
    ELSE get_block_ids_range(src, s, dst.map[s].filled, src.map[s].filled, FALSE).ids
CanReserveCopy(src, dst, s) ==
    LET ids == CopySources(src, dst, s)
    IN  ids # <<>> /\ can_alloc_blocks(dst, Len(ids), 100)
reserve_copy_blocks(src, dst, s, r) ==
    reserve_blocks(dst, r, s, dst.map[s].filled, src.map[s].filled)

zip(from, to) ==
    [i \in 1..Least(Len(from), Len(to)) |-> [src |-> from[i], dst |-> to[i]]]

\* Mutant: partial blocks are copied whatever the caller asks for.
copy_blocks_partial(src, dst, s, partial) ==
    LET from == dst.map[s].filled
        end == Least(src.map[s].filled, dst.map[s].slots)
        have == get_block_ids_range(src, s, from, end, TRUE)
        room == get_block_ids_range(dst, s, from, end, TRUE)
    IN  IF end <= from \/ have.ids = <<>> \/ room.ids = <<>>
        THEN [map |-> <<>>, filled |-> from]
        ELSE [map |-> zip(have.ids, room.ids), filled |-> have.filled]

\* copy_blocks: the mapping that brings dst up to what src has filled, and
\* the filled length it leads to; an empty mapping stands for None.
copy_blocks(src, dst, s, partial) ==
    LET from == dst.map[s].filled
        end == Least(src.map[s].filled, dst.map[s].slots)
        have == get_block_ids_range(src, s, from, end, partial)
        room == get_block_ids_range(dst, s, from, end, partial)
    IN  IF end <= from \/ have.ids = <<>> \/ room.ids = <<>>
        THEN [map |-> <<>>, filled |-> from]
        ELSE [map |-> zip(have.ids, room.ids), filled |-> have.filled]

\* A copy_kv call on the contents of the destination: later entries win.
CopyKV(from, to, map) ==
    [b \in DOMAIN to |->
        LET i == SelectLastInSeq(map, LAMBDA e : e.dst = b)
        IN  IF i = 0 THEN to[b] ELSE from[map[i].src]]

-----------------------------------------------------------------------------
(* Request handlers *)

\* A new request.  Its arrival time is read before the mutex is taken, so
\* requests may overtake each other.
Arrives(s) ==
    /\ status[s] = "New"
    /\ Overtaking \/ \A t \in Seqs : Arrival[t] < Arrival[s] => status[t] # "New"

\* add_request without, and with, a disk-to-host stage (plan_stage).
Hits(d, s) == init_prefix_cache_blocks(dev[d], s, tlen[s])
ShouldStage(host, disk, s) ==
    /\ waiting # <<>>
    /\ disk.map[s].filled >= host.map[s].filled + DiskRecomputeThreshold
    /\ CanReserveCopy(disk, host, s)

AddRequest(s) ==
    LET host == Hits("host", s)
        disk == Hits("disk", s)
    IN  /\ LockFree
        /\ Arrives(s) /\ s \notin Decoded
        /\ ~ShouldStage(host, disk, s)
        /\ dev' = [dev EXCEPT !["host"] = host, !["disk"] = disk]
        /\ status' = [status EXCEPT ![s] = "Waiting"]
        /\ waiting' = Append(waiting, s)
        /\ UNCHANGED <<mode, kv, tlen, olen, allocated, pending, bg, pc, locals, step, finished>>

AddRequestStaged(s) ==
    LET host == Hits("host", s)
        disk == Hits("disk", s)
        new == reserve_copy_blocks(disk, host, s, <<"in", s>>)
    IN  /\ LockFree
        /\ Arrives(s) /\ s \notin Decoded
        /\ ShouldStage(host, disk, s)
        /\ dev' = [dev EXCEPT !["host"] = new, !["disk"] = disk]
        /\ status' = [status EXCEPT ![s] = "Waiting"]
        /\ pending' = pending \union {s}
        /\ bg' = Append(bg, [s |-> s, from |-> "disk", to |-> "host", copied |-> FALSE,
                             map |-> zip(CopySources(disk, host, s),
                                         new.resv[<<"in", s>>])])
        /\ UNCHANGED <<mode, kv, tlen, olen, waiting, allocated, pc, locals, step, finished>>

\* reserve_request takes the mutex twice: once to reserve host blocks (a
\* panic there ends the request), once to pend the task.  The sequence is
\* new, so nothing of it is filled and every full block is reserved.
ReserveRequest(s) ==
    LET host == reserve_blocks(dev["host"], <<"in", s>>, s, 0, tlen[s])
    IN  /\ LockFree
        /\ Arrives(s) /\ s \in Decoded
        /\ dev' = [dev EXCEPT !["host"] = host]
        /\ status' = [status EXCEPT
                         ![s] = IF Exhausts(dev["host"], tlen[s] \div BlockSize)
                                THEN "Failed" ELSE "Reserved"]
        /\ UNCHANGED <<mode, kv, tlen, olen, queues, bg, pc, locals, step, finished>>

PendReserved(s) ==
    /\ LockFree
    /\ status[s] = "Reserved"
    /\ pending' = pending \union {s}
    /\ status' = [status EXCEPT ![s] = "Waiting"]
    /\ UNCHANGED <<mode, dev, kv, tlen, olen, waiting, allocated, bg, pc, locals, step, finished>>

\* trigger_pend_task: what arrived becomes a prefix hit of the task.
trigger_pend_task(s, hs) ==
    update_prefix_cache_blocks(
        activate_reserved_blocks(dev["host"], <<"in", s>>, hs), s, tlen[s])

\* trigger_request, once the prefill node has pushed the first n blocks.
TriggerRequest(s, n) ==
    LET ids == dev["host"].resv[<<"in", s>>]
        got == {ids[i] : i \in 1..n}
    IN  /\ LockFree
        /\ s \in pending /\ s \in Decoded /\ n <= Len(ids)
        /\ kv' = [kv EXCEPT !["host"] =
                     [b \in DOMAIN @ |->
                         IF b \in got THEN [key |-> dev["host"].hash[b], n |-> BlockSize]
                         ELSE @[b]]]
        /\ dev' = [dev EXCEPT !["host"] =
                      trigger_pend_task(s, {dev["host"].hash[b] : b \in got})]
        /\ pending' = pending \ {s}
        /\ waiting' = insert_sorted_by(waiting, s)
        /\ UNCHANGED <<mode, tlen, olen, status, allocated, bg, pc, locals, step, finished>>

-----------------------------------------------------------------------------
(* Engine loop: schedule() *)

\* iter does nothing on empty queues; else it takes the mutex.
StartIter ==
    /\ pc = "idle"
    /\ ~(allocated = <<>> /\ waiting = <<>> /\ pending = {})
    /\ pc' = "extend"
    /\ UNCHANGED <<mode, dev, kv, tlen, olen, status, queues, bg, locals, step, finished>>

\* Extend loop, first branch: the task at the front gets its blocks on the
\* GPU and, if there is room, on the host.
ExtendFront ==
    /\ pc = "extend" /\ allocated # <<>>
    /\ CanExtend("gpu", Head(allocated))
    /\ dev' = [dev EXCEPT !["gpu"] = try_extend_infer_task("gpu", Head(allocated)),
                          !["host"] = try_extend_infer_task("host", Head(allocated))]
    /\ kept' = Append(kept, Head(allocated))
    /\ allocated' = Tail(allocated)
    /\ UNCHANGED <<mode, kv, tlen, olen, status, waiting, pending, bg, pc, cur, promoted,
                   nextWaiting, idx, budget, step, finished>>

\* Second branch: the task at the back is preempted in its favour.
PreemptBack ==
    /\ pc = "extend" /\ Len(allocated) > 1
    /\ ~CanExtend("gpu", Head(allocated))
    /\ LET victim == Last(allocated)
       IN  /\ dev' = [dev EXCEPT !["gpu"] = free(@, victim)]
           /\ status' = [status EXCEPT ![victim] = "Waiting"]
           /\ waiting' = insert_sorted_by(waiting, victim)
    /\ allocated' = Front(allocated)
    /\ UNCHANGED <<mode, kv, tlen, olen, pending, bg, pc, locals, step, finished>>

\* Third branch: nobody is left to preempt, so the task itself goes back to
\* waiting.  It keeps its GPU blocks and its status.
YieldFront ==
    /\ pc = "extend" /\ Len(allocated) = 1
    /\ ~CanExtend("gpu", Head(allocated))
    /\ waiting' = insert_sorted_by(waiting, Head(allocated))
    /\ allocated' = kept /\ kept' = <<>>
    /\ pc' = "admit"
    /\ UNCHANGED <<mode, dev, kv, tlen, olen, status, pending, bg, cur, promoted, nextWaiting, idx,
                   budget, step, finished>>

ExtendDone ==
    /\ pc = "extend" /\ allocated = <<>>
    /\ allocated' = kept /\ kept' = <<>>
    /\ pc' = "admit"
    /\ UNCHANGED <<mode, dev, kv, tlen, olen, status, waiting, pending, bg, cur, promoted,
                   nextWaiting, idx, budget, step, finished>>

\* Admission of s to GPU gpu, in either order: GPU blocks or a panic, then
\* host blocks.
Admit(s, gpu) ==
    LET new == alloc_blocks(init_prefix_cache_blocks(gpu, s, tlen[s]), s, tlen[s])
    IN  IF new.exhausted
        THEN /\ dev' = [dev EXCEPT !["gpu"] = new]
             /\ pc' = "panicked"
        ELSE /\ dev' = [dev EXCEPT !["gpu"] = new,
                                   !["host"] = try_extend_infer_task("host", s)]
             /\ pc' = "admit"

\* Arrival-order admission: stop at the first task that does not fit.
AdmitFront ==
    /\ pc = "admit" /\ ~EnableReorder /\ waiting # <<>>
    /\ CanAlloc(Head(waiting), dev["gpu"])
    /\ Admit(Head(waiting), dev["gpu"])
    /\ status' = [status EXCEPT ![Head(waiting)] = "Allocated"]
    /\ allocated' = Append(allocated, Head(waiting))
    /\ waiting' = Tail(waiting)
    /\ UNCHANGED <<mode, kv, tlen, olen, pending, bg, locals, step, finished>>

StartDispatch ==
    /\ pc' = "dispatch"
    /\ idx' = 1
    /\ budget' = MaxNumBatchedTokens
    /\ batch' = <<>> /\ fetch' = <<>> /\ write' = <<>>

AdmitDone ==
    /\ pc = "admit" /\ ~EnableReorder
    /\ waiting # <<>> => ~CanAlloc(Head(waiting), dev["gpu"])
    /\ StartDispatch
    /\ UNCHANGED <<mode, dev, kv, tlen, olen, status, queues, bg, kept, cur, promoted, nextWaiting,
                   finished>>

(* schedule_waiting_with_reorder *)

\* The task at the front fits: it goes to its place by arrival time.
ReorderAdmit ==
    /\ pc = "admit" /\ EnableReorder /\ waiting # <<>>
    /\ CanAlloc(Head(waiting), dev["gpu"])
    /\ Admit(Head(waiting), dev["gpu"])
    /\ status' = [status EXCEPT ![Head(waiting)] = "Allocated"]
    /\ allocated' = insert_sorted_by(allocated, Head(waiting))
    /\ waiting' = Tail(waiting)
    /\ UNCHANGED <<mode, kv, tlen, olen, pending, bg, locals, step, finished>>

\* The allocated tasks at the back that arrived after s.
LastOlder(s) == SelectLastInSeq(allocated, LAMBDA t : Arrival[t] <= Arrival[s])
Promoted(s) == SubSeq(allocated, LastOlder(s) + 1, Len(allocated))

get_reclaimable_blocks(q) ==
    FoldLeft(LAMBDA n, t : n + get_num_allocated_unique_blocks(dev["gpu"], t), 0, q)

\* can_alloc_infer_task once the promoted tasks are preempted.
CanAllocPreempting(s) ==
    LET required == get_num_required_blocks(dev["gpu"], s, tlen[s])
        extra == get_reclaimable_blocks(Promoted(s))
    IN  can_alloc_blocks(dev["gpu"], IF required > extra THEN required - extra ELSE 0, 97)

\* It does not fit, and preempting the promoted tasks would not help.
ReorderDefer ==
    /\ pc = "admit" /\ EnableReorder /\ waiting # <<>>
    /\ ~CanAlloc(Head(waiting), dev["gpu"])
    /\ Promoted(Head(waiting)) = <<>> \/ ~CanAllocPreempting(Head(waiting))
    /\ nextWaiting' = Append(nextWaiting, Head(waiting))
    /\ waiting' = Tail(waiting)
    /\ UNCHANGED <<mode, dev, kv, tlen, olen, status, allocated, pending, bg, pc, kept, cur,
                   promoted, idx, budget, step, finished>>

\* It does not fit, but the promoted tasks can yield their blocks.
ReorderReclaim ==
    /\ pc = "admit" /\ EnableReorder /\ waiting # <<>>
    /\ ~CanAlloc(Head(waiting), dev["gpu"])
    /\ Promoted(Head(waiting)) # <<>> /\ CanAllocPreempting(Head(waiting))
    /\ cur' = Head(waiting)
    /\ waiting' = Tail(waiting)
    /\ promoted' = Promoted(Head(waiting))
    /\ allocated' = SubSeq(allocated, 1, LastOlder(Head(waiting)))
    /\ pc' = "reclaim"
    /\ UNCHANGED <<mode, dev, kv, tlen, olen, status, pending, bg, kept, nextWaiting, idx, budget,
                   step, finished>>

\* One promoted task, newest first, is preempted; cur takes its place as
\* soon as it fits, and the other promoted tasks stay.
ReclaimOne ==
    LET victim == Last(promoted)
        gpu == free(dev["gpu"], victim)
    IN  /\ pc = "reclaim" /\ promoted # <<>>
        /\ waiting' = insert_sorted_by(waiting, victim)
        /\ IF CanAlloc(cur, gpu)
           THEN /\ Admit(cur, gpu)
                /\ status' = [status EXCEPT ![victim] = "Waiting", ![cur] = "Allocated"]
                /\ allocated' = (allocated \o <<cur>>) \o Front(promoted)
                /\ cur' = NoTask
                /\ promoted' = <<>>
           ELSE /\ dev' = [dev EXCEPT !["gpu"] = gpu]
                /\ status' = [status EXCEPT ![victim] = "Waiting"]
                /\ promoted' = Front(promoted)
                /\ UNCHANGED <<pc, allocated, cur>>
        /\ UNCHANGED <<mode, kv, tlen, olen, pending, bg, kept, nextWaiting, idx, budget, step,
                       finished>>

\* The loop over the promoted tasks ends and cur has found no room: the
\* local waiting_task goes out of scope.
ReclaimFailed ==
    /\ pc = "reclaim" /\ promoted = <<>>
    /\ status' = [status EXCEPT ![cur] = "Dropped"]
    /\ cur' = NoTask
    /\ pc' = "admit"
    /\ UNCHANGED <<mode, dev, kv, tlen, olen, queues, bg, kept, promoted, nextWaiting, idx,
                   budget, step, finished>>

ReorderDone ==
    /\ pc = "admit" /\ EnableReorder /\ waiting = <<>>
    /\ waiting' = nextWaiting /\ nextWaiting' = <<>>
    /\ StartDispatch
    /\ UNCHANGED <<mode, dev, kv, tlen, olen, status, allocated, pending, bg, kept, cur, promoted,
                   finished>>

-----------------------------------------------------------------------------
(* Engine loop: dispatch() *)

\* Mutant: a sequence is put off when the budget is too small for all of its
\* tokens, instead of being cut into chunks.
DispatchEnds_whole ==
    \/ idx > Len(allocated)
    \/ Len(batch) >= MaxBatchSize
    \/ /\ idx <= Len(allocated)
       /\ tlen[allocated[idx]] - filled("gpu", allocated[idx]) > budget

DispatchEnds ==
    \/ idx > Len(allocated)
    \/ Len(batch) >= MaxBatchSize
    \/ budget = 0

\* One sequence: fetch from the host what the GPU lacks, hand as many tokens
\* as the budget allows to the model, write full blocks through to the host.
\* update_filled_len asserts that it stays within the allocated slots.  (A
\* task in allocated holds GPU blocks, so the block range is never None.)
DispatchOne ==
    /\ pc = "dispatch" /\ ~DispatchEnds
    /\ LET s == allocated[idx]
           total == tlen[s]
           f == copy_blocks(dev["host"], dev["gpu"], s, TRUE)
           gpu1 == IF f.map = <<>> THEN dev["gpu"]
                   ELSE update_filled_len(dev["gpu"], s, f.filled)
           done == Least(gpu1.map[s].filled, total - 1)
           n == Least(total - done, budget)
           gpu2 == update_filled_len(gpu1, s, done + n)
           w == copy_blocks(gpu2, dev["host"], s, FALSE)
       IN  /\ dev' = [dev EXCEPT
                         !["gpu"] = gpu2,
                         !["host"] = IF w.map = <<>> THEN @
                                     ELSE update_filled_len(@, s, w.filled)]
           /\ fetch' = fetch \o f.map
           /\ write' = write \o w.map
           /\ batch' = Append(batch,
                          [s |-> s, filled |-> done, context |-> done + n,
                           chunked |-> total > done + n,
                           ids |-> get_block_ids_range(gpu1, s, 0, done + n, TRUE).ids])
           /\ budget' = budget - n
           /\ pc' = IF \/ f.map # <<>> /\ f.filled > gpu1.map[s].slots
                       \/ done + n > gpu1.map[s].slots
                       \/ w.map # <<>> /\ w.filled > dev["host"].map[s].slots
                    THEN "panicked" ELSE pc
    /\ idx' = idx + 1
    /\ UNCHANGED <<mode, kv, tlen, olen, status, queues, bg, kept, cur, promoted, nextWaiting,
                   finished>>

\* schedule returns and the mutex is released; with no input there is
\* nothing to execute.
DispatchDone ==
    /\ pc = "dispatch" /\ DispatchEnds
    /\ pc' = IF batch = <<>> THEN "idle" ELSE "infer"
    /\ UNCHANGED <<mode, dev, kv, tlen, olen, status, queues, bg, locals, step, finished>>

-----------------------------------------------------------------------------
(* Engine loop: the workers execute, update(), and the finished tasks *)

\* The workers take the length of a sequence from its pages (SeqLen of module
\* InputBatch): how far the positions they write to are off.
Shift(e) ==
    ((Len(e.ids) - 1) * BlockSize + ((e.context - 1) % BlockSize) + 1) - e.context

\* What the GPU holds once entry e has been executed on content c: each block
\* that takes one of its tokens holds the sequence's tokens up to the context
\* length, provided that the tokens before them were there.  With a shift the
\* first such block misses its tokens and the others get those of the block
\* before.
Computed(c, e) ==
    LET At(b) == IndexIn(e.ids, b)
        Before(b) == e.filled - (At(b) - 1) * BlockSize
        Upto(b) == Least(BlockSize, e.context + Shift(e) - (At(b) - 1) * BlockSize)
        Key(b) == BlockHash[e.s][At(b)]
        Known(b) == IF c[b].key = Key(b) THEN c[b].n ELSE 0
    IN  [b \in DOMAIN c |->
            IF b \in Elems(e.ids) /\ Upto(b) > 0 /\ Upto(b) > Before(b)
            THEN IF Shift(e) # 0 \/ (c[b] = Misplaced /\ Before(b) > 0) THEN Misplaced
                 ELSE IF Known(b) < Before(b) THEN Garbage
                 ELSE [key |-> Key(b), n |-> IF Known(b) > Upto(b) THEN Known(b) ELSE Upto(b)]
            ELSE c[b]]

\* The workers fetch before they compute and write through afterwards.
GpuAfterFetch == CopyKV(kv["host"], kv["gpu"], fetch)
GpuAfterInfer == FoldLeft(Computed, GpuAfterFetch, batch)

\* Entries that produce a token, i.e. whose prompt is not chunked.
Producing == {batch[i].s : i \in {j \in 1..Len(batch) : ~batch[j].chunked}}

reached_max_len(s) == olen[s] + 1 >= MaxOutputLen \/ tlen[s] + 1 >= MaxLen

\* join! of infer and the copies, then update(): eos are the sequences whose
\* output is the end-of-sequence token.
InferDone(eos) ==
    LET stopped == {s \in Producing : s \in eos \/ reached_max_len(s)}
    IN  /\ pc = "infer"
        /\ kv' = [kv EXCEPT !["gpu"] = GpuAfterInfer,
                            !["host"] = CopyKV(GpuAfterInfer, @, write)]
        /\ tlen' = [s \in Seqs |-> IF s \in Producing THEN tlen[s] + 1 ELSE tlen[s]]
        /\ olen' = [s \in Seqs |-> IF s \in Producing THEN olen[s] + 1 ELSE olen[s]]
        /\ status' = [s \in Seqs |-> IF s \in stopped THEN "Finished" ELSE status[s]]
        /\ finished' = Kept(allocated, stopped)
        /\ allocated' = Kept(allocated, Seqs \ stopped)
        /\ batch' = <<>> /\ fetch' = <<>> /\ write' = <<>>
        /\ pc' = IF finished' = <<>> THEN "idle" ELSE "finish"
        /\ UNCHANGED <<mode, dev, waiting, pending, bg, locals>>

\* Mutant: only the tasks with disable_cache are freed.
remove_task_leaking(d, s) == IF s \in DisableCache THEN free_and_drop_cache(d, s) ELSE d

\* remove_task
remove_task(d, s) == IF s \in DisableCache THEN free_and_drop_cache(d, s) ELSE free(d, s)

\* One finished task: backup of its host blocks to disk (reserved here, copied
\* in the background), then remove_task frees its blocks on every device.
FinishTask ==
    /\ pc = "finish"
    /\ LET s == Head(finished)
           saves == CanReserveCopy(dev["host"], dev["disk"], s)
           disk == IF saves
                   THEN reserve_copy_blocks(dev["host"], dev["disk"], s, <<"out", s>>)
                   ELSE dev["disk"]
       IN  /\ dev' = [gpu |-> remove_task(dev["gpu"], s),
                      host |-> remove_task(dev["host"], s),
                      disk |-> remove_task(disk, s)]
           /\ bg' = IF saves
                    THEN Append(bg, [s |-> s, from |-> "host", to |-> "disk", copied |-> FALSE,
                                     map |-> zip(CopySources(dev["host"], dev["disk"], s),
                                                 disk.resv[<<"out", s>>])])
                    ELSE bg
           /\ status' = [status EXCEPT ![s] = "Done"]
    /\ finished' = Tail(finished)
    /\ pc' = IF Tail(finished) = <<>> THEN "idle" ELSE "finish"
    /\ UNCHANGED <<mode, kv, tlen, olen, queues, locals, step>>

-----------------------------------------------------------------------------
(* Background copies (BackgroundTaskManager: one job at a time, in order) *)

BgCopy ==
    /\ bg # <<>> /\ ~Head(bg).copied
    /\ LET j == Head(bg)
       IN kv' = [kv EXCEPT ![j.to] = CopyKV(kv[j.from], @, j.map)]
    /\ bg' = [bg EXCEPT ![1].copied = TRUE]
    /\ UNCHANGED <<mode, dev, tlen, olen, status, queues, pc, locals, step, finished>>

Labels(d, r) == {dev[d].hash[b] : b \in Elems(dev[d].resv[r])}

\* Mutant: the stage has no callback.
BgStaged_no_callback ==
    /\ LockFree
    /\ bg # <<>> /\ Head(bg).copied /\ Head(bg).to = "host"
    /\ bg' = Tail(bg)
    /\ UNCHANGED <<mode, kv, dev, tlen, olen, status, queues, pc, locals, step, finished>>

\* The callback of a disk-to-host stage: trigger_pend_task.
BgStaged ==
    /\ LockFree
    /\ bg # <<>> /\ Head(bg).copied /\ Head(bg).to = "host"
    /\ LET s == Head(bg).s
       IN  /\ dev' = [dev EXCEPT !["host"] = trigger_pend_task(s, Labels("host", <<"in", s>>))]
           /\ pending' = pending \ {s}
           /\ waiting' = insert_sorted_by(waiting, s)
    /\ bg' = Tail(bg)
    /\ UNCHANGED <<mode, kv, tlen, olen, status, allocated, pc, locals, step, finished>>

\* The callback of a host-to-disk backup: commit_reserved_blocks.
BgSaved ==
    /\ LockFree
    /\ bg # <<>> /\ Head(bg).copied /\ Head(bg).to = "disk"
    /\ LET r == <<"out", Head(bg).s>>
       IN dev' = [dev EXCEPT !["disk"] = activate_reserved_blocks(@, r, Labels("disk", r))]
    /\ bg' = Tail(bg)
    /\ UNCHANGED <<mode, kv, tlen, olen, status, queues, pc, locals, step, finished>>

\* clear_cache waits for empty queues and for the background manager.
ClearCache ==
    /\ LockFree
    /\ allocated = <<>> /\ waiting = <<>> /\ pending = {} /\ bg = <<>>
    /\ dev' = [d \in Devices |-> clear_cache(dev[d])]
    /\ UNCHANGED <<mode, kv, tlen, olen, status, queues, bg, pc, locals, step, finished>>

-----------------------------------------------------------------------------
Schedule ==
    \/ StartIter
    \/ ExtendFront \/ PreemptBack \/ YieldFront \/ ExtendDone
    \/ AdmitFront \/ AdmitDone
    \/ ReorderAdmit \/ ReorderDefer \/ ReorderReclaim
    \/ ReclaimOne \/ ReclaimFailed \/ ReorderDone
    \/ DispatchOne \/ DispatchDone

EngineLoop ==
    \/ Schedule
    \/ \E eos \in SUBSET Producing : InferDone(eos)
    \/ FinishTask

Background == BgCopy \/ BgStaged \/ BgSaved

Handlers ==
    \/ \E s \in Seqs :
          \/ AddRequest(s)
          \/ AddRequestStaged(s)
          \/ ReserveRequest(s)
          \/ PendReserved(s)
          \/ \E n \in 0..NumFull : TriggerRequest(s, n)
    \/ ClearCache

Next == EngineLoop \/ Background \/ Handlers

Spec == Init /\ [][Next]_vars

\* The engine loop and the background thread are always scheduled: run_engine
\* spins and the background thread has a runtime of its own.  The loop takes
\* the scheduler mutex again and again, but the mutex is granted in FIFO order
\* (tokio::sync::Mutex), so the thread's callback gets it.  LoopReady and
\* BackgroundReady say when EngineLoop and Background are enabled: the
\* conditions are weak fairness of the loop and strong fairness of the thread.
LoopReady ==
    /\ pc # "panicked"
    /\ pc = "idle" => ~(allocated = <<>> /\ waiting = <<>> /\ pending = {})
BackgroundReady == bg # <<>> /\ (Head(bg).copied => LockFree)

FairSpec ==
    /\ Spec
    /\ []<>~LoopReady \/ []<><<EngineLoop>>_vars
    /\ <>[]~BackgroundReady \/ []<><<Background>>_vars

-----------------------------------------------------------------------------
(* Properties *)

\* What a block holds, the block mapping of a copy, an InferInput with its
\* block ids, and a job of the background manager.
BlockIds(d) == 0..(NumOf[d] - 1)
Contents == [key : Hashes \union {NoHash}, n : 0..BlockSize]
Mappings(from, to) == Seq([src : BlockIds(from), dst : BlockIds(to)])
Inputs == [s : Seqs, filled : 0..MaxLen, context : 1..MaxLen, chunked : BOOLEAN,
           ids : {q \in Seq(BlockIds("gpu")) : Len(q) <= NumFull}]
Jobs(from, to) ==
    [s : Seqs, from : {from}, to : {to}, copied : BOOLEAN, map : Mappings(from, to)]

TypeOK ==
    /\ mode \in Modes
    /\ DOMAIN dev = Devices /\ \A d \in Devices : dev[d] \in Manager(NumOf[d])
    /\ DOMAIN kv = Devices /\ \A d \in Devices : kv[d] \in [BlockIds(d) -> Contents]
    /\ tlen \in [Seqs -> 1..MaxLen] /\ olen \in [Seqs -> Nat]
    /\ status \in [Seqs -> {"New", "Reserved", "Failed", "Waiting", "Allocated", "Finished",
                            "Done", "Dropped"}]
    /\ \A q \in {waiting, allocated, kept, promoted, nextWaiting, finished} : q \in Seq(Seqs)
    /\ pending \subseteq Seqs
    /\ bg \in Seq(Jobs("disk", "host") \union Jobs("host", "disk"))
    /\ pc \in {"idle", "extend", "admit", "reclaim", "dispatch", "infer", "finish", "panicked"}
    /\ cur \in Seqs \union {NoTask}
    /\ idx \in Nat \ {0} /\ budget \in Nat
    /\ batch \in Seq(Inputs)
    /\ fetch \in Mappings("host", "gpu") /\ write \in Mappings("gpu", "host")

\* How many times s is in the scheduler's queues or in schedule's hands.
Places(s) ==
    LET q == (waiting \o allocated \o kept \o promoted \o nextWaiting) \o finished
    IN  Cardinality({i \in 1..Len(q) : q[i] = s})
          + (IF s \in pending THEN 1 ELSE 0) + (IF cur = s THEN 1 ELSE 0)

\* No task is lost or duplicated by extending, preempting, reordering or
\* finishing: a live request is in exactly one place, a finished one in none.
\* schedule_waiting_with_reorder asserts a part of this ("tasks count mismatch
\* after request reordering"), but it does lose a waiting task when preempting
\* all promoted ones makes no room for it (ReclaimFailed, "Dropped" here): that
\* is the only way a task gets lost.
TaskConserved ==
    pc # "panicked" =>
        \A s \in Seqs :
            Places(s) = IF status[s] \in {"Waiting", "Allocated", "Finished"} THEN 1 ELSE 0

\* Block k of entry e holds the KV of the context tokens that belong there.
Stored(e, k) ==
    /\ GpuAfterInfer[e.ids[k]].key = BlockHash[e.s][k]
    /\ GpuAfterInfer[e.ids[k]].n >= Least(BlockSize, e.context - (k - 1) * BlockSize)

\* Each input of a batch really finds the KV of all its context tokens in the
\* blocks it is given, when the workers execute it: whatever was cached,
\* shared, chunked, preempted or fetched before.  Two exceptions: blocks that a
\* chunk with a block too many has misplaced (ChunksStored), and scheduling
\* with reordering, where a task may run before the one whose blocks it shares.
KVSound ==
    pc = "infer" /\ ~EnableReorder =>
        \A i \in 1..Len(batch) :
            LET e == batch[i]
                n == CeilDiv(e.context, BlockSize)
            IN  /\ Len(e.ids) >= n
                /\ \A k \in 1..n : Stored(e, k) \/ GpuAfterInfer[e.ids[k]] = Misplaced

\* The same without the first exception: a prompt that is computed in chunks
\* has the KV of its tokens where the next chunk and the decodes read it.
ChunksStored ==
    pc = "infer" =>
        \A i \in 1..Len(batch) :
            \A k \in 1..CeilDiv(batch[i].context, BlockSize) : Stored(batch[i], k)

\* The assertion in update_filled_len never fires: the loop panics only when
\* alloc_block finds the pool empty.
FilledWithinSlots == pc = "panicked" => dev["gpu"].exhausted

\* Once every request is served and the background copies are done, every
\* block of every device is free again.
AllReleased ==
    /\ \A s \in Seqs : status[s] \in {"New", "Done"}
    /\ bg = <<>>
    => \A d \in Devices : Len(dev[d].free) = NumOf[d]

\* What the disk cache serves is what was backed up: a block found by its
\* hash holds the KV of that hash (misplaced chunks apart).
DiskSound ==
    \A h \in Hashes :
        LET blk == lookup_block_id(dev["disk"], h)
        IN  blk # NoBlock => kv["disk"][blk] \in {Misplaced, [key |-> h, n |-> BlockSize]}

\* The host and the disk hold whole blocks only: their filled lengths are
\* multiples of the block size, whatever was fetched, chunked or written
\* through.  get_prefix_cache_blocks_range (from trigger_pend_task) relies on
\* it: it asserts that the filled length, rounded up, is within the tokens.
HostAligned ==
    \A s \in Seqs : filled("host", s) % BlockSize = 0 /\ filled("disk", s) % BlockSize = 0

\* waiting stays in arrival order and, with reordering, allocated does too, as
\* schedule_waiting_with_reorder expects ("Tasks in 'allocated' are not sorted
\* by arrival time."): it takes the tasks to preempt from the back.  (Without
\* reordering a task that was set aside is allocated behind later ones, and
\* requests that overtake each other come to waiting in another order.)
QueuesSorted ==
    pc # "panicked" /\ ~Overtaking =>
        is_sorted_by(waiting) /\ (EnableReorder => is_sorted_by(allocated))

\* Nothing is allocated and the first task in waiting does not fit: either a
\* task that has yielded waits with its GPU blocks, or no task has any and they
\* are too few (a preempted task has grown past 97% of the GPU).  If nothing is
\* in hand either, no block will ever be freed.
Starved ==
    LET queue == nextWaiting \o waiting
    IN  /\ allocated = <<>> /\ kept = <<>>
        /\ queue # <<>> /\ ~CanAlloc(Head(queue), dev["gpu"])
        /\ \/ \E s \in Elems(queue) : status[s] = "Allocated"
           \/ Len(dev["gpu"].free) = NumGpu

\* Every accepted request is answered: once it is queued, or set aside for a
\* stage, the engine loop and the background thread bring it to its end.  (A
\* reserved one is set aside until its client triggers it.)  This fails in these
\* ways and in no other: the loop panics on an empty pool, the reclaim loop
\* drops the task, or the scheduler comes to a halt for ever because the tasks
\* that yielded keep the blocks that all of them wait for, or because the first
\* in waiting has become too large to be admitted again.
AllServed ==
    \A s \in Seqs :
        status[s] = "Waiting" /\ ~(s \in Decoded /\ s \in pending)
            ~> status[s] \in {"Done", "Dropped"} \/ pc = "panicked" \/ []Starved
=============================================================================
