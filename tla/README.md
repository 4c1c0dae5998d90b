# LMServe: a TLA+ verification project

LMServe serves large language models: an API server routes requests to LLM
servers, each of which schedules inference tasks on its GPUs and keeps the KV
cache in blocks on three tiers (GPU, host memory, disk). This directory models
the parts of it that carry protocol state, checks them with TLC on small
instances and proves some of the properties with TLAPS for every value of the
constants. Paths below are relative to the repository (`src/...`).

## 1. Inventory

| Component | Source | State | Operations | Works with |
|---|---|---|---|---|
| KV block manager | `runtime/src/llm_engine/block_manager.rs` | pool of blocks with reference counts, labels (prefix hashes) and lengths; free list; hash table; block map per sequence; reserved and pinned regions | admission check, alloc, prefix-cache init/update, filled length, free, drop, reserve, activate, pin, unpin, clear | called by the scheduler, three instances (GPU, host, disk) |
| Scheduler | `.../scheduler.rs`, `infer_task.rs`, `sequence.rs` | `waiting`, `allocated`, `pending` | add, pend, trigger, stage planning, schedule (extend, preempt, yield, admit or reorder, dispatch), update, backup planning, remove, clear | called by the engine under one async mutex |
| LLM engine | `.../engine.rs`, `runtime/src/llm_srv.rs` | `request_events`, `request_outputs`, the scheduler mutex | `generate`, `reserve`, `trigger`, `push_kv`, `clear_cache`, `iter`, `run_engine` | gRPC handlers, engine loop and background callbacks share its state |
| Background manager | `runtime/src/background_manager.rs` | channel of jobs, a thread with its own runtime | submit, wait, run one job and its callback | engine submits stages and backups; callbacks take the scheduler mutex |
| Worker groups | `.../worker.rs` | gRPC clients of the workers | infer, copy_kv, gather | joined by `iter`; a failing worker panics the caller |
| Model worker and KV worker | `runtime/worker/llm_worker/model_worker.py`, `kv_worker.py`, `cli.py` | two queues, two CUDA events per layer, three streams; the inputs of a batch; descriptors of host blocks | hooks around each attention layer, copies host-to-GPU and GPU-to-host per layer, execute, push_kv | two processes that overlap copies and computation; KV workers write into the memory of other nodes |
| Router and controller | `runtime/src/router.rs`, `clis/src/bin/api_server.rs` | two routers with their nodes and policy | add_node with KV-agent handshake, select, route, forward (reserve, transfer, trigger) | calls the LLM servers, asks the monitor for stats |
| Stats monitor | `runtime/src/monitor.rs`, `stats.rs` | last stats of each node | subscribe, update, list | NATS messages from the servers |
| Start-up of an LLM server | `clis/src/bin/llm_srv.rs`, `LLMEngine::new` in `engine.rs`, `worker.rs`, `cli.py`, `utils.py` | worker processes, socket files, the memory each GPU reports | launch, connect with retry, warm-up, init_cache, spawn of the KV worker, registration | engine, model workers and KV workers wait for each other |
| Launcher, CLI, configuration | `clis/src/...`, `configs.rs` | none at run time | parse, spawn | not modelled |
| Tensor-parallel models | `runtime/worker/llm_worker/models` (`llama.py`, `qwen2.py`, `opt.py`, `utils.py`, `sampler.py`, `layers/attention.py`, `parallel/`) | process groups; the shards of the weights; each rank's part of the paged KV cache | make the groups, load, one forward pass per request with collectives in between, sample | one process per rank; the worker group compares the answers |
| Kernels and unused model code | `models/layers`, `models/parallel/random.py`, `cross_entropy.py`, `ops` | none | element-wise functions, training code | not modelled |
| Benchmarks, utilities | `benchmarks/`, `utils/` | none | load generation, helpers | not modelled |

What is hard in it:

* *Sharing of blocks.* A block may be held by several sequences and regions and
  still be found by its label after it was freed. Allocation, sharing,
  preemption, eviction and reservation come in any order; a wrong count or a
  stale label shows only many calls later.
* *What counts as filled.* Chunked prefill, prefix sharing, preemption, fetches
  and write-through all decide what is filled before it has been computed or
  copied.
* *Interleaving between awaits.* Handlers, `run_engine` and background callbacks
  run between each other's awaits; `Notify::notify_waiters` does not remember,
  arrival times are read before the mutex, reserve takes the mutex twice.
* *Failure and delay.* A disk worker may fail, an RPC of the three in `forward`
  may fail, stats may be lost, late or out of order.
* *Two processes and a GPU* that must agree, by anonymous queue values, on which
  layer is ready.
* *Many ranks, one model.* Every rank runs the same request on a part of the
  weights and the heads, in batches it sorts and pages it does not own alone;
  the ranks meet only in collectives that match by order, and an error in a
  shard, a position or an index gives a fluent but wrong answer.
* *Handing over KV.* Blocks are reserved and labelled on one node, pinned on the
  other and written by several ranks, while both nodes go on evicting and
  sharing; a transfer may fail on one rank only.
* *Coming up.* Three kinds of processes wait for each other over RPCs, polled
  files and collective calls without timeouts, possibly over the remains of an
  earlier launch.

`PROJECT.json` lists these hazards one by one with the line where each bites and
the properties that would catch it.

## 2. Modules

| Module | Models | Notes |
|---|---|---|
| `BlockOps` | the operations of `BlockManager` and `BlockAllocator` as operators on a manager record | no state; shared by `BlockManager`, `Scheduler` and `KvTransfer` |
| `BlockOpsProofs` | lemmas on these operators, for any manager record | TLAPS |
| `BlockManager` | one block manager as a state machine, of the GPU or of the host (`device`) | `GpuNext`: the calls the scheduler makes on the GPU manager; `HostNext`: on the host manager |
| `BlockManagerProofs` | theorems about `BlockManager` | TLAPS |
| `Scheduler` | `Scheduler` driven by `LLMEngine` over three managers | composes `BlockOps` three times with queues, engine loop, background copies |
| `SchedulerProofs` | theorems about the queues, the memory and the KV of `Scheduler` | TLAPS |
| `Engine` | handlers, `run_engine`, background thread, `clear_cache` between awaits | the scheduler is abstracted to its sets of tasks |
| `EngineProofs` | theorems about `Engine` | TLAPS |
| `Router` | controller, its two routers, monitor, nodes as RPC servers | |
| `RouterProofs` | theorems about `Router` | TLAPS |
| `LayerOrder` | what one iteration of the workers promises | abstract specification |
| `LayerSync` | model worker and KV worker, queues, events, streams | implements `LayerOrder` |
| `LayerSyncProofs` | theorems about `LayerSync`, the refinement among them | TLAPS |
| `StartUp` | how an LLM server comes up: `main`, `LLMEngine::new`, the worker processes | |
| `StartUpProofs` | theorems about `StartUp` | TLAPS |
| `KvTransfer` | reserve, push_kv and trigger on the host managers of two nodes, the ranks' transfers | composes `BlockOps` twice with the router's `forward` |
| `KvTransferProofs` | theorems about `KvTransfer` | TLAPS |
| `InputBatch` | the layout of one batch (`_make_inputs`) and the pairing of its outputs | no state |
| `ProcessGroups` | `initialize_model_parallel` | no state |
| `ParallelLayers` | the column-, row- and vocabulary-parallel layers and their shards | no state |
| `ModelFamilies` | Llama, Qwen2 and OPT, cut at their collectives | no state |
| `ShardedModel` | loading and running one of them on a rank, and the whole model as reference | no state |
| `Generation` | what serving promises: each sequence grows by the model's next token | abstract specification |
| `TensorParallel` | the ranks of an LLM server: groups, loading, Infer requests | composes the five modules above; implements `Generation` |
| `MC*` | constants of the TLC instances | |

### BlockOps, BlockManager

A manager is a record: `ref`, `status`, `len` and `hash` per block, the list
`free`, the hash table `table`, the block maps `map` (with `live` for "has an
entry in seq_block_mapping_table") and the regions `resv`. Tokens are abstracted
to lengths and the label of a full block to `BlockHash[s][i]`, the hash of the
first `i` blocks of sequence `s`; sequences with a common prefix have common
labels. Hash collisions are left out (the code only warns about them). A panic
in `alloc_block` is followed into the state it leaves: `exhausted` is set and
the blocks popped so far are `lost` (referenced by nobody).

One action per call; the scheduler mutex makes each call atomic, their order is
free. Not every order is one the scheduler produces: guards come from how
`scheduler.rs` calls the manager (`can_alloc_seq` before `alloc_blocks`, the
filled length within the slots, a task appends a token only when all others are
filled on the GPU).

### Scheduler

The three loops of `schedule` (extend or preempt, admit with or without
reordering, dispatch) are modelled one iteration per step with their locals as
variables (the mode of the instance, `mode`, is chosen in `Init` and never
changes: policy, batch budget, prompt lengths, whether requests overtake each
other); `pc` says which one runs, and no handler may take a step meanwhile
(`LockFree`). The mutex is free where the code drops it: while the workers
execute, between finished tasks, between reserving and pending. `InferDone` is
the join of infer and the copies followed by `update`; an end-of-sequence token
may end any sequence.

`kv` is a history variable: the KV every block of every device really holds.
`Computed` says what executing an entry does to it (a block gets right content
only if the tokens before were there, and lands where the number of pages sent
puts it), `CopyKV` what a copy does. `KVSound` compares it with what the
bookkeeping claims.

Abstractions: one sequence per task; the tokens of a batch are counted, not
named; `Decoded` tasks come in by reserve and trigger, the number of blocks that
arrived being free; GPU usage, statistics and logging are left out.

### Engine

Every process is modelled between two awaits: a handler is at a point `call[r]`,
the loop at `epc`, the background thread runs the head of `bg`, `clear_cache` is
at `cpc`. The scheduler mutex is taken for one step by everybody except
`clear_cache`, which keeps it while it waits for the background manager. A
session's event is the request whose `Notify` is registered; storing an output
and notifying are two steps. `publish_stats` may fail; a call of the workers may
fail (`WorkersFail`), which ends the background thread if it was a disk copy
(`BgPanic`) and `run_engine` if it was an infer, a fetch or a write
(`ExecuteFails`).

### Router

Servers and the monitor start in any order; the nodes are connected one after
the other in the order of the addresses. Whether a router falls back to
round-robin (no NATS connection), the kind each node reports, and the limit of
the requests (0 included, as the API accepts it) are chosen in `Init`. Each RPC is a step at the node that answers
it, or a failure of the request. A node is reduced to the requests it holds
(`waiting`, `pending`), of which it publishes snapshots; messages of one node
may overtake each other and are dropped when the monitor has not subscribed.

### LayerSync and LayerOrder

CUDA streams are queues executed by the GPU at its own pace; waiting for an
event waits for the record call that was the latest when the wait was enqueued.
The two `mp.Queue`s carry indistinguishable values and are counters. The
refinement mapping is `Order == INSTANCE LayerOrder WITH ...`, and
`KeepsLayerOrder == Order!Spec` is a property of the run. LayerOrder is what
`Scheduler!InferDone` takes for granted of the workers.

### StartUp

`phase` follows `main` and `LLMEngine::new`; a gather is the step in which every
worker has answered. A model worker passes the all_reduce of `init_distributed`
with all the others, listens, and handles one RPC at a time (`call`); the
warm-up is collective as well. `InitCache` spawns the KV worker, polls for its
socket file and then dials it. Constructors and handlers may fail where the code
raises; `Relaunch` kills everything and keeps the socket files. Only the number
of GPU blocks is kept of the cache sizes (host and disk counts are the same
division of configured sizes, equal for all workers).

### KvTransfer

Two nodes, each with a host block manager (a record of `BlockOps`). A request
goes through `phase`: prefill on one node, `reserve_request` on the other,
`push_kv` (pin, one transfer per rank, unpin), `trigger_request`, decode. What
the schedulers do with the host blocks of a task is one step when it is admitted
(hits, then `try_extend_infer_task`) and one when it ends (written through, then
freed), in order of admission (the scheduler lets tasks end in other orders too);
GPU blocks and the disk are left to `Scheduler`. The transfer of a rank writes
the blocks one after the other and may fail between any two: it answers False
(`ERR`), or raises or is not reached (`RAISED`). After an error `run_workers`
panics and `push_kv` never comes to `unpin_blocks` (`PushPanics`). The other
calls of `forward` may fail too (`ForwardFails`), after which nobody cancels the
reservation. A request ends in one of `Ends`: done, failed before or in reserve,
abandoned by `forward`, or with the panic of `push_kv`.

`kv` is a history variable as in `Scheduler`, one per rank. `doubt` is history
too: the blocks whose label says more than is known to have arrived. A block
enters it when it gets its label (`alloc_blocks` and `reserve_blocks` label
first) and leaves it when the task has written it, or when every rank has pushed
it from a block that was not in doubt. `ServedSound` says that every block
outside `doubt` that a cache would serve holds what its label says, on every
rank.

### The tensor-parallel modules

Tensors are sequences of numbers modulo `Modulus`; all functions a rank computes
alone (normalisation, activation, rotation, the attention of one head) are
constants of the modules, so nothing depends on what they compute. What is
modelled is everything that makes the result depend on rank, batch and page:
which rows or columns of a weight a rank loads, which heads it has, which
vocabulary range it embeds, where the bias is added, which collective it calls
next; how a batch is sorted and flattened, to which slot a token is appended,
which slots it reads, which output belongs to which input.

A forward pass is cut at its collectives. A rank that has called one waits in it
until all members of its group have called theirs with the same operation and
shape; between two calls it computes in one step (`Embed`, `AttentionBlock`,
`MLPBlock`, `LmHead`, `Answer`). `new_group` is collective over the world in the
same way. The engine is abstract: an Infer request holds any next chunk of any
sequences (`StartInfer`), with the pages that `get_block_ids_range` gives for it
(one too many for a chunk that ends on a page boundary before the end of the
tokens; `misplaced` keeps the sequences that had such a chunk), and `InferDone` is `run_workers_gather` with the
comparison of the answers, which panics if they differ.

The refinement mapping to `Generation` is the identity on `config` and `tokens`;
the next token of a sequence is that of the whole model on the whole sequence,
without shards, batches, cache or pages (`RefNext`). `Generation` leaves open
which tokens a sequence gets once it is `spoilt`, to which `misplaced` is mapped:
that is the fault of `Scheduler_chunk`. What is checked is that every other
sequence is right, in the same batches. `KvExact` is the invariant behind it.

## 3. Runs

| Run | Instance | Shows |
|---|---|---|
| `BlockManager_calls` | GPU: 4 blocks of 2 tokens; host: 2 blocks and one region; two sequences of up to 5 tokens that share their first block; 650,186 states | counts are exact, the free list holds each unreferenced block once, every holder's blocks carry its labels and lengths, the GPU's hash table names only blocks with that label, `free` forgets nothing reusable; with reserve, activate, pin and a pool that runs dry in the middle |
| `Scheduler_order` | 3 tasks, 4 GPU blocks; arrival order with prompts of 1, 3 or 4 tokens, 3 tokens per batch and overtaking arrivals, or reordering with prompts of 1, 3 or 5 and one token per batch; fair; 329,960 states | no task lost or duplicated, every batch finds its KV, filled within slots, all blocks released, `waiting` sorted if requests enter in arrival order, and `allocated` too when scheduling reorders; `AllServed` where tasks do yield: every accepted request is answered, or one of the failures it names has come about (the halt with yielded tasks is reached) |
| `Scheduler_tiers` | 3 GPU, 3 host, 3 disk blocks, one decoded task with disable_cache; fair; 41,778 states | tasks conserved, blocks released, whole blocks on lower tiers, `AllServed` (the halt on a task too large to be admitted again is reached) |
| `Engine_serve` | 3 requests, one decoded, disk cache, failing workers; fair; 342,462 states | events found, answers not mixed up, caches cleared only when quiescent, waiting handlers return, `clear_cache` returns when no copy is outstanding and the thread lives |
| `Router_serve` | 2 nodes of any kinds, 2 requests, either policy per router, limit 0, 1 or 2, failing RPCs; fair; 438,344 states | turns, handshakes, reservations, limits; every routed request ends |
| `LayerSync_order` | 3 layers, 2 mappings, 3 iterations; 84,562 states | refines `LayerOrder`, nothing left over, no mutual waiting |
| `StartUp_launch` | 2 workers, two sizes and two peaks of memory (caches of 0, 1 and 2 blocks), two launches, failures; fair; 17,292 states | only KV workers of this launch, equal caches, cache within the memory fraction, warm-up is the largest batch, a launch without failure comes to serve |
| `TensorParallel_infer` | 2 ranks, 2 layers, 4 query heads on 2 key/value heads, vocabulary of 4, pages of 2 tokens, 2 sequences of up to 5 tokens, 3 tokens per batch, six configurations of the three families; fair; 39,130 states | refines `Generation` and caches are exact, both except for sequences with a chunk that ended on a page boundary; collectives match, every request is answered |
| `KvTransfer_push` | 3 requests, 2 in flight, 2 ranks, 3 host blocks on the prefill node and 4 on the decode node, transfers and calls of one request may fail; fair; 134,598 states | what the caches serve is what they claim, no block stays held but those a failed request leaves behind, every hand-over ends |
| `Scheduler_chunk` | the arrival-order instance without overtaking | violation, see section 5 |
| `Scheduler_disk` | three tiers | violation, see section 5 |
| `Engine_wakeup` | 2 requests | violation, see section 5 |

Bounds and why they are enough. Two sequences that share one block and then
diverge give all relations two holders of a block can have (shared, own, partly
filled, freed and found again); with fewer blocks than both need, eviction
happens. Three tasks are the least for which a task can be in front of a second
that is preempted for a third; prompts are chosen so that there are prompts
shorter than a block, ending inside a block and at its end, and more tokens than
a batch takes. Three requests in `Engine` allow a stage behind a queued task
while a third is being delivered. Two nodes cover one of each kind, two of one
kind and none of a kind. Three iterations let a leftover of one iteration meet
the next in each combination of fetch and save. Two workers are the least for
which a collective call can wait for a peer, two launches the least for old
files to matter. In `TensorParallel` the sequences reach three pages, prompts are
longer and shorter than a page and than a batch, every batch mixes prefill
chunks and decodes, and grouped heads, tied and separate `lm_head`, projected
embeddings, both layer-norm orders and a checkpoint that does not load all occur;
the mutants show that arithmetic modulo 13 tells wrong results apart. In
`KvTransfer` the pools are smaller than what two requests and the cached blocks
of a third need, so that reserved, pinned and cached blocks compete;
`MaxInFlight` bounds the requests under way, `Flaky` names those whose transfers
and calls may fail. In `Scheduler_order` tasks fit on the GPU together when they are
admitted and no longer when they have grown, so that they are preempted and
yield; in `Scheduler_tiers` a task may grow past the 97% of the GPU that admission
allows. `MaxIters` bounds iterations,
`MaxLen` (max_seq_len) the tokens, `MaxOutputLen` the output; the sets of
requests are finite, each request is made once.

Deadlock is checked in the runs of `BlockManager` and `Scheduler`. It is off for
`Engine` (all requests served, and a `clear_cache` that waits for ever is itself
a reachable state), `Router` (all requests ended), `LayerSync` (the bound
`MaxIters`), `StartUp` (a launch may panic, or hang on a dead process),
`TensorParallel` (all sequences at `MaxLen`, or a checkpoint that does not load)
and `KvTransfer` (all requests ended).

Fairness. `run_engine` spins and the background thread has a runtime of its own,
so both always go on. They compete with the handlers for the scheduler mutex, a
`tokio::sync::Mutex`, which is granted in FIFO order; a process that asks again
and again therefore gets it although others take it in between. Hence strong
fairness for `Loop` and `Background` in `Engine` and for `Background` in
`Scheduler`. A started handler is polled (weak fairness of `Listen`,
`TakeOutput`); no client is required to send a request, a trigger or a
`clear_cache`. `Router`: servers, monitor and API server get started, NATS
delivers what it accepted, nodes answer. `LayerSync`: the processes and the GPU
go on. `StartUp`: every process goes on (weak fairness per process); nothing has
to fail or to be launched again. `TensorParallel`: every rank's process goes on
when its collective returns and the engine handles the answers it awaits; no
request has to come. `KvTransfer`: router, engines and KV workers go on and a
posted transfer ends, with DONE or with ERR, as `_push_kv` polls for either, or
with an error of the call.
`Scheduler!FairSpec` and `KvTransfer!Spec` write the conditions out with explicit enabling
predicates, and `TensorParallel!Fairness` names the part of a step that says
where a rank is, which TLC evaluates much faster than ENABLED.

Each property of a passing run has a mutant in `PROJECT.json`: a variant of a
definition (kept next to it, marked *Mutant*) that changes it as a plausible
slip in the code would, under which TLC finds the property violated.

## 4. Proofs

`EngineProofs` proves, for any finite set of requests:

* `TypeCorrect`: `TypeOK` is an invariant (no run repeats it).
* `EventsFound`: with distinct session ids, `EventFound`; `run_engine` never
  unwraps a missing event.
* `OutputsOwned`: with distinct session ids, `OwnOutput`; a woken handler finds
  its own output and returns it.
* `ClearIsQuiescent`: with any session ids, `ClearsQuiescent`.

The assumption `DistinctSessions` (no two requests share a session id) is a
hypothesis of the second and third; it is needed, see section 5.

Neither `EventFound` nor `OwnOutput` is inductive. The invariant `SafeInv` has
three parts. `PlaceInv` says where the task of a handler can be, given where the
handler is (a task in flight has a handler past its registration; the sets of
the loop are disjoint and agree with its position). `EventInv` says that the
event of every task in flight is registered under its session and belongs to its
request. `OutputInv` says that an output stored for a session belongs to the
request that is being delivered or has been woken. Distinct sessions make the
updates of different requests touch different entries of the two maps.
`ClearsQuiescent` follows from `QuietInv`: while `clear_cache` holds the mutex
nothing enters the queues, and once the sync event is notified everything
submitted before it has left the FIFO channel.

`StartUpProofs` proves `KvWorkersReady`: `KvReady` is an invariant for any
`tp_size`, memory sizes, failures, number of launches and files left over. The
invariant `ReadyInv` adds `CacheInv`: while InitCache is being gathered, a worker
that has allocated has the blocks of this request, and one that has answered has
a KV worker that serves (not merely a socket file).

It also proves `CacheFitsEverywhere`: `CacheFits`, from `FitInv`, which says that
what the engine has computed is 0 or `CacheSize`, that no worker allocates before
it is computed, and that the machines do not change. The lemma that carries it is
about `initialize_kv_cache`: the size taken from the smallest worker is within
the share of every worker whose peak is not larger.

`WarmupIsLargestAlways` proves `WarmupIsLargestBatch` for any limits. The sum over
a batch is the fold `MapThenSumSet`, a recursive function over subsets: the lemma
`SumOfAdds` shows that the recursion has a solution and what it gives, by
induction over the number of entries with the numbers (and, in `Grow`, the sets)
that have the property as a set, which is the form of induction these provers can
use. From it a batch within `max_seq_len` has at most `max_batch_size *
max_seq_len` tokens, and the tokens `warmup` deals in turn add up to the smaller
of this and the budget, with no sequence longer than `max_seq_len` (tokens of one
sequence have different quotients).

`BlockOpsProofs` holds the lemmas on the operators of `BlockOps`, stated for any
manager record `x`, pool size `n` and lengths `tl`, so that every module that has
such a record can cite them. They are about one predicate, `Sound(x, n, tl)`:

* `RefExact`: the count of a block is the number of sequences and regions that
  hold it, plus one if a panic stranded it (a count by `Cardinality`, so the
  lemmas say how each operation changes the two sets of holders);
* `FreeExact`: the free list is duplicate-free and holds exactly the
  unreferenced blocks;
* `LabelsFull`: a labelled block is full. No run checks it; without it a block
  found by its label could be too short for the sequence that takes it;
* `MapOK` and `RegionOK`: the blocks of a map are different, carry the labels
  and lengths of the sequence, and a last block that is not full has one holder.

There is one lemma per operation (`InitSound`, `UpdateSound`, `AllocSound`,
`GrowSound`, `FreeSound`, `ReserveSound`, `ActivateSound`, ...), and `Admitted`
says what the two admission checks give `alloc_blocks` to rely on.

`BlockManagerProofs` cites them, one per action, and proves `TypeCorrect`,
`CountsAreExact`, `FreeListIsExact`, `HoldersAreSound` and `TableIsExact` for any
device, block size, pool, finite sets of sequences and regions, and hash chains.
`FreeKeepsThePrefix` proves the action property `FreeKeepsFilledPrefix`: `free`
forgets no hit of the filled prefix. The argument is by depth in the chain (equal
hashes are equal prefixes, `ChainAssumption`): what `free` unregisters lies
deeper than any filled full block. Assumptions: block size and pools are positive
(`SizeAssumption`, `NumBlocksAssumption`), the sets are finite
(`FiniteAssumption`), hashes are not the reserved value 0 (`HashAssumption`) and
do not collide (`ChainAssumption`).

`SchedulerProofs` proves, for any tasks, tiers, pool sizes and modes:

* `TasksConserved`: `TaskConserved`. The invariant `QInv` needs, next to the
  place of every task, that the locals of a loop are empty where the next loop
  overwrites them (`LocalsInv`), that the entries of a batch are allocated tasks
  (`BatchInv`), and that each stage job in the background thread has a
  pending task of its own (`JobInv`). Blocks play no role: no outcome of the
  block manager loses a task except the one at `scheduler.rs:696`.
* `QueuesAreSorted`: `QueuesSorted`, from `QInv` and `OrderInv`. Requests enter
  after all that came before them, tasks put off are older than those still
  waiting (`WaitInv`), and with reordering the task in hand lies between what is
  left of `allocated` and the tasks promoted so far (`ReclaimInv`, `AllocInv`).
* `TypeCorrect`: `TypeOK`, which types every variable: queues and locals, the
  records of the three block managers, what each tier holds (`kv`), the inputs of
  the batch, the mappings of fetch and write-through, the background jobs. The
  blocks that inputs and mappings name are known from `MemInv`; the last section
  of the module adds `TypeInv` for the rest.
* `FillsWithinSlots`: `FilledWithinSlots`; the assertion of `update_filled_len`
  never fires, and the loop panics only on an empty pool.
* `WholeBlocksOnly`: `HostAligned`, what `get_prefix_cache_blocks_range` asserts.
* `BlocksReleased`: `AllReleased`; no block of any tier leaks, for any
  interleaving of the handlers, `schedule` and the callbacks of the background
  thread.

`TypeCorrect` and the three after it rest on `MemoryInvariant`,
`Spec => [](QInv /\ MemInv)`. None of them is inductive; `MemInv` was checked by TLC as an invariant of the scheduler's
runs before it was proved. Its parts:

* `DevSound`: `Sound` (above) of the managers of the GPU, the host and the disk;
* `MapInv`: which maps a task has, given where it is. GPU blocks only once it is
  allocated, host and disk blocks only while the scheduler has it; a queued task
  has a live host map, a pending one cached full blocks only, and what it has
  filled ends on a block;
* `LenInv`: a task that is not finished can still grow by a token, and a finished
  one is in `finished` until it is freed;
* `RunInv`: what the extend loop and the admission leave behind has a slot for
  every token, until `dispatch` has filled it. This is why `FilledWithinSlots`
  holds although nothing is checked again between the reservation and the use;
* `RegionInv`: the host blocks a stage is to write are reserved only while its
  task is reserved or pending, the disk blocks of a backup only while its job is
  queued, and no other tier has a region;
* `LostInv`: blocks are lost only to a panic of the loop or to the failure of
  `reserve_request`. `AllReleased` is this and `RefExact` with no holder left.

On top of it `SchedulerProofs` proves `KVSound`, what the prefix cache promises:

* `KvIsSound`: `Spec /\ [](fetch = <<>>) => []KVSound`. As long as no KV comes from
  the host, every input of a batch finds the KV of its context tokens in the
  blocks it is given, for any tasks with any common prefixes, any pool, budget
  and batch size, in whatever order the requests come in;
* `KvIsSoundOnGpu`: `Spec => []KVSound` if `NumHost = 0`, because then nothing is
  ever fetched. This is the configuration of the run `Scheduler_order`.

A block is labelled when it is allocated, so a task may take it over by its label
and count it as filled before the task that allocated it has computed it. The
code is right because batches are made up in the order of admission, so the
invariant (`KvInv`, also checked by TLC first) is about debts. A task *owes* a
block that it has slots for and has not filled to its end. `Content` is what the
GPU holds once the batch, as far as it is made up, has been executed, and `Hand`
the running tasks in their order:

* `ShareInv`: who shares a block that another task owes runs after that task, and
  counts the block as filled (so that a block is owed by one task at most);
* `OwnInv` and `HitInv`: a block that a task counts as filled, or that is found by
  its label, holds the KV of its label in `Content`, or is owed by a task;
* `RestInv`: a task that does not run, or that has no slot yet for its last token,
  owes nothing and is owed nothing. A task that yields has filled its slots, and
  a preempted one takes its debts with it: it is the last, and who counts on them
  would run after it;
* `BatchFilled`: entry `i` of the batch is the one of task `i`, and computes it to
  its end unless it is the last entry and the budget is spent.

At `dispatch` the tasks before have been computed to their ends, so nobody owes
the next one anything (`SettledAt`), and executing its entry fills what it owes
(`DispatchFilling`). The fold over the batch needs no induction over data:
`RanAppend` unfolds its last entry, and the invariant is kept while the batch is
made up. The hypothesis is needed: with a host cache and reserved requests
`KVSound` fails, as section 5 says of `scheduler.rs:419`. It also fails with
reordering, which breaks `ShareInv` and which `KVSound` excludes.

`KvTransferProofs` proves, for any finite set of requests and ranks, any pools,
prompts and failures (the tasks of a node ending in the order of admission):

* `NothingIsHeld`: `NothingHeld`. `Sound` holds of both managers, a task has a map
  exactly while its node has it (`TaskOK`), a region is held exactly while the
  request is being pushed or its push has panicked (`PinOK`, prefill), or has a
  reservation that was not triggered (`ReserveOK`, decode; also when `forward` has
  given the request up). When all are over, the blocks that are not free are those
  of these regions (`LeftBehind`) and the lost ones.
* `ServedIsSound`: `ServedSound`. It is not inductive, because it only speaks of
  blocks a cache serves; `Truth` says the same of all labelled blocks. What keeps
  `Truth` is that a block has one writer at a time. A task writes the blocks it
  took from the free list: they are in doubt, and no other task and no region of
  the decode node has them (`OwnOK`). A transfer writes the blocks of its region:
  they are in doubt until it is unpinned, no other region has them (`ReserveOK`),
  and what was written so far from a source that was not in doubt is the KV of
  the label (`SentOK`; the source is pinned and keeps its label, `PinOK`).

Both rest on the `...Effect` lemmas of `BlockOpsProofs`, which say what each
operation of a manager leaves alone.

`RouterProofs` proves, for any nodes with different addresses and any finite set
of requests: `TypeCorrect`, `PeersAreKnown` (from `PeerInv`: the nodes of a
router are of its kind and any two connected nodes know each other), `ReservationsOwned` and `OutputIsWithinMax` (from `PlaceInv` and `OutInv`:
which node holds a request and how many tokens it has, given where its handler
is), and `RoundRobinTakesTurns` (from `OrderInv`, no node is connected twice, and
`TurnInv`, the deque of a router lists its last choices, the latest first).

`LayerSyncProofs` proves, for any number of layers, mappings and iterations:
`TypeCorrect`, `NothingIsLeft`, and `LayerOrderKept`, the refinement of
`LayerOrder`, step by step under the mapping above. The invariant has a part per
actor: `QueueInv` (a value in a queue stands for an event recorded in this
iteration and not yet taken), `ModelInv`, `LoadInv` and `SaveInv` (what each
stream still holds, given how far the process that fills it has come, and that
nothing overtakes the wait in front of it), `CallInv` (when an iteration ends).

Only model-checked, and why:

* liveness (TLAPS does not reason about fairness and ENABLED);
* `KvExact` and `Implements` of `TensorParallel`: about sums and recursive
  definitions over tensors, which need induction over data;
* `CollectivesMatch` of `TensorParallel`: not attempted, see section 7.

## 5. What the models show the code to do

Violation runs:

* `Scheduler_chunk` (`block_manager.rs:250`): a chunk that ends at a block
  boundary gets the blocks up to `end / block_size + 1`, one too many if the
  sequence has it (and it has: blocks for the whole prompt are allocated before
  the first chunk). The worker derives the length of the sequence from its pages
  (`model_worker.py:425`), so the KV of the chunk is stored one page too far on,
  and the next chunk attends to slots nobody has written. With a block size that
  divides `max_num_batched_tokens` this is the usual case.
* `Scheduler_disk` (`engine.rs:388`): `remove_task` frees the host blocks of a
  finished task right after the backup was submitted; the copy runs later and
  may read other KV, which is then committed under the old hashes.
* `Engine_wakeup` (`engine.rs:520`): `notified()` is created after `add_request`
  returned; a task that finishes before that is notified to nobody and the
  handler waits for ever. `WaiterReturns` is the part that does hold.

Further behaviours found while modelling. The models contain them; the
properties are stated so that they hold next to them:

* `get_num_required_blocks` subtracts prefix hits that lie in the free list, so
  `alloc_block` can run out although `can_alloc_blocks` passed
  (`block_manager.rs:106`). `FilledWithinSlots` allows for this panic.
* When preempting all promoted tasks makes no room (`scheduler.rs:696`), because
  blocks are shared or the estimate of unique blocks was off, the task in hand is
  put in neither queue, against the debug assertion at line 731 ("tasks count
  mismatch after request reordering"). It is `Dropped` in the model, and
  `TaskConserved` says that no task is lost in another way.
* `clear_cache` waits for the background manager with the scheduler guard alive
  (`engine.rs:447`); the callback of a backup or a stage needs that mutex, and
  with one outstanding both wait for ever. `ClearReturns` is the part that holds.
* `reserve_blocks` leaves the old hash-table entry of the block it relabels
  (`block_manager.rs:563`), unlike `alloc_blocks`. `TableExact` is therefore
  stated for the GPU manager, which never reserves. If the entry's label and the
  new one agree, the reserved block is a hit before its KV has arrived.
* `push_kv` looks neither at the results of the ranks (`engine.rs:429`: an error
  of the RPC panics, `success = false` does not) nor at what they wrote, and
  returns all pinned hashes as `success_hashes` (`proto/llm.proto:83`). The
  decode node then activates blocks that have not arrived and serves them.
* The panic after an error of a rank (`worker.rs:302`) comes before `unpin_blocks`
  (`engine.rs:436`), so the pins stay; after an error in `forward`
  (`router.rs:289`, `:310`, `:319`) the reservation of the decode node stays.
  `NothingHeld` says that nothing else does.
* A block is labelled when it is allocated, so `pin_blocks_by_hashes` may pin and
  push one that its task has not yet computed (`block_manager.rs:614`).
  `ServedSound` holds for all blocks outside these three cases.
* The bias of a row-parallel layer is sliced like a matrix (`models/utils.py:110`),
  which raises an error for the one-dimensional tensor: OPT checkpoints with
  `enable_bias` do not load. OPT ties `lm_head` to the embedding whatever the
  configuration says; the instance has OPT configurations with tied weights.
* Sampling parameters are per process and never changed from greedy; with a
  temperature every rank would draw for itself and `infer` would panic on answers
  that differ.
* A task that yields keeps its GPU blocks (`scheduler.rs:559`): two tasks with
  two prompt and four output tokens, blocks of one token and five of them wait
  for ever. `AllServed` names this halt (`[]Starved`) next to the panic on an empty
  pool and the dropped task; `Scheduler_order` reaches it, and without that
  exception TLC reports it there.
* Admission leaves 3% of the GPU free (`scheduler.rs:571`), extension does not. A
  task that is preempted after it has grown past 97% of the GPU never gets in
  again and everything behind it waits for ever: the other case of `Starved`,
  reached by `Scheduler_tiers`.
* A failing infer, fetch or write panics `run_engine` (`engine.rs:348`), and
  nothing is scheduled any more: the handlers of queued tasks wait for ever.
* With reordering, or when reserved host blocks are activated while another task
  has the same blocks allocated and not yet written, a task counts blocks as
  filled that are not (`scheduler.rs:662`, `:419`). `KVSound` is checked and proved for
  arrival-order scheduling on the GPU.
* Arrival times are read before the mutex is taken, so `waiting` need not be
  sorted (`engine.rs:179`). `QueuesSorted` is about runs without overtaking.
* In arrival-order scheduling `allocated` need not be sorted either: a task that
  was put aside for a stage, or that waited for its trigger, is allocated behind
  later ones. The code asserts the order only in `schedule_waiting_with_reorder`,
  and `QueuesSorted` claims it of `allocated` only there.
* Two requests of one session in flight make `run_engine` panic
  (`engine.rs:627`).
* Each phase generates a token before it looks at its limit (`scheduler.rs:633`),
  and the limit of the second is saturated at 0 (`router.rs:392`): a limit of 0
  gives one token, a limit of 0 or 1 gives two after a hand-over. `OutputWithinMax`
  names these exceptions. A hand-over also goes on after an end-of-sequence token
  (`router.rs:394`).
* Round-robin over no nodes panics (`router.rs:102`); the initial stats of a
  server that starts before the monitor are lost (`engine.rs:145`).
* `InitCache` polls for ever for a KV worker that has died (`cli.py:123`), which
  a cache of zero blocks always brings about (`engine.rs:65`); one rank that
  fails before the collective warm-up leaves the others in it, so the panic for
  a failed worker is not reached (`worker.rs:250`). `StartUpEnds` is about
  launches in which nothing fails.
* The cache size comes from the peak of the worker with the smallest GPU
  (`worker.rs:362`); another worker's larger peak is not covered. `CacheFits`
  names the condition.
* `llm_srv` creates a disk-cache directory per group but hands the engine the
  configured path (`llm_srv.rs:102`), so servers on one host share files.

## 6. Not modelled

Numerical code, tokenisation, HTTP, the launcher, configuration (no protocol
state): in particular what the kernels compute, with what precision, and that two
ranks' sums round alike; the inside of NIXL and the disk memmap (only their
effect); `pull_kv` (no caller); the vendored fairscale code that serving does not
call (backward passes, `ParallelEmbedding`, `input_is_parallel = False`, random
state, cross entropy); data, pipeline and context groups larger than one;
sampling with a temperature; tasks of several samples; shutdown;
`Controller::clear_cache`; GPU usage as a tie-breaker of the load balancer; hash
collisions of prefix labels. `KvTransfer` and `TensorParallel` abstract from the
scheduler: they do not share their GPU blocks with it, and prefix sharing on the
GPU is `Scheduler`'s.

## 7. Plan

Built so far, in this order: the block operations and the manager, the scheduler
over them, the engine's concurrency and its proofs, the router, the workers,
start-up, the tensor-parallel models, the transfer of KV between nodes.

Proved so far: the engine, the block operations and the manager, the router, the
layer order, start-up, the scheduler's queues, memory and KV on the GPU, and the
transfer of KV between nodes.

Next, the proofs: `CollectivesMatch` of `TensorParallel` for any world and any
functions, and `KVSound` with a host cache when no request is reserved: TLC finds
no violation of it on small instances (three tasks, three to five host blocks),
and a proof needs the debts of both tiers and the order of fetches and
write-throughs.

Worth modelling when the code moves there: tasks of several samples,
`Controller::clear_cache`, two groups of servers on one host, `pull_kv`, and a
refinement from `Scheduler` to `Engine`.
