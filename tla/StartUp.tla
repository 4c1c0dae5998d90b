------------------------------ MODULE StartUp ------------------------------
(***************************************************************************)
(* How one llm_srv comes up: main launches tp_size model workers, and      *)
(* LLMEngine::new connects to them, measures their memory, has each of     *)
(* them allocate its KV cache and spawn its KV worker, and connects to the *)
(* KV workers three times over.  Every process may fail where the code     *)
(* raises, and the whole group may be killed and launched again: then only *)
(* the socket files survive.                                               *)
(*                                                                         *)
(* Sizes of memory are in a unit of their own; the fraction of the memory  *)
(* is a percentage (the code multiplies in f32, exact for small values).   *)
(***************************************************************************)
EXTENDS Integers, FiniteSets, FiniteSetsExt

CONSTANTS
    TpSize,             \* tp_size
    Totals, Peaks,      \* the sizes a worker may report from Warmup
    MemoryPercent,      \* gpu_memory_fraction
    BlockBytes,         \* num_layers * 2 * kv_block_size
    Limits,             \* the configurations: batch, seq, tokens
    MaxRestarts         \* how often the group is launched again

ASSUME StartUpAssumption ==
    /\ TpSize \in Nat \ {0}
    /\ Totals \subseteq Nat /\ Peaks \subseteq Nat
    /\ MemoryPercent \in 0..100
    /\ BlockBytes \in Nat \ {0}
    /\ Limits \subseteq [batch : Nat \ {0}, seq : Nat \ {0}, tokens : Nat \ {0}]
    /\ MaxRestarts \in Nat

VARIABLES
    phase,      \* where main and LLMEngine::new are
    rank,       \* the rank their loops are at
    group,      \* the KV worker group being connected: 1, 2, 3
    model,      \* the model worker processes
    call,       \* the RPC in progress at each model worker
    kv,         \* the KV worker processes
    socks,      \* the socket files of the group's directory
    blocks,     \* the GPU blocks of each worker's kv_caches, NoCache before
    cacheSize,  \* gpu_cache_size of the InitCache request
    numBlocks,  \* num_gpu_blocks the engine goes on with
    total, peak,    \* what each worker's GPU has and needs
    limits,         \* max_batch_size, max_seq_len, max_num_batched_tokens
    restarts

machine == <<total, peak, limits>>
processes == <<model, call, kv, socks, blocks>>
engine == <<phase, rank, group, cacheSize, numBlocks>>
vars == <<engine, processes, machine, restarts>>

Workers == 0..(TpSize - 1)
NoCache == -1        \* kv_caches is None
Calling == {"warmup", "init_cache", "rewarm"}   \* the phases that await an RPC
AllWorkers(v) == [w \in Workers |-> v]

Init ==
    /\ phase = "launch" /\ rank = 0 /\ group = 1
    /\ model = AllWorkers("absent") /\ call = AllWorkers("none")
    /\ kv = AllWorkers("absent") /\ blocks = AllWorkers(NoCache)
    /\ cacheSize = 0 /\ numBlocks = NoCache
    /\ socks = {}
    /\ total \in [Workers -> Totals] /\ peak \in [Workers -> Peaks]
    /\ limits \in Limits
    /\ restarts = 0

-----------------------------------------------------------------------------
(* The pure parts *)

\* Mutant: the token budget alone, whatever the sequences can hold.
WarmupTokens_budget(l) == l.tokens

\* ModelWorker.warmup: the tokens are dealt to the sequences in turn; this is
\* the length of each.
WarmupTokens(l) == Min({l.tokens, l.batch * l.seq})
WarmupLens(l) ==
    [i \in 0..(l.batch - 1) |-> Cardinality({t \in 0..(WarmupTokens(l) - 1) : t % l.batch = i})]

\* Mutant: the first answer instead of the smallest.
Smallest_first == 0

\* ModelWorkerGroup::warmup: min_by_key of the totals; the first of equals.
Smallest ==
    CHOOSE w \in Workers :
        \A v \in Workers : total[w] < total[v] \/ (total[w] = total[v] /\ w <= v)

\* LLMEngine::new: what the fraction leaves above the peak.
CacheSize ==
    LET available == (total[Smallest] * MemoryPercent) \div 100
    IN  IF available > peak[Smallest] THEN available - peak[Smallest] ELSE 0

\* ModelWorker.init_cache.
num_gpu_blocks == cacheSize \div BlockBytes

-----------------------------------------------------------------------------
(* llm_srv.rs::main and LLMEngine::new *)

\* One pass of main's loop: the old socket file goes, the worker is spawned.
LaunchWorker ==
    /\ phase = "launch"
    /\ socks' = socks \ {<<"model", rank>>}
    /\ model' = [model EXCEPT ![rank] = "starting"]
    /\ IF rank + 1 < TpSize
       THEN rank' = rank + 1 /\ UNCHANGED phase
       ELSE rank' = 0 /\ phase' = "connect"
    /\ UNCHANGED <<group, cacheSize, numBlocks, call, kv, blocks, machine, restarts>>

\* run_workers_gather: one task per worker, all sent before any is awaited.
Send(p) ==
    /\ phase' = p
    /\ call' = AllWorkers("sent")

\* WorkerImpl::new retries until the socket accepts.
ConnectModel ==
    /\ phase = "connect"
    /\ model[rank] = "listening" /\ <<"model", rank>> \in socks
    /\ IF rank + 1 < TpSize
       THEN rank' = rank + 1 /\ UNCHANGED <<phase, call>>
       ELSE rank' = 0 /\ Send("warmup")
    /\ UNCHANGED <<group, cacheSize, numBlocks, model, kv, socks, blocks, machine, restarts>>

\* join_all: every worker has answered.
Gathered(p) == phase = p /\ \A w \in Workers : call[w] \in {"ok", "error"}
Succeeded == \A w \in Workers : call[w] = "ok"

\* extract_if_all_equal.
AllEqual == \A w, v \in Workers : blocks[w] = blocks[v]

\* The first warm-up answers: the size of the cache follows from it.
WarmedUp ==
    /\ Gathered("warmup") /\ Succeeded
    /\ cacheSize' = CacheSize
    /\ Send("init_cache")
    /\ UNCHANGED <<rank, group, numBlocks, model, kv, socks, blocks, machine, restarts>>

CacheReady ==
    /\ Gathered("init_cache") /\ Succeeded /\ AllEqual
    /\ numBlocks' = blocks[0]
    /\ Send("rewarm")
    /\ UNCHANGED <<rank, group, cacheSize, model, kv, socks, blocks, machine, restarts>>

Rewarmed ==
    /\ Gathered("rewarm") /\ Succeeded
    /\ phase' = "connect_kv"
    /\ call' = AllWorkers("none")
    /\ UNCHANGED <<rank, group, cacheSize, numBlocks, model, kv, socks, blocks, machine, restarts>>

\* An error of any worker, or counts that differ, is a panic.
GatherPanics ==
    /\ \E p \in Calling : Gathered(p) /\ ~(Succeeded /\ (p = "init_cache" => AllEqual))
    /\ phase' = "panicked"
    /\ UNCHANGED <<rank, group, cacheSize, numBlocks, processes, machine, restarts>>

\* KVWorkerGroup::init, three times (kv, disk and agent group).
ConnectKv ==
    /\ phase = "connect_kv"
    /\ kv[rank] = "serving" /\ <<"kv", rank>> \in socks
    /\ IF rank + 1 < TpSize
       THEN rank' = rank + 1 /\ UNCHANGED <<group, phase>>
       ELSE /\ rank' = 0
            /\ IF group < 3
               THEN group' = group + 1 /\ UNCHANGED phase
               ELSE phase' = "register" /\ UNCHANGED group
    /\ UNCHANGED <<cacheSize, numBlocks, processes, machine, restarts>>

\* get_local_agent_metadata, Scheduler::new, the initial publish, the server.
Serve ==
    /\ phase = "register"
    /\ \A w \in Workers : kv[w] = "serving"
    /\ phase' = "serving"
    /\ UNCHANGED <<rank, group, cacheSize, numBlocks, processes, machine, restarts>>

\* The initial publish fails: new returns an error, main panics on it.
RegisterPanics ==
    /\ phase = "register"
    /\ phase' = "panicked"
    /\ UNCHANGED <<rank, group, cacheSize, numBlocks, processes, machine, restarts>>

-----------------------------------------------------------------------------
(* The model worker process: cli.py::serve and WorkerService *)

\* init_distributed reaches the first all_reduce ...
JoinGroup(w) ==
    /\ model[w] = "starting"
    /\ model' = [model EXCEPT ![w] = "joining"]
    /\ UNCHANGED <<engine, call, kv, socks, blocks, machine, restarts>>

\* ... which returns once every rank is in it.
LeaveAllReduce(w) ==
    /\ model[w] = "joining"
    /\ \A v \in Workers : model[v] \notin {"absent", "starting", "aborted"}
    /\ model' = [model EXCEPT ![w] = "loading"]
    /\ UNCHANGED <<engine, call, kv, socks, blocks, machine, restarts>>

\* The rest of ModelWorker.__init__, then the server.
Listen(w) ==
    /\ model[w] = "loading"
    /\ model' = [model EXCEPT ![w] = "listening"]
    /\ socks' = socks \union {<<"model", w>>}
    /\ UNCHANGED <<engine, call, kv, blocks, machine, restarts>>

\* An exception before the server runs ends the process: before it has
\* joined the others in the all_reduce, or after.
ModelWorkerDies(w) ==
    /\ model[w] \in {"starting", "loading"}
    /\ model' = [model EXCEPT ![w] = IF @ = "starting" THEN "aborted" ELSE "dead"]
    /\ UNCHANGED <<engine, call, kv, socks, blocks, machine, restarts>>

Answer(w, v) == call' = [call EXCEPT ![w] = v]

\* Warmup: the forward pass is collective, no rank leaves it alone.
StartWarmup(w) ==
    /\ phase \in {"warmup", "rewarm"} /\ call[w] = "sent"
    /\ Answer(w, "running")
    /\ UNCHANGED <<engine, model, kv, socks, blocks, machine, restarts>>

FinishWarmup(w) ==
    /\ phase \in {"warmup", "rewarm"} /\ call[w] = "running"
    /\ \A v \in Workers : call[v] \in {"running", "ok"}
    /\ Answer(w, "ok")
    /\ UNCHANGED <<engine, model, kv, socks, blocks, machine, restarts>>

\* Mutant: wait for the socket, then spawn the process that creates it.
InitCache_polls_first(w) ==
    /\ phase = "init_cache" /\ call[w] = "sent"
    /\ <<"kv", w>> \in socks
    /\ blocks' = [blocks EXCEPT ![w] = num_gpu_blocks]
    /\ kv' = [kv EXCEPT ![w] = "building"]
    /\ Answer(w, "polling")
    /\ UNCHANGED <<engine, model, socks, machine, restarts>>

\* InitCache: allocate, then spawn the KV worker.
InitCache(w) ==
    /\ phase = "init_cache" /\ call[w] = "sent"
    /\ blocks' = [blocks EXCEPT ![w] = num_gpu_blocks]
    /\ kv' = [kv EXCEPT ![w] = "building"]
    /\ Answer(w, "polling")
    /\ UNCHANGED <<engine, model, socks, machine, restarts>>

\* os.path.exists polls for the file, whoever left it there.
PollSocket(w) ==
    /\ call[w] = "polling"
    /\ <<"kv", w>> \in socks
    /\ Answer(w, "dialing")
    /\ UNCHANGED <<engine, model, kv, socks, blocks, machine, restarts>>

\* Mutant: the file is taken for the process.
ChannelReady_by_file(w) ==
    /\ call[w] = "dialing"
    /\ Answer(w, "ok")
    /\ UNCHANGED <<engine, model, kv, socks, blocks, machine, restarts>>

\* channel_ready_future: the KV worker accepts.
ChannelReady(w) ==
    /\ call[w] = "dialing"
    /\ kv[w] = "serving"
    /\ Answer(w, "ok")
    /\ UNCHANGED <<engine, model, kv, socks, blocks, machine, restarts>>

\* A handler raises (out of memory): the RPC fails, the process lives on.
HandlerFails(w) ==
    /\ phase \in Calling /\ call[w] = "sent"
    /\ Answer(w, "error")
    /\ UNCHANGED <<engine, model, kv, socks, blocks, machine, restarts>>

-----------------------------------------------------------------------------
(* The KV worker process: init_kv_cache *)

\* KVWorker.__init__, then the port; a cache of no blocks cannot be viewed
\* and the process ends.
KvBuild(w) ==
    /\ kv[w] = "building"
    /\ IF blocks[w] > 0
       THEN /\ kv' = [kv EXCEPT ![w] = "bound"]
            /\ socks' = socks \union {<<"kv", w>>}
       ELSE /\ kv' = [kv EXCEPT ![w] = "dead"]
            /\ UNCHANGED socks
    /\ UNCHANGED <<engine, model, call, blocks, machine, restarts>>

KvServe(w) ==
    /\ kv[w] = "bound"
    /\ kv' = [kv EXCEPT ![w] = "serving"]
    /\ UNCHANGED <<engine, model, call, socks, blocks, machine, restarts>>

\* KVWorker.__init__ raises: the memory cannot be allocated or registered.
KvDies(w) ==
    /\ kv[w] = "building"
    /\ kv' = [kv EXCEPT ![w] = "dead"]
    /\ UNCHANGED <<engine, model, call, socks, blocks, machine, restarts>>

-----------------------------------------------------------------------------
\* Every process is killed and main runs again; nobody unlinks the sockets.
Relaunch ==
    /\ restarts < MaxRestarts
    /\ restarts' = restarts + 1
    /\ phase' = "launch" /\ rank' = 0 /\ group' = 1
    /\ model' = AllWorkers("absent") /\ call' = AllWorkers("none")
    /\ kv' = AllWorkers("absent") /\ blocks' = AllWorkers(NoCache)
    /\ cacheSize' = 0 /\ numBlocks' = NoCache
    /\ UNCHANGED <<socks, machine>>

Engine ==
    \/ LaunchWorker \/ ConnectModel
    \/ WarmedUp \/ CacheReady \/ Rewarmed \/ GatherPanics
    \/ ConnectKv \/ Serve

ModelWorker(w) ==
    \/ JoinGroup(w) \/ LeaveAllReduce(w) \/ Listen(w)
    \/ StartWarmup(w) \/ FinishWarmup(w)
    \/ InitCache(w) \/ PollSocket(w) \/ ChannelReady(w)

KvWorker(w) == KvBuild(w) \/ KvServe(w)

Failure ==
    \/ RegisterPanics
    \/ \E w \in Workers : ModelWorkerDies(w) \/ HandlerFails(w) \/ KvDies(w)

Next ==
    \/ Engine
    \/ \E w \in Workers : ModelWorker(w) \/ KvWorker(w)
    \/ Failure
    \/ Relaunch

\* The processes run; nothing has to fail or to be launched again.
Fairness ==
    /\ WF_vars(Engine)
    /\ \A w \in Workers : WF_vars(ModelWorker(w)) /\ WF_vars(KvWorker(w))

Spec == Init /\ [][Next]_vars
FairSpec == Spec /\ Fairness

-----------------------------------------------------------------------------
(* Properties *)

TypeOK ==
    /\ phase \in Calling \union
                {"launch", "connect", "connect_kv", "register", "serving", "panicked"}
    /\ rank \in Workers /\ group \in 1..3
    /\ model \in [Workers -> {"absent", "starting", "joining", "loading",
                              "listening", "aborted", "dead"}]
    /\ call \in [Workers -> {"none", "sent", "running", "polling", "dialing",
                             "ok", "error"}]
    /\ kv \in [Workers -> {"absent", "building", "bound", "serving", "dead"}]
    /\ socks \subseteq {"model", "kv"} \X Workers
    /\ blocks \in [Workers -> Nat \union {NoCache}]
    /\ cacheSize \in Nat /\ numBlocks \in Nat \union {NoCache}

\* Once InitCache has been gathered, the KV worker each model worker spawned
\* in this launch serves, and every worker's cache has the number of blocks
\* the scheduler is created with: neither a socket file left by an earlier
\* launch nor a slow worker lets the engine go on too early.
KvReady ==
    phase \in {"rewarm", "connect_kv", "register", "serving"} =>
        \A w \in Workers : kv[w] = "serving" /\ blocks[w] = numBlocks

\* The cache a worker allocates and its peak fit into the configured fraction
\* of its own GPU, although the size was computed from another worker's
\* numbers: for every worker whose peak is no larger than the one used.
CacheFits ==
    \A w \in Workers :
        blocks[w] > 0 /\ peak[w] <= peak[Smallest] =>
            blocks[w] * BlockBytes + peak[w] <= (total[w] * MemoryPercent) \div 100

\* The batch ModelWorker.warmup measures is as large as the largest one that
\* dispatch may send (prompts within max_seq_len), and no larger.
WarmupIsLargestBatch ==
    LET entries == 0..(limits.batch - 1)
        Tokens(b) == MapThenSumSet(LAMBDA i : b[i], entries)
        dispatchable == {b \in [entries -> 0..limits.seq] : Tokens(b) <= limits.tokens}
    IN  /\ WarmupLens(limits) \in dispatchable
        /\ \A b \in dispatchable : Tokens(b) <= Tokens(WarmupLens(limits))

\* Nothing has failed in this launch.
Healthy ==
    \A w \in Workers :
        model[w] \notin {"aborted", "dead"} /\ kv[w] # "dead" /\ call[w] # "error"

\* Unless a process fails, every launch ends with the engine serving (or with
\* the panic of a refused registration): the retry loops of WorkerImpl::new,
\* the polling of InitCache and the collective calls never wait for ever,
\* whatever files the last launch left.
StartUpEnds == []<>(phase \in {"serving", "panicked"} \/ ~Healthy)
=============================================================================
