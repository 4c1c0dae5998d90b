------------------------------ MODULE LayerSync ------------------------------
(***************************************************************************)
(* One model worker and its KV worker (model_worker.py, kv_worker.py), two *)
(* processes that overlap copies and computation layer by layer.  They     *)
(* synchronise their CUDA streams by two interprocess events per layer and *)
(* by two queues of dummy values: a value in a queue says that the event   *)
(* of the next layer has been recorded, so that waiting for it makes       *)
(* sense.  The engine starts an iteration by up to three calls (infer,     *)
(* copy_kv in either direction) and joins them (engine.rs::iter).          *)
(*                                                                         *)
(* A CUDA stream is a queue of operations that the GPU executes in order;  *)
(* the host enqueues and goes on.  Waiting for an event is waiting for the *)
(* record call that was the latest when the wait was enqueued.  The queues *)
(* hold indistinguishable values, so a queue is its length; the delay of   *)
(* mp.Queue's feeder thread looks like a slow receiver.                    *)
(***************************************************************************)
EXTENDS Naturals, Sequences

CONSTANTS
    NumLayers,  \* num_layers of the model
    NumMaps,    \* block mappings per direction, one per sequence
    MaxIters    \* bound on the iterations

ASSUME LayerAssumption ==
    NumLayers \in Nat \ {0} /\ NumMaps \in Nat \ {0} /\ MaxIters \in Nat

VARIABLES
    running,            \* has the engine started an iteration and not joined it?
    fetching, saving,   \* wait_before_execute, record_after_execute
    fetched,        \* <<l, k>>: mapping k of layer l is on the GPU
    attended,       \* the layers whose attention the GPU has executed
    saved,          \* <<l, k>>: mapping k of layer l is on the host
    iter,           \* the number of this iteration
    mpc, mlayer,            \* the model worker: where it is, in which layer
    lpc, llayer, lmap,      \* load_kv_blocks_from_host, and its mapping
    spc, slayer, smap,      \* save_kv_blocks_to_host, and its mapping
    mq, kq,         \* model_queue and kv_queue: how many values they hold
    stream,         \* the operations enqueued on each stream
    called, reached \* event, layer: iteration of the last record call, of the
                    \* last record that the GPU has executed

model == <<mpc, mlayer>>
load == <<lpc, llayer, lmap>>
save == <<spc, slayer, smap>>
gpu == <<fetched, attended, saved, reached>>
flags == <<running, fetching, saving, iter>>
vars == <<flags, model, load, save, mq, kq, stream, called, gpu>>

Layers == 1..NumLayers
Maps == 1..NumMaps
Streams == {"model", "htod", "dtoh"}
Events == {"pre", "post"}

\* Operations on a stream; ver is an iteration, k a mapping.
Op(op, ev, l, k, ver) == [op |-> op, ev |-> ev, l |-> l, k |-> k, ver |-> ver]
Ops == [op : {"wait", "record", "attend", "copy"}, ev : Events \union {"none"}, l : Layers,
        k : 0..NumMaps, ver : 0..MaxIters]
Wait(ev, l) == Op("wait", ev, l, 0, called[ev][l])
Record(ev, l) == Op("record", ev, l, 0, iter)
Copy(l, k) == Op("copy", "none", l, k, 0)
Attention(l) == Op("attend", "none", l, 0, 0)

Init ==
    /\ running = FALSE /\ fetching = FALSE /\ saving = FALSE
    /\ iter = 0
    /\ fetched = {} /\ attended = {} /\ saved = {}
    /\ mpc = "done" /\ mlayer = 1
    /\ lpc = "done" /\ llayer = 1 /\ lmap = 1
    /\ spc = "done" /\ slayer = 1 /\ smap = 1
    /\ mq = 0 /\ kq = 0
    /\ stream = [s \in Streams |-> <<>>]
    /\ called = [e \in Events |-> [l \in Layers |-> 0]]
    /\ reached = [e \in Events |-> [l \in Layers |-> 0]]

-----------------------------------------------------------------------------
(* The engine: start the calls, join them.  A copy is called if it has     *)
(* block mappings, and the model worker is told by wait_before_execute and *)
(* record_after_execute.                                                   *)

StartIter(f, s) ==
    /\ ~running /\ iter < MaxIters
    /\ running' = TRUE
    /\ fetching' = f /\ saving' = s
    /\ iter' = iter + 1
    /\ fetched' = {} /\ attended' = {} /\ saved' = {}
    /\ mpc' = "pre" /\ mlayer' = 1
    /\ lpc' = (IF f THEN "copy" ELSE "done") /\ llayer' = 1 /\ lmap' = 1
    /\ spc' = (IF s THEN "get" ELSE "done") /\ slayer' = 1 /\ smap' = 1
    /\ UNCHANGED <<mq, kq, stream, called, reached>>

JoinIter ==
    /\ running
    /\ mpc = "done" /\ lpc = "done" /\ spc = "done"
    /\ running' = FALSE
    /\ UNCHANGED <<fetching, saving, iter, model, load, save, mq, kq, stream, called, gpu>>

-----------------------------------------------------------------------------
(* The model worker: the hooks around the attention of a layer *)

\* pre_hook_fn blocks until there is a value; then the attention is enqueued.
PreHook ==
    /\ mpc = "pre"
    /\ fetching => mq > 0
    /\ mq' = IF fetching THEN mq - 1 ELSE mq
    /\ stream' = [stream EXCEPT
                     !["model"] = (IF fetching THEN Append(@, Wait("pre", mlayer)) ELSE @)
                                  \o <<Attention(mlayer)>>]
    /\ mpc' = "post"
    /\ UNCHANGED <<flags, mlayer, load, save, kq, called, gpu>>

NextLayer(l, again) == IF l = NumLayers THEN "drain" ELSE again

Following(l) == IF l = NumLayers THEN l ELSE l + 1

\* Mutant: a value is put whether the event is recorded or not.
PostHook_always ==
    /\ mpc = "post"
    /\ called' = IF saving THEN [called EXCEPT !["post"][mlayer] = iter] ELSE called
    /\ stream' = [stream EXCEPT
                     !["model"] = IF saving THEN Append(@, Record("post", mlayer)) ELSE @]
    /\ kq' = kq + 1
    /\ mpc' = NextLayer(mlayer, "pre") /\ mlayer' = Following(mlayer)
    /\ UNCHANGED <<flags, load, save, mq, gpu>>

PostHook ==
    /\ mpc = "post"
    /\ called' = IF saving THEN [called EXCEPT !["post"][mlayer] = iter] ELSE called
    /\ stream' = [stream EXCEPT
                     !["model"] = IF saving THEN Append(@, Record("post", mlayer)) ELSE @]
    /\ kq' = IF saving THEN kq + 1 ELSE kq
    /\ mpc' = NextLayer(mlayer, "pre") /\ mlayer' = Following(mlayer)
    /\ UNCHANGED <<flags, load, save, mq, gpu>>

\* The sampled tokens are copied to the CPU: the stream has been executed.
ModelDone ==
    /\ mpc = "drain" /\ stream["model"] = <<>>
    /\ mpc' = "done"
    /\ UNCHANGED <<flags, mlayer, load, save, mq, kq, stream, called, gpu>>

-----------------------------------------------------------------------------
(* The KV worker: two coroutines that yield after every block mapping *)

LoadCopy ==
    /\ lpc = "copy"
    /\ stream' = [stream EXCEPT !["htod"] = Append(@, Copy(llayer, lmap))]
    /\ lpc' = (IF lmap = NumMaps THEN "record" ELSE "copy")
    /\ lmap' = (IF lmap = NumMaps THEN 1 ELSE lmap + 1)
    /\ UNCHANGED <<flags, model, llayer, save, mq, kq, called, gpu>>

\* Mutant: nothing is put into model_queue.
LoadRecord_silent ==
    /\ lpc = "record"
    /\ called' = [called EXCEPT !["pre"][llayer] = iter]
    /\ stream' = [stream EXCEPT !["htod"] = Append(@, Record("pre", llayer))]
    /\ lpc' = NextLayer(llayer, "copy") /\ llayer' = Following(llayer)
    /\ UNCHANGED <<flags, model, lmap, save, mq, kq, gpu>>

LoadRecord ==
    /\ lpc = "record"
    /\ called' = [called EXCEPT !["pre"][llayer] = iter]
    /\ stream' = [stream EXCEPT !["htod"] = Append(@, Record("pre", llayer))]
    /\ mq' = mq + 1
    /\ lpc' = NextLayer(llayer, "copy") /\ llayer' = Following(llayer)
    /\ UNCHANGED <<flags, model, lmap, save, kq, gpu>>

LoadDone ==
    /\ lpc = "drain" /\ stream["htod"] = <<>>
    /\ lpc' = "done"
    /\ UNCHANGED <<flags, model, llayer, lmap, save, mq, kq, stream, called, gpu>>

\* Mutant: the stream does not wait for the event.
SaveGet_no_wait ==
    /\ spc = "get" /\ kq > 0
    /\ kq' = kq - 1
    /\ spc' = "copy"
    /\ UNCHANGED <<flags, model, load, slayer, smap, mq, stream, called, gpu>>

SaveGet ==
    /\ spc = "get" /\ kq > 0
    /\ kq' = kq - 1
    /\ stream' = [stream EXCEPT !["dtoh"] = Append(@, Wait("post", slayer))]
    /\ spc' = "copy"
    /\ UNCHANGED <<flags, model, load, slayer, smap, mq, called, gpu>>

SaveCopy ==
    /\ spc = "copy"
    /\ stream' = [stream EXCEPT !["dtoh"] = Append(@, Copy(slayer, smap))]
    /\ spc' = (IF smap < NumMaps THEN "copy" ELSE NextLayer(slayer, "get"))
    /\ smap' = (IF smap < NumMaps THEN smap + 1 ELSE 1)
    /\ slayer' = (IF smap < NumMaps THEN slayer ELSE Following(slayer))
    /\ UNCHANGED <<flags, model, load, mq, kq, called, gpu>>

SaveDone ==
    /\ spc = "drain" /\ stream["dtoh"] = <<>>
    /\ spc' = "done"
    /\ UNCHANGED <<flags, model, load, slayer, smap, mq, kq, stream, called, gpu>>

-----------------------------------------------------------------------------
(* The GPU executes the operation at the head of a stream *)

Execute(s) ==
    /\ stream[s] # <<>>
    /\ LET o == Head(stream[s])
       IN  /\ o.op = "wait" => reached[o.ev][o.l] >= o.ver
           /\ reached' = IF o.op = "record" THEN [reached EXCEPT ![o.ev][o.l] = o.ver]
                         ELSE reached
           /\ attended' = IF o.op = "attend" THEN attended \union {o.l} ELSE attended
           /\ fetched' = IF o.op = "copy" /\ s = "htod" THEN fetched \union {<<o.l, o.k>>}
                         ELSE fetched
           /\ saved' = IF o.op = "copy" /\ s = "dtoh" THEN saved \union {<<o.l, o.k>>}
                       ELSE saved
    /\ stream' = [stream EXCEPT ![s] = Tail(@)]
    /\ UNCHANGED <<flags, model, load, save, mq, kq, called>>

-----------------------------------------------------------------------------
ModelWorker == PreHook \/ PostHook \/ ModelDone
KvLoad == LoadCopy \/ LoadRecord \/ LoadDone
KvSave == SaveGet \/ SaveCopy \/ SaveDone

Next ==
    \/ \E f, s \in BOOLEAN : StartIter(f, s)
    \/ JoinIter
    \/ ModelWorker \/ KvLoad \/ KvSave
    \/ \E s \in Streams : Execute(s)

Spec == Init /\ [][Next]_vars

\* Processes run, coroutines that can go on are resumed, streams make
\* progress, and the engine polls its join.
FairSpec ==
    /\ Spec
    /\ WF_vars(JoinIter)
    /\ WF_vars(ModelWorker) /\ WF_vars(KvLoad) /\ WF_vars(KvSave)
    /\ \A s \in Streams : WF_vars(Execute(s))

-----------------------------------------------------------------------------
(* Properties *)

\* The queues never hold more values than there are layers.
TypeOK ==
    /\ running \in BOOLEAN /\ fetching \in BOOLEAN /\ saving \in BOOLEAN
    /\ iter \in 0..MaxIters
    /\ fetched \subseteq Layers \X Maps /\ attended \subseteq Layers /\ saved \subseteq Layers \X Maps
    /\ mpc \in {"pre", "post", "drain", "done"} /\ mlayer \in Layers
    /\ lpc \in {"copy", "record", "drain", "done"} /\ llayer \in Layers /\ lmap \in Maps
    /\ spc \in {"get", "copy", "drain", "done"} /\ slayer \in Layers /\ smap \in Maps
    /\ mq \in 0..NumLayers /\ kq \in 0..NumLayers
    /\ stream \in [Streams -> Seq(Ops)]
    /\ called \in [Events -> [Layers -> 0..MaxIters]]
    /\ reached \in [Events -> [Layers -> 0..MaxIters]]

Order == INSTANCE LayerOrder WITH
    running <- running, fetching <- fetching, saving <- saving,
    fetched <- fetched, attended <- attended, saved <- saved

\* The workers keep the order that the scheduler's bookkeeping relies on:
\* fetch, attention, write-through in each layer, whatever the two processes
\* and the three streams do, and nothing left over when iter's join! is done.
KeepsLayerOrder == Order!Spec

\* Between iterations no value is left in a queue and no operation on a
\* stream: with anonymous values a leftover would let the next iteration
\* wait for an event of the one before.
NothingLeft ==
    ~running => mq = 0 /\ kq = 0 /\ \A s \in Streams : stream[s] = <<>>

\* Every iteration ends: the workers do not wait for each other for ever.
IterationEnds == running ~> ~running
=============================================================================
