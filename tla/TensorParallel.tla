--------------------------- MODULE TensorParallel ---------------------------
(***************************************************************************)
(* The model workers of one engine as processes: each rank creates the     *)
(* process groups, loads its shards and then answers Infer requests, whose *)
(* forward pass is a sequence of local computations on the rank's part of  *)
(* the weights and of the KV cache, joined by collectives of the model     *)
(* group.  ModelWorkerGroup::infer sends a request to every rank and takes *)
(* the answer they agree on.                                               *)
(*                                                                         *)
(* A rank that has called a collective waits in it until every member of   *)
(* the group has called its own; ranks run at any relative speed.          *)
(*                                                                         *)
(* The engine is abstract here: a request holds any chunk of the next      *)
(* tokens of any sequences, on the pages of the sequence's own block table *)
(* that dispatch takes for it.                                             *)
(***************************************************************************)
EXTENDS ShardedModel, InputBatch, ProcessGroups, FiniteSets

CONSTANTS
  Seqs,      \* sequences being served
  Prompts,   \* the prompts the sequences may start with: functions on Seqs
  Table,     \* Table[s]: the block table of s
  MaxLen,    \* bound: tokens of a sequence
  Budget     \* max_num_batched_tokens

\* initialize_model_parallel(world_size): one model group of all ranks, whose
\* size is get_model_parallel_world_size().
ASSUME WorldAssumption == ModelParallelSize = World /\ Tp = World

Slots == (UNION {ToSet(Table[s]) : s \in Seqs}) \X (0..(Page - 1))

VARIABLES
  config,    \* the model being served
  stage,     \* stage[r]: "groups", "load", "serving" or "failed"
  made,      \* made[r]: the number of new_group calls rank r has made
  request,   \* the inputs of the Infer request under way, <<>> if none
  at,        \* at[r]: how many collectives of this request r has called,
             \* one more once it has answered
  sent,      \* sent[r]: what r has passed to the collectives of this request
  params,    \* params[r]: the InputParams r made of this request
  hidden,    \* hidden[r]: r's hidden_states (the residual stream)
  cache,     \* cache[r][l][slot]: r's part of a key and a value
  answer,    \* answer[r]: the InferResponse of r, empty until it is sent
  tokens,    \* tokens[s]: prompt and output of s
  filled,    \* filled[s]: how many of them are in the KV cache
  misplaced, \* history: the sequences some KV of which is a page too far on
  engine     \* "idle", "waiting" for the ranks, or "panicked"

vars == <<config, stage, made, request, at, sent, params, hidden, cache, answer, tokens, filled,
          misplaced, engine>>
forward == <<at, sent, params, hidden, cache, answer>>

NoAnswer == [s \in {} |-> 0]
NoParams == MakeInputs(<<>>)

\* A key or value of the rank's heads.  The cache is torch.empty; what nobody has
\* written is read for misplaced sequences only.
Blank(c) ==
  LET n == HeadDim * PartitionSize(IF c.type = "opt" THEN Heads ELSE KvHeads)
  IN  [k |-> Zero(n), v |-> Zero(n)]

Init ==
  /\ config \in Configs
  /\ stage = [r \in Ranks |-> "groups"]
  /\ made = [r \in Ranks |-> 0]
  /\ request = <<>>
  /\ at = [r \in Ranks |-> 0]
  /\ sent = [r \in Ranks |-> <<>>]
  /\ params = [r \in Ranks |-> NoParams]
  /\ hidden = [r \in Ranks |-> <<>>]
  /\ cache = [r \in Ranks |-> [l \in Layers |-> [slot \in Slots |-> Blank(config)]]]
  /\ answer = [r \in Ranks |-> NoAnswer]
  /\ tokens \in Prompts
  /\ filled = [s \in Seqs |-> 0]
  /\ misplaced = {}
  /\ engine = "idle"

-----------------------------------------------------------------------------
(***************************************************************************)
(* Start-up of a rank.                                                     *)
(***************************************************************************)
\* The call a rank waits in returns once every rank of the world made it.
CallReturned(r) ==
  \A q \in Ranks : /\ made[q] >= made[r]
                   /\ made[r] > 0 => NewGroupCalls[q][made[r]] = NewGroupCalls[r][made[r]]

NewGroup(r) ==
  /\ stage[r] = "groups"
  /\ CallReturned(r)
  /\ made[r] < Len(NewGroupCalls[r])
  /\ made' = [made EXCEPT ![r] = @ + 1]
  /\ UNCHANGED <<config, stage, request, forward, tokens, filled, misplaced, engine>>

GroupsMade(r) ==
  /\ stage[r] = "groups"
  /\ made[r] = Len(NewGroupCalls[r])
  /\ CallReturned(r)
  /\ stage' = [stage EXCEPT ![r] = "load"]
  /\ UNCHANGED <<config, made, request, forward, tokens, filled, misplaced, engine>>

\* get_model: build the layers and load the checkpoint, or raise.
Load(r) ==
  /\ stage[r] = "load"
  /\ stage' = [stage EXCEPT ![r] = IF Loads(config) THEN "serving" ELSE "failed"]
  /\ UNCHANGED <<config, made, request, forward, tokens, filled, misplaced, engine>>

Params == [c \in Configs |-> [r \in Ranks |-> LoadedBy(c, ModelParallelRank[r])]]

-----------------------------------------------------------------------------
(***************************************************************************)
(* The engine sends a request.  dispatch takes one page more than the full *)
(* pages of the context, of those allocated for all tokens of s: with a    *)
(* chunk that ends on a page boundary that is one too many, and the ranks, *)
(* which take the length from the pages, misplace it.                      *)
(***************************************************************************)
get_block_ids_range(s, end) ==
  LET allocated == (Len(tokens[s]) + Page - 1) \div Page
      pages == (end \div Page) + 1
  IN  SubSeq(Table[s], 1, IF pages < allocated THEN pages ELSE allocated)

InferInput(s, n) ==
  LET context == filled[s] + n
  IN  [seq     |-> s,
       ids     |-> SubSeq(tokens[s], filled[s] + 1, context),
       filled  |-> filled[s],
       context |-> context,
       blocks  |-> get_block_ids_range(s, context)]

PageTooMany(e) == (Len(e.blocks) - 1) * Page >= e.context

StartInfer ==
  /\ engine = "idle"
  /\ \A r \in Ranks : stage[r] = "serving"
  /\ \E S \in SUBSET {s \in Seqs : Len(tokens[s]) < MaxLen} \ {{}} :
     \E order \in SetToSeqs(S), lens \in [S -> 1..Budget] :
       /\ \A s \in S : filled[s] + lens[s] <= Len(tokens[s])
       /\ FoldLeft(LAMBDA t, s : t + lens[s], 0, order) <= Budget
       /\ request' = [i \in DOMAIN order |-> InferInput(order[i], lens[order[i]])]
  /\ misplaced' = misplaced \union {e.seq : e \in {d \in ToSet(request') : PageTooMany(d)}}
  /\ engine' = "waiting"
  /\ UNCHANGED <<config, stage, made, forward, tokens, filled>>

-----------------------------------------------------------------------------
(***************************************************************************)
(* The forward pass of a rank.  After its n-th collective the rank goes on *)
(* to its next one: it finishes the block that ended in the n-th and       *)
(* computes its contribution to the next.                                  *)
(***************************************************************************)
Batch == SortedInputs(request)

Contribution(op, value) == [op |-> op, value |-> value]
Shape(call) == <<call.op, Len(call.value), Len(call.value[1])>>

\* The collective r waits in has been called by all, with equal arguments.
Returned(r) ==
  at[r] > 0 => LET members == ToSet(ModelGroup[r].ranks) IN
                 /\ \A q \in members : at[r] \in DOMAIN sent[q]
                 /\ \A q \in members : Shape(sent[q][at[r]]) = Shape(sent[r][at[r]])

Result(r) ==
  LET parts == [i \in DOMAIN ModelGroup[r].ranks |-> sent[ModelGroup[r].ranks[i]][at[r]].value]
  IN  IF sent[r][at[r]].op = "all_reduce" THEN AllReduce(parts) ELSE AllGather(parts)

CanCompute(r) == request # <<>> /\ at[r] <= NumCollectives /\ Returned(r)
Advance(r) == at' = [at EXCEPT ![r] = @ + 1]

\* hidden_states after the collective that has just returned.
Hidden1(r) ==
  AfterCollective(config, Params[config][r], at[r], hidden[r], Result(r), params[r].positions)

Post(r, op, value) == sent' = [sent EXCEPT ![r] = Append(@, Contribution(op, value))]

Embed(r) ==
  /\ CanCompute(r) /\ at[r] = 0
  /\ Advance(r)
  /\ LET inputs == MakeInputs(Batch)
         layer  == Params[config][r][0].embed_tokens
     IN  /\ params' = [params EXCEPT ![r] = inputs]
         /\ Post(r, "all_reduce",
                 [i \in DOMAIN inputs.ids |->
                   EmbeddingPartial(layer, Vocab, ModelParallelRank[r], inputs.ids[i])])
  /\ UNCHANGED <<config, stage, made, request, hidden, cache, answer, tokens, filled, misplaced, engine>>

\* Attention.forward: append to the paged cache, then read through it.
Appended(l, r, qkv) ==
  LET slots == params[r].append
  IN  [slot \in Slots |->
        IF slot \in ToSet(slots)
        THEN LET i == CHOOSE i \in DOMAIN slots : slots[i] = slot
             IN  [k |-> qkv[i].k, v |-> qkv[i].v]
        ELSE cache[r][l][slot]]

AttentionForward(r, l) ==
  LET w     == Params[config][r]
      x     == Hidden1(r)
      qkv   == LayerQKV(config, w, l, x, params[r].positions)
      after == Appended(l, r, qkv)
      reads == params[r].read
  IN  [x |-> x, cache |-> after,
       partial |-> AttentionOf(config, w, l, qkv,
                     [i \in DOMAIN reads |-> [p \in DOMAIN reads[i] |-> after[reads[i][p]]]])]

AttentionBlock(r) ==
  /\ CanCompute(r) /\ at[r] \in 1..(2 * NumLayers - 1) /\ ~IsAttention(at[r])
  /\ Advance(r)
  /\ \E out \in {AttentionForward(r, LayerOf(at[r] + 1))} :
       /\ hidden' = [hidden EXCEPT ![r] = out.x]
       /\ cache' = [cache EXCEPT ![r][LayerOf(at[r] + 1)] = out.cache]
       /\ Post(r, "all_reduce", out.partial)
  /\ UNCHANGED <<config, stage, made, request, params, answer, tokens, filled, misplaced, engine>>

MLPBlock(r) ==
  /\ CanCompute(r) /\ at[r] \in 1..(2 * NumLayers) /\ IsAttention(at[r])
  /\ Advance(r)
  /\ \E x \in {Hidden1(r)} :
       /\ hidden' = [hidden EXCEPT ![r] = x]
       /\ Post(r, "all_reduce", MLPOf(config, Params[config][r], LayerOf(at[r]), x))
  /\ UNCHANGED <<config, stage, made, request, params, cache, answer, tokens, filled, misplaced, engine>>

\* Mutant: only the first rank takes part in the gather.
LmHead_first(r) ==
  /\ CanCompute(r) /\ at[r] = 2 * NumLayers + 1
  /\ Advance(r)
  /\ \E x \in {Hidden1(r)} :
       /\ hidden' = [hidden EXCEPT ![r] = x]
       /\ IF r = 0 THEN Post(r, "all_gather", LogitsOf(config, Params[config][r], x, params[r].outputs))
                   ELSE UNCHANGED sent
  /\ UNCHANGED <<config, stage, made, request, params, cache, answer, tokens, filled, misplaced, engine>>

LmHead(r) ==
  /\ CanCompute(r) /\ at[r] = 2 * NumLayers + 1
  /\ Advance(r)
  /\ \E x \in {Hidden1(r)} :
       /\ hidden' = [hidden EXCEPT ![r] = x]
       /\ Post(r, "all_gather", LogitsOf(config, Params[config][r], x, params[r].outputs))
  /\ UNCHANGED <<config, stage, made, request, params, cache, answer, tokens, filled, misplaced, engine>>

\* Mutant: only a copy of the inputs was sorted.
Answer_request_order(r) ==
  /\ CanCompute(r) /\ at[r] = NumCollectives
  /\ Advance(r)
  /\ \E logits \in {Result(r)} :
       answer' = [answer EXCEPT ![r] = Outputs(request, [i \in DOMAIN logits |-> Sample(logits[i])])]
  /\ UNCHANGED <<config, stage, made, request, sent, params, hidden, cache, tokens, filled, misplaced, engine>>

\* Sample from the gathered logits and answer the request.
Answer(r) ==
  /\ CanCompute(r) /\ at[r] = NumCollectives
  /\ Advance(r)
  /\ \E logits \in {Result(r)} :
       answer' = [answer EXCEPT ![r] = Outputs(Batch, [i \in DOMAIN logits |-> Sample(logits[i])])]
  /\ UNCHANGED <<config, stage, made, request, sent, params, hidden, cache, tokens, filled, misplaced, engine>>

(***************************************************************************)
(* run_workers_gather has all answers; extract_if_all_equal panics if they *)
(* differ.  The scheduler then counts the chunk as filled and appends the  *)
(* output of a sequence whose tokens were all filled.                      *)
(***************************************************************************)
Received(s) == \E i \in DOMAIN request : request[i].seq = s
InputFor(s) == request[CHOOSE i \in DOMAIN request : request[i].seq = s]

InferDone ==
  /\ engine = "waiting"
  /\ \A r \in Ranks : at[r] = NumCollectives + 1
  /\ IF \A r, q \in Ranks : answer[r] = answer[q]
     THEN /\ engine' = "idle"
          /\ filled' = [s \in Seqs |-> IF Received(s) THEN InputFor(s).context ELSE filled[s]]
          /\ tokens' = [s \in Seqs |-> IF Received(s) /\ InputFor(s).context = Len(tokens[s])
                                       THEN Append(tokens[s], answer[0][s]) ELSE tokens[s]]
     ELSE engine' = "panicked" /\ UNCHANGED <<filled, tokens>>
  /\ request' = <<>>
  /\ at' = [r \in Ranks |-> 0]
  /\ sent' = [r \in Ranks |-> <<>>]
  /\ params' = [r \in Ranks |-> NoParams]
  /\ hidden' = [r \in Ranks |-> <<>>]
  /\ answer' = [r \in Ranks |-> NoAnswer]
  /\ UNCHANGED <<config, stage, made, cache, misplaced>>

-----------------------------------------------------------------------------
RankStep(r) ==
  \/ NewGroup(r) \/ GroupsMade(r) \/ Load(r)
  \/ Embed(r) \/ AttentionBlock(r) \/ MLPBlock(r) \/ LmHead(r) \/ Answer(r)

Next == StartInfer \/ InferDone \/ \E r \in Ranks : RankStep(r)

(***************************************************************************)
(* A rank's process goes on whenever it is not blocked, and the engine     *)
(* handles the answers it awaits.  Whether requests come is not assumed.   *)
(* Moves(r) is what a step of r does to the variables that say where r is: *)
(* RankStep(r) steps are the Moves(r) steps.                               *)
(***************************************************************************)
Moves(r) ==
  \/ NewGroup(r) \/ GroupsMade(r) \/ Load(r)
  \/ CanCompute(r) /\ Advance(r) /\ UNCHANGED <<stage, made>>

Fairness == WF_vars(InferDone) /\ \A r \in Ranks : WF_<<stage, made, at>>(Moves(r))

Spec == Init /\ [][Next]_vars /\ Fairness

-----------------------------------------------------------------------------
(***************************************************************************)
(* Properties                                                              *)
(***************************************************************************)
\* Sharded weights, head-wise caches, batches sorted by length, chunked
\* prefill and paged attention together generate exactly what the whole
\* model generates for each sequence alone.  The exception are sequences that
\* were computed in a chunk ending on a page boundary, from there on; they do
\* not disturb the others.
Serving == INSTANCE Generation
             WITH Seqs <- Seqs, Configs <- Configs, NextToken <- RefNext,
                  config <- config, tokens <- tokens, spoilt <- misplaced
Implements == Serving!Spec

\* No two ranks are ever in the same new_group call with different ranks, or
\* in the same collective of a request with a different operation or shape
\* (either would hang the group or corrupt the result).
CollectivesMatch ==
  \A r, q \in Ranks :
    /\ \A n \in 1..made[r] : n <= made[q] => NewGroupCalls[r][n] = NewGroupCalls[q][n]
    /\ \A n \in DOMAIN sent[r] \cap DOMAIN sent[q] : Shape(sent[r][n]) = Shape(sent[q][n])

\* Between requests every rank's cache holds, for every filled position of a
\* sequence, its own heads of the key and the value the whole model computes
\* there, whatever chunks it was computed in: the sequences with a chunk that
\* ended on a page boundary are the only exception.
KvExact ==
  engine = "idle" =>
    \A s \in Seqs \ misplaced : \A l \in Layers :
      LET kv == RefKV(config, SubSeq(tokens[s], 1, filled[s]), l) IN
      \A p \in 1..filled[s] : \A r \in Ranks :
        cache[r][l][SlotAt([blocks |-> Table[s]], p - 1)]
          = [k |-> Slice(kv[p].k, ModelParallelRank[r]),
             v |-> Slice(kv[p].v, ModelParallelRank[r])]

\* If the checkpoint loads, all ranks come to serve, and every Infer request
\* is answered by ranks that agree: no rank waits in a collective for ever.
InferEnds ==
  /\ Loads(config) ~> \A r \in Ranks : stage[r] = "serving"
  /\ (engine = "waiting") ~> (engine = "idle")
=============================================================================
