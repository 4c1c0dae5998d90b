---------------------------- MODULE ShardedModel ----------------------------
(***************************************************************************)
(* What a rank runs (get_model, load_weights, the forward pass between two *)
(* collectives, sampling) and, as the reference, the same model with whole *)
(* weights, no cache and one sequence at a time.                           *)
(***************************************************************************)
EXTENDS ModelFamilies

DecoderLayers(c) ==
  CASE c.type = "llama" -> LlamaDecoderLayers
    [] c.type = "qwen2" -> Qwen2DecoderLayers
    [] c.type = "opt"   -> OPTDecoderLayers(c)

ModelLayers(c) ==
  CASE c.type = "llama" -> LlamaForCausalLMLayers
    [] c.type = "qwen2" -> Qwen2ForCausalLMLayers
    [] c.type = "opt"   -> OPTForCausalLMLayers(c)

\* All declared layers, those outside the decoder layers under index 0.
Declared(c) == [l \in 0..NumLayers |-> IF l = 0 THEN ModelLayers(c) ELSE DecoderLayers(c)]

DecoderLayer(c, w, at, x, y) ==
  CASE c.type = "llama" -> LlamaDecoderLayer(c, w, at, x, y)
    [] c.type = "qwen2" -> Qwen2DecoderLayer(c, w, at, x, y)
    [] c.type = "opt"   -> OPTDecoderLayer(c, w, at, x, y)

QKV(c, w, x, position) ==
  CASE c.type = "llama" -> LlamaAttention(w, x, position)
    [] c.type = "qwen2" -> Qwen2Attention(w, x, position)
    [] c.type = "opt"   -> OPTAttention(w, x, position)

AttentionPartial(c, w, attended) ==
  RowPartial(IF c.type = "opt" THEN w.out_proj ELSE w.o_proj, attended)

MLPPartial(c, w, x) ==
  CASE c.type = "llama" -> LlamaMLP(w, x)
    [] c.type = "qwen2" -> Qwen2MLP(w, x)
    [] c.type = "opt"   -> OPTMLP(w, x)

ModelIn(c, w, x, position) == IF c.type = "opt" THEN OPTModelIn(w, x, position) ELSE x
ModelOut(c, w, x) == IF c.type = "opt" THEN OPTModelOut(w, x) ELSE Norm(w.norm, x)

-----------------------------------------------------------------------------
(***************************************************************************)
(* The checkpoint and what a rank loads of it.                             *)
(***************************************************************************)
Tensor(l, name, shape) ==
  Tuple([i \in 1..shape[1] |->
    IF Len(shape) = 1 THEN Value(l, name, i, 0)
                      ELSE Tuple([j \in 1..shape[2] |-> Value(l, name, i, j)])])

\* The tensors of hf_weight_iter for one layer.
FullLayer(l, name, layer) ==
  IF layer.bias
  THEN [weight |-> Tensor(l, name, layer.shape), bias |-> Tensor(l + NumLayers + 1, name, <<layer.shape[1]>>)]
  ELSE [weight |-> Tensor(l, name, layer.shape)]

Checkpoint ==
  [c \in Configs |-> [l \in 0..NumLayers |->
    [name \in DOMAIN Declared(c)[l] |-> FullLayer(l, name, Declared(c)[l][name])]]]

\* load_weights of all three families raises no error.
Loads(c) ==
  \A l \in 0..NumLayers : \A name \in DOMAIN Declared(c)[l] :
    Divisible(Declared(c)[l][name]) /\ BiasLoads(Declared(c)[l][name])

\* The end of load_weights: lm_head takes the rank's own rows of the embedding.
Tie(c, params) ==
  IF c.tied \/ c.type = "opt" THEN [params EXCEPT ![0].lm_head = params[0].embed_tokens] ELSE params

LoadedBy(c, rank) ==
  Tie(c, [l \in 0..NumLayers |->
           [name \in DOMAIN Declared(c)[l] |->
             LoadLayer(Declared(c)[l][name], Checkpoint[c][l][name], rank)]])

-----------------------------------------------------------------------------
(***************************************************************************)
(* The forward pass of a rank with parameters w.  x is the tensor of       *)
(* hidden states, one row per token of the batch.                          *)
(***************************************************************************)
LayerOf(n) == n \div 2
IsAttention(n) == n % 2 = 0

\* The hidden states once collective n has given y.
AfterCollective(c, w, n, x, y, positions) ==
  IF n = 1
  THEN Tuple([i \in DOMAIN y |-> ModelIn(c, w[0], y[i], positions[i])])
  ELSE Tuple([i \in DOMAIN x |->
         DecoderLayer(c, w[LayerOf(n)], IF IsAttention(n) THEN "attn_out" ELSE "mlp_out", x[i], y[i])])

\* The query, key and value rows of a layer.
LayerQKV(c, w, l, x, positions) ==
  Tuple([i \in DOMAIN x |->
    QKV(c, w[l], DecoderLayer(c, w[l], "attn_in", x[i], x[i]), positions[i])])

\* What a rank contributes to the two reductions of a layer.
AttentionOf(c, w, l, queries, cached) ==
  Tuple([i \in DOMAIN queries |-> AttentionPartial(c, w[l], Attention(queries[i].q, cached[i]))])

MLPOf(c, w, l, x) ==
  Tuple([i \in DOMAIN x |-> MLPPartial(c, w[l], DecoderLayer(c, w[l], "mlp_in", x[i], x[i]))])

\* The rank's part of the logits of the selected rows.
LogitsOf(c, w, x, rows) ==
  Tuple([i \in DOMAIN rows |-> Linear(w[0].lm_head, ModelOut(c, w[0], x[rows[i]]))])

\* sample with its initial parameters: torch.max takes the most likely token.
Sample(logits) ==
  (CHOOSE i \in DOMAIN logits :
     /\ \A j \in DOMAIN logits : logits[j] <= logits[i]
     /\ \A j \in 1..(i - 1) : logits[j] < logits[i]) - 1

-----------------------------------------------------------------------------
(***************************************************************************)
(* The reference: the whole model on the whole sequence ids.               *)
(***************************************************************************)
RefParams ==
  [c \in Configs |->
    IF c.tied THEN [Checkpoint[c] EXCEPT ![0].lm_head = Checkpoint[c][0].embed_tokens] ELSE Checkpoint[c]]

RefLayer(c, w, l, x, positions) ==
  LET qkv == LayerQKV(c, w, l, x, positions)
      mid == AfterCollective(c, w, 2 * l, x,
               AttentionOf(c, w, l, qkv, [i \in DOMAIN qkv |-> SubSeq(qkv, 1, i)]), positions)
  IN  AfterCollective(c, w, 2 * l + 1, mid, MLPOf(c, w, l, mid), positions)

\* The hidden states before layer l + 1.
RefHidden(c, ids, l) ==
  LET w         == RefParams[c]
      positions == [i \in DOMAIN ids |-> i - 1]
      embedded  == [i \in DOMAIN ids |-> w[0].embed_tokens.weight[ids[i] + 1]]
      h[k \in 0..NumLayers] ==
        IF k = 0 THEN AfterCollective(c, w, 1, <<>>, embedded, positions)
                 ELSE RefLayer(c, w, k, h[k - 1], positions)
  IN  h[l]

RefKV(c, ids, l) == LayerQKV(c, RefParams[c], l, RefHidden(c, ids, l - 1), [i \in DOMAIN ids |-> i - 1])

RefNext(c, ids) ==
  Sample(LogitsOf(c, RefParams[c], RefHidden(c, ids, NumLayers), <<Len(ids)>>)[1])
=============================================================================
