---------------------------- MODULE ModelFamilies ----------------------------
(***************************************************************************)
(* The three model families get_model can build (Llama, Qwen2, OPT): the   *)
(* layers each declares, what each computes between two collectives, and   *)
(* the parameters a rank loads.  A forward pass is cut at its collectives: *)
(*                                                                         *)
(*   1              the all-reduce of the token embedding                  *)
(*   2l, 2l + 1     the all-reduces of attention and MLP of layer l        *)
(*   2L + 2         the all-gather of lm_head                              *)
(*                                                                         *)
(* A config c is a record [type, tied, bias, before, remove, embed]: the   *)
(* fields of the checkpoint's configuration that change the computation.   *)
(* Normalisation, activation, rotation and the attention kernel are        *)
(* parameters: nothing here depends on what they compute.                  *)
(***************************************************************************)
EXTENDS ParallelLayers

CONSTANTS
  Configs,             \* the model configurations considered
  Vocab, Hidden, Heads, KvHeads, Ffn, NumLayers, MaxPositions,
  Value(_, _, _, _),   \* the checkpoint: layer, name, indices -> number
  Norm(_, _), Act(_), Rotate(_, _), Attend(_, _, _)

HeadDim == Hidden \div Heads

\* The assertions of the attention constructors and of ModelConfig.
ASSUME HeadsAssumption ==
  Hidden % Heads = 0 /\ Heads % KvHeads = 0 /\ Heads % Tp = 0 /\ KvHeads % Tp = 0

Layers == 1..NumLayers
NumCollectives == 2 * NumLayers + 2

-----------------------------------------------------------------------------
(***************************************************************************)
(* Attention.  A row is cut into heads; rotation and attention work on one *)
(* head, and Heads / KvHeads query heads share a key/value head.           *)
(***************************************************************************)
HeadOf(x, h) == SubSeq(x, h * HeadDim + 1, (h + 1) * HeadDim)
NumHeadsIn(x) == Len(x) \div HeadDim

RotaryEmbedding(x, position) ==
  FlattenSeq([h \in 1..NumHeadsIn(x) |-> Rotate(HeadOf(x, h - 1), position)])

KvHeadFor(h, x, key) == h \div (NumHeadsIn(x) \div NumHeadsIn(key))

\* The attention of one query row over a sequence of cached [k, v].
Attention(q, cached) ==
  FlattenSeq([h \in 1..NumHeadsIn(q) |->
    LET head == KvHeadFor(h - 1, q, cached[1].k)
    IN  Attend(HeadOf(q, h - 1), [p \in DOMAIN cached |-> HeadOf(cached[p].k, head)],
                                 [p \in DOMAIN cached |-> HeadOf(cached[p].v, head)])])

-----------------------------------------------------------------------------
(***************************************************************************)
(* Llama                                                                   *)
(***************************************************************************)
LlamaAttentionLayers ==
  [q_proj |-> Column(Heads * HeadDim, Hidden, FALSE),
   k_proj |-> Column(KvHeads * HeadDim, Hidden, FALSE),
   v_proj |-> Column(KvHeads * HeadDim, Hidden, FALSE),
   o_proj |-> Row(Hidden, Hidden, FALSE)]

LlamaAttention(w, x, position) ==
  [q |-> RotaryEmbedding(Linear(w.q_proj, x), position),
   k |-> RotaryEmbedding(Linear(w.k_proj, x), position),
   v |-> Linear(w.v_proj, x)]

LlamaMLPLayers ==
  [gate_proj |-> Column(Ffn, Hidden, FALSE), up_proj |-> Column(Ffn, Hidden, FALSE),
   down_proj |-> Row(Hidden, Ffn, FALSE)]

LlamaMLP(w, x) ==
  RowPartial(w.down_proj, Times(Act(Linear(w.gate_proj, x)), Linear(w.up_proj, x)))

LlamaDecoderLayers ==
  LlamaAttentionLayers @@ LlamaMLPLayers @@
  [input_layernorm |-> Replicated(<<Hidden>>, FALSE),
   post_attention_layernorm |-> Replicated(<<Hidden>>, FALSE)]

\* x is the residual stream, y the reduced output of the block just run.
LlamaDecoderLayer(c, w, at, x, y) ==
  CASE at = "attn_in"  -> Norm(w.input_layernorm, x)
    [] at = "attn_out" -> Add(x, RowOutput(w.o_proj, y))
    [] at = "mlp_in"   -> Norm(w.post_attention_layernorm, x)
    [] at = "mlp_out"  -> Add(x, RowOutput(w.down_proj, y))

LlamaModelLayers ==
  [embed_tokens |-> Embedding(Vocab, Hidden), norm |-> Replicated(<<Hidden>>, FALSE)]

LlamaForCausalLMLayers == LlamaModelLayers @@ [lm_head |-> Column(Vocab, Hidden, FALSE)]

-----------------------------------------------------------------------------
(***************************************************************************)
(* Qwen2: Llama with biases on the query, key and value projections.       *)
(***************************************************************************)
Qwen2AttentionLayers ==
  [q_proj |-> Column(Heads * HeadDim, Hidden, TRUE),
   k_proj |-> Column(KvHeads * HeadDim, Hidden, TRUE),
   v_proj |-> Column(KvHeads * HeadDim, Hidden, TRUE),
   o_proj |-> Row(Hidden, Hidden, FALSE)]

Qwen2Attention(w, x, position) ==
  [q |-> RotaryEmbedding(Linear(w.q_proj, x), position),
   k |-> RotaryEmbedding(Linear(w.k_proj, x), position),
   v |-> Linear(w.v_proj, x)]

Qwen2MLPLayers ==
  [gate_proj |-> Column(Ffn, Hidden, FALSE), up_proj |-> Column(Ffn, Hidden, FALSE),
   down_proj |-> Row(Hidden, Ffn, FALSE)]

Qwen2MLP(w, x) ==
  RowPartial(w.down_proj, Times(Act(Linear(w.gate_proj, x)), Linear(w.up_proj, x)))

Qwen2DecoderLayers ==
  Qwen2AttentionLayers @@ Qwen2MLPLayers @@
  [input_layernorm |-> Replicated(<<Hidden>>, FALSE),
   post_attention_layernorm |-> Replicated(<<Hidden>>, FALSE)]

Qwen2DecoderLayer(c, w, at, x, y) ==
  CASE at = "attn_in"  -> Norm(w.input_layernorm, x)
    [] at = "attn_out" -> Add(x, RowOutput(w.o_proj, y))
    [] at = "mlp_in"   -> Norm(w.post_attention_layernorm, x)
    [] at = "mlp_out"  -> Add(x, RowOutput(w.down_proj, y))

Qwen2ModelLayers ==
  [embed_tokens |-> Embedding(Vocab, Hidden), norm |-> Replicated(<<Hidden>>, FALSE)]

Qwen2ForCausalLMLayers == Qwen2ModelLayers @@ [lm_head |-> Column(Vocab, Hidden, FALSE)]

-----------------------------------------------------------------------------
(***************************************************************************)
(* OPT: learned positions, as many key/value heads as query heads, layer   *)
(* norm before or after the blocks, embeddings of another width projected  *)
(* in and out.                                                             *)
(***************************************************************************)
OPTAttentionLayers(c) ==
  [q_proj |-> Column(Hidden, Hidden, c.bias), k_proj |-> Column(Hidden, Hidden, c.bias),
   v_proj |-> Column(Hidden, Hidden, c.bias), out_proj |-> Row(Hidden, Hidden, c.bias)]

OPTAttention(w, x, position) ==
  [q |-> Linear(w.q_proj, x), k |-> Linear(w.k_proj, x), v |-> Linear(w.v_proj, x)]

OPTDecoderLayers(c) ==
  OPTAttentionLayers(c) @@
  [self_attn_layer_norm |-> Replicated(<<Hidden>>, TRUE),
   fc1 |-> Column(Ffn, Hidden, c.bias), fc2 |-> Row(Hidden, Ffn, c.bias),
   final_layer_norm |-> Replicated(<<Hidden>>, TRUE)]

OPTMLP(w, x) == RowPartial(w.fc2, Act(Linear(w.fc1, x)))

OPTDecoderLayer(c, w, at, x, y) ==
  LET before(norm, z) == IF c.before THEN Norm(norm, z) ELSE z
      after(norm, z)  == IF c.before THEN z ELSE Norm(norm, z)
  IN  CASE at = "attn_in"  -> before(w.self_attn_layer_norm, x)
        [] at = "attn_out" -> after(w.self_attn_layer_norm, Add(x, RowOutput(w.out_proj, y)))
        [] at = "mlp_in"   -> before(w.final_layer_norm, x)
        [] at = "mlp_out"  -> after(w.final_layer_norm, Add(x, RowOutput(w.fc2, y)))

OPTPositionalOffset == 2

OPTModelLayers(c) ==
  LET projections ==
        [project_out |-> Replicated(<<c.embed, Hidden>>, FALSE),
         project_in  |-> Replicated(<<Hidden, c.embed>>, FALSE)]
      final == [final_layer_norm |-> Replicated(<<Hidden>>, TRUE)]
      always ==
        [embed_tokens |-> Embedding(Vocab, c.embed),
         embed_positions |-> Replicated(<<MaxPositions + OPTPositionalOffset, Hidden>>, FALSE)]
  IN  always @@ (IF c.embed # Hidden THEN projections ELSE <<>>)
             @@ (IF c.before /\ ~c.remove THEN final ELSE <<>>)

\* OPTDecoder.forward before and after the layers.
OPTModelIn(w, x, position) ==
  Add(IF "project_in" \in DOMAIN w THEN Linear(w.project_in, x) ELSE x,
      w.embed_positions.weight[position + OPTPositionalOffset + 1])

OPTModelOut(w, x) ==
  LET z == IF "final_layer_norm" \in DOMAIN w THEN Norm(w.final_layer_norm, x) ELSE x
  IN  IF "project_out" \in DOMAIN w THEN Linear(w.project_out, z) ELSE z

OPTForCausalLMLayers(c) == OPTModelLayers(c) @@ [lm_head |-> Column(Vocab, c.embed, FALSE)]
=============================================================================
