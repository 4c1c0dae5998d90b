-------------------------- MODULE MCTensorParallel --------------------------
(***************************************************************************)
(* Two ranks, two decoder layers, four query heads on two key/value heads  *)
(* of width one, and arithmetic modulo 13.  The functions are arbitrary    *)
(* but not linear, and no two tensors of the checkpoint look alike.        *)
(***************************************************************************)
EXTENDS TensorParallel

CONSTANTS s1, s2

MCNames == <<"embed_tokens", "lm_head", "norm", "q_proj", "k_proj", "v_proj", "o_proj", "out_proj",
             "gate_proj", "up_proj", "down_proj", "fc1", "fc2", "input_layernorm",
             "post_attention_layernorm", "self_attn_layer_norm", "final_layer_norm",
             "embed_positions", "project_in", "project_out">>

MCValue(l, name, i, j) ==
  LET n == CHOOSE k \in DOMAIN MCNames : MCNames[k] = name
  IN  (1 + n * n + 3 * i + 5 * i * j * j + 2 * l * (i + j) + n * i * i) % Modulus

MCNorm(layer, x) ==
  Tuple([i \in DOMAIN x |-> (layer.weight[i] * x[i] * x[i] + SumOf(x)
                              + IF "bias" \in DOMAIN layer THEN layer.bias[i] ELSE 1) % Modulus])
MCAct(x) == Tuple([i \in DOMAIN x |-> (x[i] * x[i] + 2 * x[i] + 3) % Modulus])
MCRotate(x, p) == Tuple([i \in DOMAIN x |-> ((p + 1) * x[i] + p * i) % Modulus])
MCAttend(q, ks, vs) ==
  LET score(p) == SumOf(Times(q, ks[p])) + 1
  IN  Tuple([i \in DOMAIN q |-> SumOf([p \in DOMAIN ks |-> score(p) * vs[p][i]])])

MCConfig(type, tied, bias, before, embed) ==
  [type |-> type, tied |-> tied, bias |-> bias, before |-> before, remove |-> FALSE, embed |-> embed]
MCConfigs == {MCConfig("llama", TRUE, FALSE, TRUE, Hidden), MCConfig("llama", FALSE, FALSE, TRUE, Hidden),
              MCConfig("qwen2", FALSE, FALSE, TRUE, Hidden),
              MCConfig("opt", TRUE, FALSE, TRUE, Hidden), MCConfig("opt", TRUE, FALSE, FALSE, 2),
              MCConfig("opt", TRUE, TRUE, TRUE, Hidden)}

MCTable == (s1 :> <<3, 1, 5>>) @@ (s2 :> <<2, 6, 4>>)
MCPrompts == {(s1 :> <<3, 1, 2>>) @@ (s2 :> <<2, 0>>), (s1 :> <<0, 0, 3>>) @@ (s2 :> <<1>>)}
=============================================================================
