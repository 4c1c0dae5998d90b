--------------------------- MODULE ParallelLayers ---------------------------
(***************************************************************************)
(* The tensor-parallel layers (models/parallel) and the loading of their   *)
(* shards (models/utils.py).  A number is an integer modulo Modulus, a     *)
(* vector a sequence of numbers, a matrix a sequence of rows; a tensor of  *)
(* hidden states is a sequence of vectors, one per row of the batch.       *)
(*                                                                         *)
(* A layer is declared by [kind, shape, bias] with the shape of its whole  *)
(* weight; the parameters a rank holds are a record [weight] or [weight,   *)
(* bias].  rank and the partition sizes are those of the model group.      *)
(***************************************************************************)
EXTENDS Integers, Sequences, SequencesExt

CONSTANTS
  Tp,       \* get_model_parallel_world_size()
  Modulus   \* the arithmetic stands for that of the tensors

ASSUME ArithmeticAssumption == Tp \in Nat \ {0} /\ Modulus \in Nat \ {0}

\* A tensor is written out as a tuple: TLC then computes each entry once.
Tuple(f) == <<>> \o f

SumOf(u) ==
  LET sum[i \in 0..Len(u)] == IF i = 0 THEN 0 ELSE sum[i - 1] + u[i] IN sum[Len(u)] % Modulus
Add(u, v)   == Tuple([i \in DOMAIN u |-> (u[i] + v[i]) % Modulus])
Times(u, v) == Tuple([i \in DOMAIN u |-> (u[i] * v[i]) % Modulus])
Zero(n)     == Tuple([i \in 1..n |-> 0])

\* F.linear(x, weight, bias): x A^T + b.
MatVec(weight, x) == Tuple([i \in DOMAIN weight |-> SumOf(Times(weight[i], x))])
Linear(layer, x) ==
  IF "bias" \in DOMAIN layer THEN Add(MatVec(layer.weight, x), layer.bias)
                             ELSE MatVec(layer.weight, x)

-----------------------------------------------------------------------------
(***************************************************************************)
(* Declarations, as the constructors of the layers make them.              *)
(***************************************************************************)
Embedding(num, dim)     == [kind |-> "VocabParallelEmbedding", shape |-> <<num, dim>>, bias |-> FALSE]
Column(out, in, bias)   == [kind |-> "ColumnParallelLinear", shape |-> <<out, in>>, bias |-> bias]
Row(out, in, bias)      == [kind |-> "RowParallelLinear", shape |-> <<out, in>>, bias |-> bias]
Replicated(shape, bias) == [kind |-> "replicated", shape |-> shape, bias |-> bias]

\* divide_and_check_no_remainder, called by all three constructors.
Divisible(layer) ==
  /\ layer.kind \in {"VocabParallelEmbedding", "ColumnParallelLinear"} => layer.shape[1] % Tp = 0
  /\ layer.kind = "RowParallelLinear" => layer.shape[2] % Tp = 0

PartitionSize(n) == n \div Tp

\* s[rank * shard_size : (rank + 1) * shard_size]
Slice(s, rank) ==
  LET size == PartitionSize(Len(s)) IN SubSeq(s, rank * size + 1, (rank + 1) * size)

\* load_weights on a weight: by rows, by columns or whole.
ShardOf(kind, weight, rank) ==
  CASE kind \in {"VocabParallelEmbedding", "ColumnParallelLinear"} -> Slice(weight, rank)
    [] kind = "RowParallelLinear" -> Tuple([i \in DOMAIN weight |-> Slice(weight[i], rank)])
    [] OTHER -> weight

(***************************************************************************)
(* load_weights on a bias: the bias of a row-parallel layer is indexed     *)
(* like a matrix although it has one dimension, which raises an error.     *)
(***************************************************************************)
BiasLoads(layer) == ~(layer.kind = "RowParallelLinear" /\ layer.bias)

BiasShard(kind, bias, rank) == IF kind = "ColumnParallelLinear" THEN Slice(bias, rank) ELSE bias

\* The parameters of one layer on a rank.
LoadLayer(layer, full, rank) ==
  IF "bias" \in DOMAIN full
  THEN [weight |-> ShardOf(layer.kind, full.weight, rank), bias |-> BiasShard(layer.kind, full.bias, rank)]
  ELSE [weight |-> ShardOf(layer.kind, full.weight, rank)]

-----------------------------------------------------------------------------
(***************************************************************************)
(* The forward passes, up to the collective and after it.                  *)
(***************************************************************************)
\* VocabUtility: the rank's part of the vocabulary is [first, last).
VocabRange(num, rank) ==
  LET size == PartitionSize(num) IN [first |-> rank * size, last |-> rank * size + size]

OutsideVocab(id, range) == id < range.first \/ id >= range.last

\* VocabParallelEmbedding: a zero row for a token of another rank.
EmbeddingPartial(layer, num, rank, id) ==
  LET range == VocabRange(num, rank)
  IN  IF OutsideVocab(id, range) THEN Zero(Len(layer.weight[1]))
                                 ELSE layer.weight[id - range.first + 1]

\* RowParallelLinear: the product before the reduction has no bias.
RowPartial(layer, x) == MatVec(layer.weight, x)
RowOutput(layer, reduced) == IF "bias" \in DOMAIN layer THEN Add(reduced, layer.bias) ELSE reduced

\* _reduce and _gather: parts is a sequence of tensors in rank order.
AllReduce(parts) ==
  Tuple([n \in DOMAIN parts[1] |->
    Tuple([i \in DOMAIN parts[1][n] |-> SumOf([r \in DOMAIN parts |-> parts[r][n][i]])])])

AllGather(parts) ==
  Tuple([n \in DOMAIN parts[1] |-> FlattenSeq([r \in DOMAIN parts |-> parts[r][n]])])
=============================================================================
