--------------------------- MODULE ProcessGroups ---------------------------
(***************************************************************************)
(* initialize_model_parallel: the process groups of a world of ranks, as   *)
(* the sequence of torch.distributed.new_group calls every rank makes.     *)
(* new_group is collective over the whole world, so the ranks must make    *)
(* the same calls in the same order, also for groups they are not in.      *)
(*                                                                         *)
(* Ranks and mesh coordinates count from 0, as in the code.                *)
(***************************************************************************)
EXTENDS Integers, Sequences, SequencesExt

CONSTANTS
  World,              \* WORLD_SIZE of the launch
  ModelParallelSize,  \* init_distributed passes the world size
  PipelineLength, ContextParallelSize   \* left at their default 1

Ranks == 0..(World - 1)

\* The shape <<data, pipeline, context, model>> of the mesh of ranks.
MeshShape ==
  LET mp == IF ModelParallelSize < World THEN ModelParallelSize ELSE World
      rest == PipelineLength * ContextParallelSize * mp
  IN  <<World \div rest, PipelineLength, ContextParallelSize, mp>>

\* The assertions of ensure_divisibility.
ASSUME MeshAssumption == MeshShape[1] * MeshShape[2] * MeshShape[3] * MeshShape[4] = World

Mesh == {f \in [1..4 -> Ranks] : \A axis \in 1..4 : f[axis] < MeshShape[axis]}

\* torch.LongTensor(range(world_size)).reshape(MeshShape)
RankAt(f) == ((f[1] * MeshShape[2] + f[2]) * MeshShape[3] + f[3]) * MeshShape[4] + f[4]

\* torch.where(groups == rank)
Found(r) == CHOOSE f \in Mesh : RankAt(f) = r

(***************************************************************************)
(* The groups along one axis of the mesh: one for all values of the other  *)
(* three coordinates, the last of them running fastest.                    *)
(***************************************************************************)
GroupsAlong(kind, axis) ==
  LET first == SetToSortSeq({f \in Mesh : f[axis] = 0}, LAMBDA f, g : RankAt(f) < RankAt(g))
  IN  [n \in DOMAIN first |->
        [kind  |-> kind,
         ranks |-> [x \in 1..MeshShape[axis] |-> RankAt([first[n] EXCEPT ![axis] = x - 1])]]]

DataGroups     == GroupsAlong("data", 1)
ModelGroups    == GroupsAlong("model", 4)
PipelineGroups == GroupsAlong("pipeline", 2)
ContextGroups  == GroupsAlong("context", 3)

\* Mutant: a rank creates only the groups it is a member of.
NewGroupCalls_own ==
  [r \in Ranks |-> SelectSeq(DataGroups \o ModelGroups \o PipelineGroups \o ContextGroups,
                             LAMBDA g : r \in ToSet(g.ranks))]

\* The new_group calls of each rank, in the order of the code's four loops.
NewGroupCalls == [r \in Ranks |-> DataGroups \o ModelGroups \o PipelineGroups \o ContextGroups]

\* _MODEL_PARALLEL_GROUP of each rank: the one with the rank's other coordinates.
ModelGroup ==
  [r \in Ranks |-> CHOOSE g \in ToSet(ModelGroups) : g.ranks[1] = RankAt([Found(r) EXCEPT ![4] = 0])]

\* get_model_parallel_rank
ModelParallelRank ==
  [r \in Ranks |-> (CHOOSE n \in DOMAIN ModelGroup[r].ranks : ModelGroup[r].ranks[n] = r) - 1]
=============================================================================
