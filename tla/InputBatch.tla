----------------------------- MODULE InputBatch -----------------------------
(***************************************************************************)
(* How ModelWorker._make_inputs lays out one Infer request for the model:  *)
(* which row of the flattened batch belongs to which input, where the      *)
(* attention writes the keys and values of a row and which cached          *)
(* positions a row may read.                                               *)
(*                                                                         *)
(* An input is a record [seq, ids, filled, context, blocks]: the InferInput*)
(* message, with input_len = Len(ids).  Positions count from 0, rows and   *)
(* the entries of a sequence from 1; a slot is <<block, offset>>.          *)
(***************************************************************************)
EXTENDS Integers, Sequences, SequencesExt

CONSTANT Page   \* block_size, the page size of the paged KV cache

ASSUME PageAssumption == Page \in Nat \ {0}

InputLen(d) == Len(d.ids)

(***************************************************************************)
(* inputs.sort(key=lambda x: -x.input_len): stable, longest first.         *)
(***************************************************************************)
SortedInputs(inputs) ==
  LET before(i, j) == \/ InputLen(inputs[i]) > InputLen(inputs[j])
                      \/ InputLen(inputs[i]) = InputLen(inputs[j]) /\ i < j
      order == SetToSortSeq(DOMAIN inputs, before)
  IN  [i \in DOMAIN inputs |-> inputs[order[i]]]

\* The two lists _make_inputs splits a sorted batch into.
Prefills(batch) == SelectSeq(batch, LAMBDA d : InputLen(d) > 1)
Decodes(batch)  == SelectSeq(batch, LAMBDA d : InputLen(d) = 1)

(***************************************************************************)
(* The rows of the flattened batch: row n is the token at an offset        *)
(* (from 0) of an input.  The cumulative sums over the input lengths say   *)
(* nothing else.                                                           *)
(***************************************************************************)
Rows(batch) ==
  FlattenSeq([i \in DOMAIN batch |->
               [o \in 1..InputLen(batch[i]) |-> [input |-> batch[i], offset |-> o - 1]]])

\* Mutant: the last block counts as full.
LastBlockLen_full(d) == Page

LastBlockLen(d) == ((d.context - 1) % Page) + 1

\* flashinfer.get_seq_lens: the length as the pages of an input give it.
SeqLen(d) == (Len(d.blocks) - 1) * Page + LastBlockLen(d)

\* flashinfer.get_batch_indices_positions: the appended tokens end the sequence.
PositionOf(row) == SeqLen(row.input) - InputLen(row.input) + row.offset

SlotAt(d, position) == <<d.blocks[(position \div Page) + 1], position % Page>>

(***************************************************************************)
(* The slots a row's query reads: up to its own position in a prefill      *)
(* (causal), the whole sequence in a decode, where the query is the last   *)
(* token.  The prefill wrapper gets the first prefill_input_len rows and   *)
(* the decode wrapper the rest, each with its own list of inputs.          *)
(***************************************************************************)
VisibleSlots(row) == [p \in 1..(PositionOf(row) + 1) |-> SlotAt(row.input, p - 1)]

ReadSlots(batch) ==
  LET rows == Rows(Prefills(batch)) \o Rows(Decodes(batch))
  IN  [n \in DOMAIN rows |-> VisibleSlots(rows[n])]

(***************************************************************************)
(* The InputParams of a batch: for every row its token, its position_id    *)
(* and the slot append_paged_kv_cache writes; the slots its query reads;   *)
(* and the rows whose logits are wanted, cu_seqlens_q[1:] - 1.             *)
(***************************************************************************)
MakeInputs(batch) ==
  LET rows == Rows(batch)
  IN  [ids       |-> [n \in DOMAIN rows |-> rows[n].input.ids[rows[n].offset + 1]],
       positions |-> [n \in DOMAIN rows |-> rows[n].input.filled + rows[n].offset],
       append    |-> [n \in DOMAIN rows |-> SlotAt(rows[n].input, PositionOf(rows[n]))],
       read      |-> ReadSlots(batch),
       outputs   |-> SelectSeq([n \in DOMAIN rows |-> n],
                               LAMBDA n : rows[n].offset = InputLen(rows[n].input) - 1)]

\* execute: outputs[data.seq_id] = next_token_ids[i] for the i-th sorted input.
Outputs(batch, nextIds) ==
  [s \in {batch[i].seq : i \in DOMAIN batch} |->
     nextIds[CHOOSE i \in DOMAIN batch : batch[i].seq = s]]
=============================================================================
