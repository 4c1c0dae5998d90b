----------------------------- MODULE KvTransfer -----------------------------
(***************************************************************************)
(* The hand-over of a request from a prefill node to a decode node: the    *)
(* router's forward (reserve, transfer_kv, trigger), the engine's          *)
(* reserve_request, push_kv and trigger_request on the host block managers *)
(* of the two nodes, and the KV workers, one for each tensor-parallel      *)
(* rank, that write the blocks into the other node's memory.  The          *)
(* scheduler (module Scheduler) is reduced to what it does to the host     *)
(* blocks of a task: prefix hits when it arrives, blocks when it is        *)
(* admitted, written through and freed when it ends, in order of admission.*)
(* A request fails when a call of forward does: nobody takes back what the *)
(* nodes have set aside for it.                                            *)
(*                                                                         *)
(* kv and doubt are history: the KV each block holds on each rank, and the *)
(* blocks whose label says more than is known to have arrived.             *)
(***************************************************************************)
EXTENDS BlockOps

CONSTANTS
    Ranks,                      \* the tensor-parallel ranks of either node
    NumPrefill, NumDecode,      \* host blocks of the two nodes
    PromptLen,                  \* PromptLen[s]: tokens of the prompt of s
    MaxInFlight,                \* bound on the requests in flight
    Flaky                       \* bound: the requests a call may fail for

ASSUME KvTransferAssumption ==
    /\ IsFiniteSet(Ranks) /\ Ranks # {}
    /\ NumPrefill \in Nat /\ NumDecode \in Nat
    /\ PromptLen \in [Seqs -> 1..(MaxLen - 1)]
    /\ MaxInFlight \in Nat /\ Flaky \subseteq Seqs
    /\ Regions = Seqs

VARIABLES
    m,          \* the host block manager of each node
    kv,         \* history: kv[n][r][b], the label of what block b holds
    doubt,      \* history: blocks labelled with KV that may not be there
    misled,     \* history: tasks that fetched such a block
    suspect,    \* history: blocks sent while in doubt, by their index
    phase,      \* where each request is on its way
    running,    \* the admitted tasks of each node, oldest first
    local,      \* push_kv: the pinned blocks
    remote,     \* reserve: the blocks the descriptors of a rank stand for
    sent, state,                \* _push_kv of each rank: blocks written, its state
    success     \* success_hashes of each request

transfer == <<local, remote, sent, state, success>>
history == <<misled, suspect>>
vars == <<m, kv, doubt, history, phase, running, transfer>>

Nodes == {"prefill", "decode"}
NumOf == [prefill |-> NumPrefill, decode |-> NumDecode]

\* The tokens of s at either node: the decode node gets the first output, too.
Total(n, s) == IF n = "prefill" THEN PromptLen[s] ELSE PromptLen[s] + 1

Init ==
    /\ m = [n \in Nodes |-> NewManager(NumOf[n])]
    /\ kv = [n \in Nodes |-> [r \in Ranks |-> [b \in 0..(NumOf[n] - 1) |-> NoHash]]]
    /\ doubt = [n \in Nodes |-> {}] /\ misled = [n \in Nodes |-> {}]
    /\ suspect = [s \in Seqs |-> {}]
    /\ phase = [s \in Seqs |-> "New"]
    /\ running = [n \in Nodes |-> <<>>]
    /\ local = [s \in Seqs |-> <<>>] /\ remote = [s \in Seqs |-> <<>>]
    /\ sent = [s \in Seqs |-> [r \in Ranks |-> 0]]
    /\ state = [s \in Seqs |-> [r \in Ranks |-> "none"]]
    /\ success = [s \in Seqs |-> {}]

-----------------------------------------------------------------------------
(* A task on one node *)

Holds(n, b, h) == \A r \in Ranks : kv[n][r][b] = h

\* The full blocks of s after those it was given filled.
Written(n, s) ==
    LET ids == m[n].map[s].ids
        first == m[n].map[s].filled \div BlockSize
    IN  SubSeq(ids, first + 1, Least(Len(ids), Total(n, s) \div BlockSize))

\* The prefix hits of s that hold its KV, or will once the tasks before it
\* have run.
HitsSound(n, s) ==
    \A i \in 1..(m[n].map[s].filled \div BlockSize) :
        \/ Holds(n, m[n].map[s].ids[i], BlockHash[s][i])
        \/ \E t \in Elems(running[n]) : m[n].map[s].ids[i] \in Elems(Written(n, t))

\* Host blocks for a task, if there is room.
try_extend_infer_task(n, s) ==
    IF can_alloc_seq(m[n], s, Total(n, s), 100) THEN alloc_blocks(m[n], s, Total(n, s))
    ELSE m[n]

\* A task is admitted: it fetches its hits and gets blocks for the rest.
Admit(n, s) ==
    /\ misled' = [misled EXCEPT ![n] = IF HitsSound(n, s) THEN @ ELSE @ \union {s}]
    /\ m' = [m EXCEPT ![n] = try_extend_infer_task(n, s)]
    /\ doubt' = [doubt EXCEPT
                    ![n] = @ \union (Elems(m'[n].map[s].ids) \ Elems(m[n].map[s].ids))]
    /\ running' = [running EXCEPT ![n] = Append(@, s)]
    /\ UNCHANGED <<kv, suspect, transfer>>

\* The oldest task of a node ends: its full blocks have been written through
\* to the host (what is computed on top of wrong KV is wrong), it is freed.
Finish(n, s) ==
    LET new == Written(n, s)
        first == m[n].map[s].filled \div BlockSize
        sound == HitsSound(n, s) /\ s \notin misled[n]
        Content(b) == IF sound THEN BlockHash[s][first + IndexIn(new, b)] ELSE NoHash
    IN  /\ running[n] # <<>> /\ Head(running[n]) = s
        /\ kv' = [kv EXCEPT ![n] =
                     [r \in Ranks |-> [b \in DOMAIN @[r] |->
                         IF b \in Elems(new) THEN Content(b) ELSE @[r][b]]]]
        /\ doubt' = [doubt EXCEPT ![n] = IF sound THEN @ \ Elems(new) ELSE @]
        /\ m' = [m EXCEPT ![n] =
                    free(update_filled_len(@, s, m[n].map[s].filled + BlockSize * Len(new)), s)]
        /\ running' = [running EXCEPT ![n] = Tail(@)]
        /\ misled' = [misled EXCEPT ![n] = @ \ {s}]
        /\ UNCHANGED <<suspect, transfer>>

-----------------------------------------------------------------------------
(* The way of a request: prefill, reserve, transfer, trigger, decode *)

\* A request is Abandoned when forward has returned an error after reserve,
\* Panicked when push_kv has.
Ends == {"Done", "Failed", "Abandoned", "Panicked"}
Over(s) == phase[s] \in {"New"} \union Ends

\* add_request on the prefill node.
AddRequest(s) ==
    /\ phase[s] = "New"
    /\ Cardinality({t \in Seqs : ~Over(t)}) < MaxInFlight
    /\ m' = [m EXCEPT !["prefill"] = init_prefix_cache_blocks(@, s, PromptLen[s])]
    /\ phase' = [phase EXCEPT ![s] = "Queued"]
    /\ UNCHANGED <<kv, doubt, history, running, transfer>>

Prefill(s) ==
    /\ phase[s] = "Queued"
    /\ Admit("prefill", s)
    /\ phase' = [phase EXCEPT ![s] = "Prefilling"]

Prefilled(s) ==
    /\ phase[s] = "Prefilling"
    /\ Finish("prefill", s)
    /\ phase' = [phase EXCEPT ![s] = "Prefilled"]

\* reserve_request on the decode node: blocks are reserved, the task is set
\* aside and each rank describes the memory of the blocks.  alloc_block
\* panics on an empty pool; without a full block there is no region.
ReserveRequest(s) ==
    LET k == Total("decode", s) \div BlockSize
    IN  /\ phase[s] = "Prefilled"
        /\ m' = [m EXCEPT !["decode"] = reserve_blocks(@, s, s, 0, Total("decode", s))]
        /\ remote' = [remote EXCEPT ![s] = m'["decode"].resv[s]]
        /\ doubt' = [doubt EXCEPT !["decode"] = @ \union Elems(Popped(m["decode"], k))]
        /\ phase' = [phase EXCEPT ![s] =
                        CASE Exhausts(m["decode"], k) -> "Failed"
                          [] k = 0 -> "Pushed"
                          [] OTHER -> "Reserved"]
        /\ UNCHANGED <<kv, history, running, local, sent, state, success>>

\* push_kv on the prefill node: the blocks that are still there, up to the
\* first that is not, are pinned; without any there is nothing to push.
PinBlocks(s) ==
    /\ phase[s] = "Reserved"
    /\ LET pinned == pin_blocks_by_hashes(m["prefill"], s, s, 0, Len(remote[s]))
           ids == pinned.resv[s]
       IN  /\ m' = [m EXCEPT !["prefill"] = pinned]
           /\ local' = [local EXCEPT ![s] = ids]
           /\ phase' = [phase EXCEPT ![s] = "Pushing"]
           /\ state' = [state EXCEPT ![s] =
                           [r \in Ranks |-> IF ids = <<>> THEN "DONE" ELSE "PROC"]]
    /\ UNCHANGED <<kv, doubt, history, running, remote, sent, success>>

\* Mutant: the surplus descriptors are removed from the front.
RemoteDescs_front(s) ==
    SubSeq(remote[s], Len(remote[s]) - Len(local[s]) + 1, Len(remote[s]))

\* _push_kv: surplus remote descriptors are removed from the end.
RemoteDescs(s) == SubSeq(remote[s], 1, Len(local[s]))

\* The transfer of rank r writes one more block and is DONE with the last.
PushBlock(s, r) ==
    LET i == sent[s][r] + 1
    IN  /\ phase[s] = "Pushing" /\ state[s][r] = "PROC"
        /\ kv' = [kv EXCEPT !["decode"][r][RemoteDescs(s)[i]] = kv["prefill"][r][local[s][i]]]
        /\ suspect' = [suspect EXCEPT ![s] =
                          IF local[s][i] \in doubt["prefill"] THEN @ \union {i} ELSE @]
        /\ sent' = [sent EXCEPT ![s][r] = i]
        /\ state' = [state EXCEPT ![s][r] = IF i = Len(local[s]) THEN "DONE" ELSE "PROC"]
        /\ UNCHANGED <<m, doubt, misled, phase, running, local, remote, success>>

\* Mutant: an error of the transfer is not looked at while it is polled.
PushFails_polled(s, r) ==
    /\ s \in Flaky
    /\ phase[s] = "Pushing" /\ state[s][r] = "PROC"
    /\ state' = [state EXCEPT ![s][r] = "LOST"]
    /\ UNCHANGED <<m, kv, doubt, history, phase, running, local, remote, sent, success>>

\* No handle, or ERR on posting or polling: push_kv of the rank is False.  Or
\* it raises, or the call of the rank fails: that is an error.
PushFails(s, r) ==
    /\ s \in Flaky
    /\ phase[s] = "Pushing" /\ state[s][r] = "PROC"
    /\ \E e \in {"ERR", "RAISED"} : state' = [state EXCEPT ![s][r] = e]
    /\ UNCHANGED <<m, kv, doubt, history, phase, running, local, remote, sent, success>>

\* What is known to have arrived whole: written by every rank, none of which
\* has read the source while that was in doubt.
Arrived(s) ==
    {remote[s][i] : i \in {j \in 1..Len(local[s]) \ suspect[s] :
                               \A r \in Ranks : sent[s][r] >= j}}

\* join_all of the ranks, then a panic if one of them is an error: push_kv does
\* not come to unpin_blocks, and forward fails.
Joined(s) == \A r \in Ranks : state[s][r] \in {"DONE", "ERR", "RAISED"}

PushPanics(s) ==
    /\ phase[s] = "Pushing" /\ Joined(s) /\ \E r \in Ranks : state[s][r] = "RAISED"
    /\ phase' = [phase EXCEPT ![s] = "Panicked"]
    /\ UNCHANGED <<m, kv, doubt, history, running, transfer>>

\* Mutant: the blocks are unpinned only if all ranks have answered True.
UnpinBlocks_true(s) ==
    /\ phase[s] = "Pushing" /\ \A r \in Ranks : state[s][r] \in {"DONE", "ERR"}
    /\ m' = [m EXCEPT !["prefill"] =
                IF \A r \in Ranks : state[s][r] = "DONE" THEN unpin_blocks(@, s) ELSE @]
    /\ success' = [success EXCEPT ![s] = {BlockHash[s][i] : i \in 1..Len(local[s])}]
    /\ doubt' = [doubt EXCEPT !["decode"] = @ \ Arrived(s)]
    /\ phase' = [phase EXCEPT ![s] = "Pushed"]
    /\ UNCHANGED <<kv, history, running, local, remote, sent, state>>

\* Otherwise unpin_blocks.  The hashes of all pinned blocks are returned,
\* whatever the ranks have answered.
UnpinBlocks(s) ==
    /\ phase[s] = "Pushing" /\ \A r \in Ranks : state[s][r] \in {"DONE", "ERR"}
    /\ m' = [m EXCEPT !["prefill"] = unpin_blocks(@, s)]
    /\ success' = [success EXCEPT ![s] = {BlockHash[s][i] : i \in 1..Len(local[s])}]
    /\ doubt' = [doubt EXCEPT !["decode"] = @ \ Arrived(s)]
    /\ phase' = [phase EXCEPT ![s] = "Pushed"]
    /\ UNCHANGED <<kv, history, running, local, remote, sent, state>>

\* Another call of forward fails: reserve, before the node has done its part or
\* after (get_descriptors included), connect and transfer_kv, trigger before
\* the task is triggered.  (Once it is, the node goes on without the router.)
ForwardFails(s) ==
    /\ s \in Flaky
    /\ phase[s] \in {"Prefilled", "Reserved", "Pushed"}
    /\ phase' = [phase EXCEPT ![s] = IF @ = "Prefilled" THEN "Failed" ELSE "Abandoned"]
    /\ UNCHANGED <<m, kv, doubt, history, running, transfer>>

\* trigger_request: trigger_pend_task.  The locals of forward and of push_kv
\* are gone.
TriggerRequest(s) ==
    /\ phase[s] = "Pushed"
    /\ m' = [m EXCEPT !["decode"] =
                update_prefix_cache_blocks(activate_reserved_blocks(@, s, success[s]), s,
                                           Total("decode", s))]
    /\ phase' = [phase EXCEPT ![s] = "Triggered"]
    /\ local' = [local EXCEPT ![s] = <<>>] /\ remote' = [remote EXCEPT ![s] = <<>>]
    /\ sent' = [sent EXCEPT ![s] = [r \in Ranks |-> 0]]
    /\ state' = [state EXCEPT ![s] = [r \in Ranks |-> "none"]]
    /\ success' = [success EXCEPT ![s] = {}] /\ suspect' = [suspect EXCEPT ![s] = {}]
    /\ UNCHANGED <<kv, doubt, misled, running>>

Decode(s) ==
    /\ phase[s] = "Triggered"
    /\ Admit("decode", s)
    /\ phase' = [phase EXCEPT ![s] = "Decoding"]

Decoded(s) ==
    /\ phase[s] = "Decoding"
    /\ Finish("decode", s)
    /\ phase' = [phase EXCEPT ![s] = "Done"]

-----------------------------------------------------------------------------
Step(s) ==
    \/ Prefill(s) \/ Prefilled(s)
    \/ ReserveRequest(s) \/ PinBlocks(s) \/ PushPanics(s) \/ UnpinBlocks(s)
    \/ TriggerRequest(s)
    \/ Decode(s) \/ Decoded(s)

Transfer(s, r) == PushBlock(s, r) \/ PushFails(s, r)

Next ==
    \E s \in Seqs :
        \/ AddRequest(s)
        \/ Step(s)
        \/ ForwardFails(s)
        \/ \E r \in Ranks : Transfer(s, r)

\* The router, the engines and the KV workers go on; a transfer ends, with DONE,
\* with ERR or with an error.  Ready(s) says when Step(s) is enabled, Sending(s, r) when
\* Transfer(s, r) is: both conditions are weak fairness.
Ready(s) ==
    /\ ~Over(s)
    /\ phase[s] = "Prefilling" => Head(running["prefill"]) = s
    /\ phase[s] = "Decoding" => Head(running["decode"]) = s
    /\ phase[s] = "Pushing" => Joined(s)
Sending(s, r) == phase[s] = "Pushing" /\ state[s][r] = "PROC"

Spec ==
    /\ Init /\ [][Next]_vars
    /\ \A s \in Seqs :
          /\ []<>~Ready(s) \/ []<><<Step(s)>>_vars
          /\ \A r \in Ranks : []<>~Sending(s, r) \/ []<><<Transfer(s, r)>>_vars

-----------------------------------------------------------------------------
(* Properties *)

\* What a host cache serves is what its label says, on every rank: a block
\* found by its hash, or held as a filled block of a task, is the one that
\* was computed or pushed for it, however blocks are evicted, pinned and reused
\* on both nodes while the ranks transfer.  The exceptions are in doubt: blocks
\* labelled before their KV has come (alloc_blocks and reserve_blocks label
\* first) and blocks a transfer has failed for.
ServedSound ==
    \A n \in Nodes :
        /\ \A h \in Hashes :
              LET blk == lookup_block_id(m[n], h)
              IN  blk \in {NoBlock} \union doubt[n] \/ Holds(n, blk, h)
        /\ \A s \in Seqs : \A i \in 1..(m[n].map[s].filled \div BlockSize) :
              LET blk == m[n].map[s].ids[i]
              IN  blk \in doubt[n] \/ Holds(n, blk, BlockHash[s][i])

\* What a request that has failed leaves behind: nobody cancels a reservation
\* on the decode node, and the panic of push_kv skips unpin_blocks.
GivenUp(n) == IF n = "prefill" THEN {"Panicked"} ELSE {"Abandoned", "Panicked"}
LeftBehind(n) ==
    UNION {Elems(m[n].resv[s]) : s \in {t \in Seqs : phase[t] \in GivenUp(n)}}

\* Once every request is over, the blocks that do not come back to the free
\* list are just these: the reservations of the requests whose forward failed
\* after reserve, the pins of those whose push_kv panicked, and what a panic in
\* reserve_request loses.  Nothing else stays pinned, reserved or held on
\* either node; in particular a transfer that answers False leaves nothing.
NothingHeld ==
    (\A s \in Seqs : Over(s)) =>
        \A n \in Nodes :
            Elems(m[n].free) = (0..(NumOf[n] - 1)) \ (m[n].lost \union LeftBehind(n))

\* Every request that is sent to the prefill node is answered by the decode
\* node, or fails: for want of host blocks there, or with a call of forward.
HandOverEnds == \A s \in Seqs : phase[s] = "Queued" ~> phase[s] \in Ends
=============================================================================
