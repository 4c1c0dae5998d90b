------------------------------- MODULE Router -------------------------------
(***************************************************************************)
(* router.rs::Controller, the two routers it owns, and the stats monitor:  *)
(* nodes are connected one after the other when the API server starts      *)
(* (api_server.rs::main), then requests are routed.  With prefill nodes a  *)
(* request is prefilled on one node and its KV handed to a decode node     *)
(* (reserve, transfer_kv, trigger).  Each RPC is a step at the node that   *)
(* answers it, or a failure.                                               *)
(***************************************************************************)
EXTENDS Integers, Sequences, FiniteSets

CONSTANTS
    Addresses,      \* llm_server_addresses: the LLM servers, in this order
    Reqs,           \* requests
    Policy,         \* route_policy of the controller's configuration
    MaxOutputLen,   \* bound on max_output_len of the requests
    RpcFails        \* may an RPC return an error?

NoNode == "none"
NoStats == -1

Elems(q) == {q[i] : i \in 1..Len(q)}
Nodes == Elems(Addresses)

\* Each LLM server listens at an address of its own.
ASSUME RouterAssumption ==
    /\ Addresses \in Seq(Nodes) /\ NoNode \notin Nodes
    /\ \A i, j \in 1..Len(Addresses) : Addresses[i] = Addresses[j] => i = j
    /\ IsFiniteSet(Reqs)
    /\ Policy \in {"RoundRobin", "LoadBalance"}
    /\ MaxOutputLen \in Nat \ {0}
    /\ RpcFails \in BOOLEAN

VARIABLES
    kind,       \* EngineKind of each node, as its get_info says
    policy,     \* the policy each router has ended up with
    limit,      \* max_output_len of the requests
    up,         \* the servers that are running
    pool,       \* the nodes of each router, in the order of its deque
    knows,      \* <<m, n>>: the KV agent of m has the metadata of n
    monitor,    \* has the stats monitor subscribed?
    mail,       \* stats in flight to the monitor
    store,      \* the monitor's last stats of each node
    pc,         \* where each request is
    at,         \* the nodes serving each request
    out,        \* tokens in the answer so far
    waiting,    \* <<n, r>>: r is in node n's scheduler, not yet admitted
    pending,    \* <<n, r>>: node n has set r aside until it is triggered
    log         \* history: the selections of each router

fixed == <<kind, policy, limit>>
net == <<up, knows, monitor, fixed>>
stats == <<mail, store>>
held == <<waiting, pending>>
vars == <<net, pool, stats, pc, at, out, held, log>>

Routers == {"prefill", "decode"}
Connected == Elems(pool["prefill"]) \union Elems(pool["decode"])

\* get_node_scheduler: a router that cannot connect to NATS falls back to
\* round-robin.  A request may ask for no token at all: nothing rejects a
\* max_output_len of 0.
Init ==
    /\ kind \in [Nodes -> {"Prefill", "Decode"}]
    /\ policy \in [Routers -> {Policy, "RoundRobin"}]
    /\ limit \in 0..MaxOutputLen
    /\ up = {}
    /\ pool = [k \in Routers |-> <<>>]
    /\ knows = {}
    /\ monitor = FALSE
    /\ mail = {}
    /\ store = [n \in Nodes |-> NoStats]
    /\ pc = [r \in Reqs |-> "new"]
    /\ at = [r \in Reqs |-> [k \in Routers |-> NoNode]]
    /\ out = [r \in Reqs |-> 0]
    /\ waiting = {} /\ pending = {}
    /\ log = [k \in Routers |-> <<>>]

-----------------------------------------------------------------------------
(* Start-up *)

\* num_waiting_reqs + num_pending_reqs of a node that holds wait and pend.
load(n, wait, pend) == Cardinality({r \in Reqs : <<n, r>> \in wait \union pend})

\* publish_stats: a snapshot; messages of one node may overtake each other.
\* NATS drops what nobody has subscribed to.
publish(n, value) ==
    mail' = IF monitor THEN mail \union {[node |-> n, load |-> value]} ELSE mail

\* LLMEngine::new ends with "initial engine registration".
StartServer(n) ==
    /\ n \notin up
    /\ up' = up \union {n}
    /\ publish(n, 0)
    /\ UNCHANGED <<fixed, knows, monitor, pool, store, pc, at, out, held, log>>

\* monitor.rs::run_async subscribes, on a thread of its own.
StartMonitor ==
    /\ ~monitor
    /\ monitor' = TRUE
    /\ UNCHANGED <<fixed, up, knows, pool, stats, pc, at, out, held, log>>

ReceiveStats(msg) ==
    /\ msg \in mail
    /\ mail' = mail \ {msg}
    /\ store' = [store EXCEPT ![msg.node] = msg.load]
    /\ UNCHANGED <<net, pool, pc, at, out, held, log>>

\* Mutant: only the new node learns of the others.
handshake_one_way(n) == knows \union ({n} \X Connected)

\* handshake_kv_agent with the nodes of both routers.
handshake_kv_agent(n) == knows \union ({n} \X Connected) \union (Connected \X {n})

\* Controller::add_node, for one address after the other; the API server
\* serves once all are connected.
AddNode(n) ==
    /\ n \in up
    /\ n = Addresses[Cardinality(Connected) + 1]
    /\ knows' = handshake_kv_agent(n)
    /\ pool' = [pool EXCEPT ![IF kind[n] = "Prefill" THEN "prefill" ELSE "decode"] = Append(@, n)]
    /\ UNCHANGED <<fixed, up, monitor, stats, pc, at, out, held, log>>

Serving == Connected = Nodes

-----------------------------------------------------------------------------
(* NodeScheduler::select *)

\* Mutant: the deque is not rotated.
rotate_right_none(q) == q

rotate_right(q) == <<q[Len(q)]>> \o SubSeq(q, 1, Len(q) - 1)

\* The nodes the router may select, and its deque afterwards.  The load
\* balancer takes a least loaded node among those the monitor has stats of;
\* ties go to the GPU usage, which is not modelled.
Reported(k) == {n \in Elems(pool[k]) : store[n] # NoStats}
Candidates(k) ==
    IF policy[k] = "RoundRobin" THEN {Head(rotate_right(pool[k]))}
    ELSE {n \in Reported(k) : \A o \in Reported(k) : store[n] <= store[o]}
AfterSelect(k) ==
    [pool EXCEPT ![k] = IF policy[k] = "RoundRobin" THEN rotate_right(@) ELSE @]

\* Mutant: the load balancer waits for the stats.
NoSelection_waits(k) == policy[k] = "RoundRobin" /\ pool[k] = <<>>

\* The selection does not give a node: rotate_right(1) panics on an empty
\* deque, the load balancer without stats returns an error.
NoSelection(k) ==
    IF policy[k] = "RoundRobin" THEN pool[k] = <<>> ELSE Reported(k) = {}

select(k, r, n) ==
    /\ ~NoSelection(k)
    /\ n \in Candidates(k)
    /\ pool' = AfterSelect(k)
    /\ at' = [at EXCEPT ![r][k] = n]
    /\ log' = [log EXCEPT ![k] = Append(@, n)]

SelectFails(k, r) ==
    /\ NoSelection(k)
    /\ pc' = [pc EXCEPT ![r] = IF policy[k] = "RoundRobin" THEN "panicked" ELSE "failed"]
    /\ UNCHANGED <<pool, at, log>>

\* The node's scheduler admits a waiting request; iter publishes its stats.
Admit(n, r) ==
    /\ <<n, r>> \in waiting
    /\ waiting' = waiting \ {<<n, r>>}
    /\ publish(n, load(n, waiting', pending))
    /\ UNCHANGED <<net, pool, store, pc, at, out, pending, log>>

\* Node n answers a request it has admitted, and publishes its stats.
answers(n, r) ==
    /\ <<n, r>> \notin waiting
    /\ publish(n, load(n, waiting, pending))

-----------------------------------------------------------------------------
(* Controller::generate.  A request is routed as a whole without prefill   *)
(* nodes, and otherwise prefilled for one token first.                     *)

FirstRouter == IF pool["prefill"] # <<>> THEN "prefill" ELSE "decode"

Route(r, n) ==
    /\ Serving /\ pc[r] = "new"
    /\ select(FirstRouter, r, n)
    /\ pc' = [pc EXCEPT ![r] = IF FirstRouter = "prefill" THEN "prefill" ELSE "generate"]
    /\ waiting' = waiting \union {<<n, r>>}
    /\ publish(n, load(n, waiting', pending))
    /\ UNCHANGED <<net, store, out, pending>>

RouteFails(r) ==
    /\ Serving /\ pc[r] = "new"
    /\ SelectFails(FirstRouter, r)
    /\ UNCHANGED <<net, stats, out, held>>

\* Mutant: the limit is compared after one token too many.
Generates_one_more(r, k, max) ==
    /\ k \in 1..(max + 1)
    /\ out' = [out EXCEPT ![r] = @ + k]

\* What a node generates for a limit of max tokens: at least one token, since
\* the limit is looked at afterwards, and less than max only if the last one
\* is an end-of-sequence token.
Generates(r, k, max) ==
    /\ k = 1 \/ k \in 1..max
    /\ out' = [out EXCEPT ![r] = @ + k]

PrefillDone(r) ==
    /\ pc[r] = "prefill"
    /\ Generates(r, 1, 1)
    /\ answers(at[r]["prefill"], r)
    /\ pc' = [pc EXCEPT ![r] = "prefilled"]
    /\ UNCHANGED <<net, pool, store, at, held, log>>

GenerateDone(r, k) ==
    /\ pc[r] = "generate"
    /\ Generates(r, k, limit)
    /\ answers(at[r]["decode"], r)
    /\ pc' = [pc EXCEPT ![r] = "done"]
    /\ UNCHANGED <<net, pool, store, at, held, log>>

(* LlmRouter::forward *)

SelectDecode(r, n) ==
    /\ pc[r] = "prefilled"
    /\ select("decode", r, n)
    /\ pc' = [pc EXCEPT ![r] = "reserve"]
    /\ UNCHANGED <<net, stats, out, held>>

SelectDecodeFails(r) ==
    /\ pc[r] = "prefilled"
    /\ SelectFails("decode", r)
    /\ UNCHANGED <<net, stats, out, held>>

\* reserve_request publishes nothing.  Without a full block there is nothing
\* to transfer.
ReserveDone(r, hashes) ==
    /\ pc[r] = "reserve"
    /\ pending' = pending \union {<<at[r]["decode"], r>>}
    /\ pc' = [pc EXCEPT ![r] = IF hashes THEN "transfer" ELSE "trigger"]
    /\ UNCHANGED <<net, pool, stats, at, out, waiting, log>>

TransferDone(r) ==
    /\ pc[r] = "transfer"
    /\ pc' = [pc EXCEPT ![r] = "trigger"]
    /\ UNCHANGED <<net, pool, stats, at, out, held, log>>

\* Mutant: the triggered task stays in pending.
TriggerTask_keeps(r) ==
    /\ pc[r] = "trigger"
    /\ waiting' = waiting \union {<<at[r]["decode"], r>>}
    /\ pc' = [pc EXCEPT ![r] = "decode"]
    /\ UNCHANGED <<net, pool, stats, at, out, pending, log>>

TriggerTask(r) ==
    /\ pc[r] = "trigger"
    /\ pending' = pending \ {<<at[r]["decode"], r>>}
    /\ waiting' = waiting \union {<<at[r]["decode"], r>>}
    /\ pc' = [pc EXCEPT ![r] = "decode"]
    /\ UNCHANGED <<net, pool, stats, at, out, log>>

\* saturating_sub(1); the limit of the decode phase.
DecodeLimit == IF limit = 0 THEN 0 ELSE limit - 1

DecodeDone(r, k) ==
    /\ pc[r] = "decode"
    /\ Generates(r, k, DecodeLimit)
    /\ answers(at[r]["decode"], r)
    /\ pc' = [pc EXCEPT ![r] = "done"]
    /\ UNCHANGED <<net, pool, store, at, held, log>>

\* An RPC fails, before the node has done its part or after, and so does the
\* request; nobody cancels what the nodes have.
RpcError(r) ==
    /\ RpcFails
    /\ pc[r] \in {"prefill", "generate", "reserve", "transfer", "trigger", "decode"}
    /\ pc' = [pc EXCEPT ![r] = "failed"]
    /\ \/ pending' = pending
       \/ pc[r] = "reserve" /\ pending' = pending \union {<<at[r]["decode"], r>>}
    /\ UNCHANGED <<net, pool, stats, at, out, waiting, log>>

-----------------------------------------------------------------------------
Start ==
    \/ \E n \in Nodes : StartServer(n)
    \/ ~Serving /\ \E n \in Nodes : AddNode(n)
    \/ StartMonitor

Request(r) ==
    \/ \E n \in Nodes : Route(r, n)
    \/ RouteFails(r)
    \/ PrefillDone(r)
    \/ \E k \in 1..(MaxOutputLen + 1) : GenerateDone(r, k)
    \/ \E n \in Nodes : SelectDecode(r, n)
    \/ SelectDecodeFails(r)
    \/ \E hashes \in BOOLEAN : ReserveDone(r, hashes)
    \/ TransferDone(r)
    \/ TriggerTask(r)
    \/ \E k \in 1..(MaxOutputLen + 1) : DecodeDone(r, k)

Next ==
    \/ Start
    \/ \E msg \in mail : ReceiveStats(msg)
    \/ \E n \in Nodes, r \in Reqs : Admit(n, r)
    \/ \E r \in Reqs : Request(r) \/ RpcError(r)

Spec == Init /\ [][Next]_vars

\* The servers, the monitor and the API server get started, NATS delivers
\* what it has accepted, and the nodes admit and answer what they are sent.
FairSpec ==
    /\ Spec
    /\ WF_vars(Start)
    /\ \A n \in Nodes : WF_vars(\E msg \in mail : msg.node = n /\ ReceiveStats(msg))
    /\ \A n \in Nodes, r \in Reqs : WF_vars(Admit(n, r))
    /\ \A r \in Reqs : WF_vars(pc[r] # "new" /\ Request(r))

-----------------------------------------------------------------------------
(* Properties *)

TypeOK ==
    /\ kind \in [Nodes -> {"Prefill", "Decode"}]
    /\ policy \in [Routers -> {"RoundRobin", "LoadBalance"}]
    /\ limit \in 0..MaxOutputLen
    /\ up \subseteq Nodes
    /\ pool \in [Routers -> Seq(Nodes)]
    /\ knows \subseteq Nodes \X Nodes
    /\ monitor \in BOOLEAN
    /\ mail \subseteq [node : Nodes, load : Nat]
    /\ store \in [Nodes -> Int]
    /\ pc \in [Reqs -> {"new", "prefill", "generate", "prefilled", "reserve", "transfer",
                        "trigger", "decode", "done", "failed", "panicked"}]
    /\ at \in [Reqs -> [Routers -> Nodes \union {NoNode}]]
    /\ out \in [Reqs -> Nat]
    /\ waiting \subseteq Nodes \X Reqs /\ pending \subseteq Nodes \X Reqs
    /\ log \in [Routers -> Seq(Nodes)]

\* Round-robin takes turns: between two selections of a node every other node
\* of the router is selected, although the deque is rotated and read by many
\* requests at once.
TakesTurns ==
    \A k \in Routers : \A i, j \in 1..Len(log[k]) :
        policy[k] = "RoundRobin" /\ i < j /\ log[k][i] = log[k][j] =>
            \A n \in Elems(pool[k]) : \E l \in i..(j - 1) : log[k][l] = n

\* KV is only ever pushed between agents that know each other, in whatever
\* order the nodes of both kinds were connected: handshake_kv_agent goes over
\* both routers and both directions.
PeersKnown ==
    \A r \in Reqs :
        pc[r] = "transfer" => /\ <<at[r]["prefill"], at[r]["decode"]>> \in knows
                              /\ <<at[r]["decode"], at[r]["prefill"]>> \in knows

\* A request is set aside only at the node it was forwarded to and only until
\* it is triggered there; the reservation of a request stays behind only if
\* one of forward's RPCs failed (nobody cancels it), never after an answer.
ReservationOwned ==
    \A n \in Nodes, r \in Reqs :
        <<n, r>> \in pending =>
            n = at[r]["decode"] /\ pc[r] \in {"transfer", "trigger", "failed"}

\* A routed request is answered, or fails, in the end: with stats that are
\* lost, late or out of order, with nodes of one kind only, and whichever RPC
\* of route or forward fails.
RequestEnds ==
    \A r \in Reqs : pc[r] # "new" ~> pc[r] \in {"done", "failed", "panicked"}

\* The answer has at most max_output_len tokens, through the split of the
\* limit between the two phases.  The exceptions are the limits below the
\* number of phases, since either phase generates before it looks at its limit:
\* one token for a limit of 0, two for a limit of 0 or 1 with a hand-over.
OutputWithinMax ==
    \A r \in Reqs :
        LET phases == IF at[r]["prefill"] = NoNode THEN 1 ELSE 2
        IN  pc[r] = "done" => out[r] <= limit \/ (limit < phases /\ out[r] = phases)
=============================================================================
