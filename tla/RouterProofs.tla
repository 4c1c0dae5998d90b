---------------------------- MODULE RouterProofs ----------------------------
(***************************************************************************)
(* Safety of Router.tla for every list of LLM servers, whatever their      *)
(* kinds, and every set of requests: round-robin takes turns, KV moves     *)
(* only between agents that know each other, a reservation belongs to the  *)
(* node the request was forwarded to, and the limit on the output holds    *)
(* through its split between the two phases.                               *)
(***************************************************************************)
EXTENDS Router, SequenceTheorems, FiniteSetTheorems, TLAPS

-----------------------------------------------------------------------------
(* Lemmas on the operators *)

\* rotate_right moves the last element to the front and loses nothing.
LEMMA RotateRight ==
    ASSUME NEW S, NEW q \in Seq(S), q # <<>>
    PROVE  /\ rotate_right(q) \in Seq(S)
           /\ Len(rotate_right(q)) = Len(q)
           /\ \A i \in 1..Len(q) : rotate_right(q)[i] = IF i = 1 THEN q[Len(q)] ELSE q[i - 1]
           /\ Head(rotate_right(q)) = q[Len(q)]
           /\ Elems(rotate_right(q)) = Elems(q)
<1> DEFINE L == Len(q)
           f == <<q[L]>>
           t == SubSeq(q, 1, L - 1)
           p == rotate_right(q)
<1>1. L \in Nat \ {0} /\ q[L] \in S /\ \A i \in 1..L : q[i] \in S
  BY EmptySeq, ElementOfSeq
<1>2. f \in Seq(S) /\ Len(f) = 1 /\ f[1] = q[L]
  BY <1>1
<1>3. t \in Seq(S) /\ Len(t) = L - 1 /\ \A i \in 1..(L - 1) : t[i] = q[i]
  <2>1. \A i \in 1..(L - 1) : q[i] \in S
    BY <1>1
  <2> HIDE DEF L
  <2>2. /\ SubSeq(q, 1, L - 1) \in Seq(S)
        /\ Len(SubSeq(q, 1, L - 1)) = IF 1 <= L - 1 THEN (L - 1) - 1 + 1 ELSE 0
        /\ \A i \in 1..((L - 1) - 1 + 1) : SubSeq(q, 1, L - 1)[i] = q[1 + i - 1]
    BY <2>1, <1>1, SubSeqProperties
  <2> QED
    BY <2>2, <1>1
<1>4. p = f \o t
  BY DEF rotate_right
<1> HIDE DEF L, f, t, p
<1>c. /\ f \o t \in Seq(S)
      /\ Len(f \o t) = Len(f) + Len(t)
      /\ \A i \in 1..(Len(f) + Len(t)) : (f \o t)[i] = IF i <= Len(f) THEN f[i] ELSE t[i - Len(f)]
  BY <1>2, <1>3, ConcatProperties, Zenon
<1>5. p \in Seq(S) /\ Len(p) = L
  BY <1>c, <1>1, <1>2, <1>3, <1>4
<1>6. \A i \in 1..L : p[i] = IF i = 1 THEN q[L] ELSE q[i - 1]
  <2> SUFFICES ASSUME NEW i \in 1..L
               PROVE  p[i] = IF i = 1 THEN q[L] ELSE q[i - 1]
    OBVIOUS
  <2>1. p[i] = IF i <= Len(f) THEN f[i] ELSE t[i - Len(f)]
    BY <1>c, <1>1, <1>2, <1>3, <1>4
  <2>2. CASE i = 1
    BY <2>1, <2>2, <1>2
  <2>3. CASE i # 1
    <3>1. i - 1 \in 1..(L - 1)
      BY <2>3, <1>1
    <3> QED
      BY <2>1, <2>3, <3>1, <1>1, <1>2, <1>3
  <2> QED
    BY <2>2, <2>3
<1>7. Head(p) = q[L]
  BY <1>1, <1>5, <1>6
<1>8. Elems(p) = Elems(q)
  <2>1. ASSUME NEW i \in 1..L PROVE \E j \in 1..L : p[i] = q[j]
    <3>1. CASE i = 1
      BY <3>1, <1>1, <1>6
    <3>2. CASE i # 1
      BY <3>2, <1>1, <1>6
    <3> QED
      BY <3>1, <3>2
  <2>2. ASSUME NEW j \in 1..L PROVE \E i \in 1..L : q[j] = p[i]
    <3>1. CASE j = L
      BY <3>1, <1>1, <1>6
    <3>2. CASE j # L
      <4>1. j + 1 \in 1..L /\ j + 1 # 1 /\ (j + 1) - 1 = j
        BY <3>2, <1>1
      <4> QED
        BY <4>1, <1>6
    <3> QED
      BY <3>1, <3>2
  <2>3. Elems(p) = {p[i] : i \in 1..L} /\ Elems(q) = {q[i] : i \in 1..L}
    BY <1>5 DEF Elems, L
  <2> QED
    BY <2>1, <2>2, <2>3
<1> QED
  BY <1>5, <1>6, <1>7, <1>8 DEF p, L

\* Append adds its argument to the elements.
LEMMA ElemsAppend ==
    ASSUME NEW S, NEW q \in Seq(S), NEW e \in S
    PROVE  Elems(Append(q, e)) = Elems(q) \union {e}
<1>1. /\ Len(q) \in Nat
      /\ Len(Append(q, e)) = Len(q) + 1
      /\ \A i \in 1..Len(q) : Append(q, e)[i] = q[i]
      /\ Append(q, e)[Len(q) + 1] = e
  BY AppendProperties, LenProperties
<1>2. \A i \in 1..(Len(q) + 1) : i \in 1..Len(q) \/ i = Len(q) + 1
  BY <1>1
<1>3. \A i \in 1..Len(q) : i \in 1..(Len(q) + 1)
  BY <1>1
<1>4. Len(q) + 1 \in 1..(Len(q) + 1)
  BY <1>1
<1> QED
  BY <1>1, <1>2, <1>3, <1>4, Zenon DEF Elems

-----------------------------------------------------------------------------
(* Types *)

\* The load of a node is a natural number.
LEMMA LoadType ==
    ASSUME NEW n, NEW wait, NEW pend
    PROVE  load(n, wait, pend) \in Nat
<1> DEFINE S == {r \in Reqs : <<n, r>> \in wait \union pend}
<1>1. IsFiniteSet(S)
  BY RouterAssumption, FS_Subset
<1> QED
  BY <1>1, FS_CardinalityType DEF load

\* A selection takes a node of the router, and leaves the router its nodes.
LEMMA SelectNode ==
    ASSUME TypeOK, NEW k \in Routers, NEW r \in Reqs, NEW n \in Nodes, select(k, r, n)
    PROVE  /\ n \in Elems(pool[k])
           /\ pool' \in [Routers -> Seq(Nodes)]
           /\ \A j \in Routers : Elems(pool'[j]) = Elems(pool[j])
           /\ at' = [at EXCEPT ![r] = [at[r] EXCEPT ![k] = n]]
           /\ at' \in [Reqs -> [Routers -> Nodes \union {NoNode}]]
           /\ log' \in [Routers -> Seq(Nodes)]
<1> USE DEF TypeOK
<1>1. pool[k] \in Seq(Nodes)
  OBVIOUS
<1>2. CASE policy[k] = "RoundRobin"
  <2>1. pool[k] # <<>>
    BY <1>2 DEF select, NoSelection
  <2>2. n = Head(rotate_right(pool[k]))
    BY <1>2 DEF select, Candidates
  <2>3. Len(pool[k]) \in Nat \ {0}
    BY <1>1, <2>1, EmptySeq
  <2>4. n \in Elems(pool[k])
    <3>1. n = pool[k][Len(pool[k])]
      BY <1>1, <2>1, <2>2, RotateRight
    <3>2. Len(pool[k]) \in 1..Len(pool[k])
      BY <2>3
    <3> QED
      BY <3>1, <3>2 DEF Elems
  <2>5. pool' = [pool EXCEPT ![k] = rotate_right(pool[k])]
    BY <1>2 DEF select, AfterSelect
  <2>6. rotate_right(pool[k]) \in Seq(Nodes) /\ Elems(rotate_right(pool[k])) = Elems(pool[k])
    BY <1>1, <2>1, RotateRight
  <2>7. \A j \in Routers : Elems(pool'[j]) = Elems(pool[j])
    BY <2>5, <2>6
  <2> QED
    BY <2>4, <2>5, <2>6, <2>7, AppendProperties DEF select
<1>3. CASE policy[k] # "RoundRobin"
  <2>1. n \in Elems(pool[k])
    BY <1>3 DEF select, Candidates, Reported
  <2>2. pool' = pool
    BY <1>3 DEF select, AfterSelect
  <2> QED
    BY <2>1, <2>2, AppendProperties DEF select
<1> QED
  BY <1>2, <1>3

\* A request that has been routed is at nodes of the routers that selected
\* them, and the API server serves.
Prefilling == {"prefill", "prefilled", "reserve", "transfer", "trigger", "decode"}
Decoding == {"generate", "reserve", "transfer", "trigger", "decode"}
PlaceInv ==
    \A r \in Reqs :
        /\ pc[r] \in Prefilling => at[r]["prefill"] \in Elems(pool["prefill"])
        /\ pc[r] \in Decoding => at[r]["decode"] \in Elems(pool["decode"])
        /\ pc[r] # "new" => Serving

\* The step of a request that changes its pc, and neither pool nor at, keeps
\* its nodes if the new pc asks for nothing the old one did not.
LEMMA SameNodes ==
    ASSUME TypeOK, PlaceInv, NEW r \in Reqs, NEW v, pc' = [pc EXCEPT ![r] = v],
           pool' = pool, at' = at, Serving,
           v \in Prefilling => pc[r] \in Prefilling,
           v \in Decoding => pc[r] \in Decoding
    PROVE  PlaceInv'
<1>1. Serving'
  BY DEF Serving, Connected
<1> QED
  BY <1>1 DEF PlaceInv, TypeOK

\* The selected node is recorded where PlaceInv looks for it.
LEMMA SelectPlace ==
    ASSUME TypeOK, PlaceInv, NEW k \in Routers, NEW r \in Reqs, NEW n \in Nodes, select(k, r, n),
           NEW v, pc' = [pc EXCEPT ![r] = v], Serving,
           v \in Prefilling => k = "prefill" \/ pc[r] \in Prefilling,
           v \in Decoding => k = "decode" \/ pc[r] \in Decoding
    PROVE  PlaceInv'
<1>1. /\ n \in Elems(pool[k])
      /\ \A j \in Routers : Elems(pool'[j]) = Elems(pool[j])
      /\ at' = [at EXCEPT ![r] = [at[r] EXCEPT ![k] = n]]
  BY SelectNode
<1>2. Serving'
  BY <1>1 DEF Serving, Connected, Routers
<1>3. ASSUME NEW t \in Reqs, NEW j \in Routers
      PROVE  at'[t][j] = IF t = r /\ j = k THEN n ELSE at[t][j]
  BY <1>1 DEF TypeOK
<1>4. "prefill" \in Routers /\ "decode" \in Routers
  BY DEF Routers
<1>5. ASSUME NEW t \in Reqs
      PROVE  /\ pc'[t] \in Prefilling => at'[t]["prefill"] \in Elems(pool'["prefill"])
             /\ pc'[t] \in Decoding => at'[t]["decode"] \in Elems(pool'["decode"])
  <2>1. CASE t = r
    BY <2>1, <1>1, <1>3, <1>4 DEF PlaceInv, TypeOK
  <2>2. CASE t # r
    BY <2>2, <1>1, <1>3, <1>4 DEF PlaceInv, TypeOK
  <2> QED
    BY <2>1, <2>2
<1> QED
  BY <1>2, <1>5 DEF PlaceInv

\* Both hold initially.
LEMMA InitPlace == Init => TypeOK /\ PlaceInv
<1> SUFFICES ASSUME Init PROVE TypeOK /\ PlaceInv
  OBVIOUS
<1>1. pool \in [Routers -> Seq(Nodes)] /\ log \in [Routers -> Seq(Nodes)]
  BY EmptySeq DEF Init
<1>2. policy \in [Routers -> {"RoundRobin", "LoadBalance"}]
  BY RouterAssumption DEF Init
<1>3. /\ store \in [Nodes -> Int]
      /\ out \in [Reqs -> Nat]
      /\ at \in [Reqs -> [Routers -> Nodes \union {NoNode}]]
      /\ pc \in [Reqs -> {"new"}]
  BY DEF Init, NoStats
<1>4. TypeOK
  BY <1>1, <1>2, <1>3 DEF Init, TypeOK
<1> QED
  BY <1>3, <1>4 DEF PlaceInv, Prefilling, Decoding

\* The steps of a request keep them.
LEMMA RequestPlace ==
    ASSUME TypeOK, PlaceInv, NEW r \in Reqs, Request(r)
    PROVE  TypeOK' /\ PlaceInv'
<1> USE DEF TypeOK
<1>r. "prefill" \in Routers /\ "decode" \in Routers /\ FirstRouter \in Routers
  BY DEF FirstRouter, Routers
<1>p. ASSUME NEW n \in Nodes, NEW wait, NEW pend, publish(n, load(n, wait, pend))
      PROVE  mail' \subseteq [node : Nodes, load : Nat]
  BY <1>p, LoadType DEF publish
<1>n. \A k \in Routers : Elems(pool[k]) \subseteq Nodes
  BY ElementOfSeq DEF Elems
<1>s. pc[r] # "new" => Serving
  BY DEF PlaceInv
<1>1. ASSUME NEW n \in Nodes, Route(r, n) PROVE TypeOK' /\ PlaceInv'
  <2>1. select(FirstRouter, r, n)
    BY <1>1 DEF Route
  <2>2. /\ pool' \in [Routers -> Seq(Nodes)]
        /\ at' \in [Reqs -> [Routers -> Nodes \union {NoNode}]]
        /\ log' \in [Routers -> Seq(Nodes)]
    BY <1>r, <2>1, SelectNode
  <2>3. mail' \subseteq [node : Nodes, load : Nat]
    BY <1>1, <1>p DEF Route
  <2>4. TypeOK'
    <3>1. pc' \in [Reqs -> {"new", "prefill", "generate", "prefilled", "reserve", "transfer",
                          "trigger", "decode", "done", "failed", "panicked"}]
      BY <1>1 DEF Route
    <3> QED
      BY <1>1, <2>2, <2>3, <3>1 DEF Route, net, fixed
  <2>5. PlaceInv'
    BY <1>1, <1>r, <2>1, SelectPlace DEF Route, FirstRouter, Prefilling, Decoding
  <2> QED
    BY <2>4, <2>5
<1>2. CASE RouteFails(r)
  <2>1. PlaceInv'
    BY <1>2, SameNodes DEF RouteFails, SelectFails, Prefilling, Decoding
  <2>2. pc' \in [Reqs -> {"new", "prefill", "generate", "prefilled", "reserve", "transfer",
                        "trigger", "decode", "done", "failed", "panicked"}]
    BY <1>2 DEF RouteFails, SelectFails
  <2> QED
    BY <1>2, <2>1, <2>2 DEF RouteFails, SelectFails, net, fixed, stats, held
<1>3. CASE PrefillDone(r)
  <2>1. at[r]["prefill"] \in Nodes
    BY <1>3, <1>n, <1>r DEF PrefillDone, PlaceInv, Prefilling
  <2>2. mail' \subseteq [node : Nodes, load : Nat]
    BY <1>3, <1>p, <2>1 DEF PrefillDone, answers
  <2>3. PlaceInv'
    BY <1>3, <1>s, SameNodes DEF PrefillDone, Prefilling, Decoding
  <2> QED
    BY <1>3, <2>2, <2>3 DEF PrefillDone, Generates, net, fixed, held
<1>4. ASSUME NEW k \in 1..(MaxOutputLen + 1), GenerateDone(r, k) PROVE TypeOK' /\ PlaceInv'
  <2>1. at[r]["decode"] \in Nodes
    BY <1>4, <1>n, <1>r DEF GenerateDone, PlaceInv, Decoding
  <2>2. mail' \subseteq [node : Nodes, load : Nat]
    BY <1>4, <1>p, <2>1 DEF GenerateDone, answers
  <2>3. PlaceInv'
    BY <1>4, <1>s, SameNodes DEF GenerateDone, Prefilling, Decoding
  <2> QED
    BY <1>4, <2>2, <2>3 DEF GenerateDone, Generates, net, fixed, held
<1>5. ASSUME NEW n \in Nodes, SelectDecode(r, n) PROVE TypeOK' /\ PlaceInv'
  <2>1. select("decode", r, n)
    BY <1>5 DEF SelectDecode
  <2>2. /\ pool' \in [Routers -> Seq(Nodes)]
        /\ at' \in [Reqs -> [Routers -> Nodes \union {NoNode}]]
        /\ log' \in [Routers -> Seq(Nodes)]
    BY <1>r, <2>1, SelectNode
  <2>3. PlaceInv'
    BY <1>5, <1>r, <1>s, <2>1, SelectPlace DEF SelectDecode, Prefilling, Decoding
  <2> QED
    BY <1>5, <2>2, <2>3 DEF SelectDecode, net, fixed, stats, held
<1>6. CASE SelectDecodeFails(r)
  <2>1. PlaceInv'
    BY <1>6, <1>s, SameNodes DEF SelectDecodeFails, SelectFails, Prefilling, Decoding
  <2> QED
    BY <1>6, <2>1 DEF SelectDecodeFails, SelectFails, net, fixed, stats, held
<1>7. ASSUME NEW hashes \in BOOLEAN, ReserveDone(r, hashes) PROVE TypeOK' /\ PlaceInv'
  <2>1. at[r]["decode"] \in Nodes
    BY <1>7, <1>n, <1>r DEF ReserveDone, PlaceInv, Decoding
  <2>2. PlaceInv'
    BY <1>7, <1>s, SameNodes DEF ReserveDone, Prefilling, Decoding
  <2> QED
    BY <1>7, <2>1, <2>2 DEF ReserveDone, net, fixed, stats
<1>8. CASE TransferDone(r)
  <2>1. PlaceInv'
    BY <1>8, <1>s, SameNodes DEF TransferDone, Prefilling, Decoding
  <2> QED
    BY <1>8, <2>1 DEF TransferDone, net, fixed, stats, held
<1>9. CASE TriggerTask(r)
  <2>1. at[r]["decode"] \in Nodes
    BY <1>9, <1>n, <1>r DEF TriggerTask, PlaceInv, Decoding
  <2>2. PlaceInv'
    BY <1>9, <1>s, SameNodes DEF TriggerTask, Prefilling, Decoding
  <2> QED
    BY <1>9, <2>1, <2>2 DEF TriggerTask, net, fixed, stats
<1>10. ASSUME NEW k \in 1..(MaxOutputLen + 1), DecodeDone(r, k) PROVE TypeOK' /\ PlaceInv'
  <2>1. at[r]["decode"] \in Nodes
    BY <1>10, <1>n, <1>r DEF DecodeDone, PlaceInv, Decoding
  <2>2. mail' \subseteq [node : Nodes, load : Nat]
    BY <1>10, <1>p, <2>1 DEF DecodeDone, answers
  <2>3. PlaceInv'
    BY <1>10, <1>s, SameNodes DEF DecodeDone, Prefilling, Decoding
  <2> QED
    BY <1>10, <2>2, <2>3 DEF DecodeDone, Generates, net, fixed, held
<1> QED
  BY <1>1, <1>2, <1>3, <1>4, <1>5, <1>6, <1>7, <1>8, <1>9, <1>10 DEF Request

\* Every step keeps them.
LEMMA NextPlace ==
    ASSUME TypeOK, PlaceInv, [Next]_vars
    PROVE  TypeOK' /\ PlaceInv'
<1> USE DEF TypeOK
<1>p. ASSUME NEW n \in Nodes, NEW v \in Nat, publish(n, v)
      PROVE  mail' \subseteq [node : Nodes, load : Nat]
  BY <1>p DEF publish
<1>q. ASSUME pool' = pool, at' = at, pc' = pc PROVE PlaceInv'
  BY <1>q DEF PlaceInv, Serving, Connected
<1>1. ASSUME NEW n \in Nodes, StartServer(n) PROVE TypeOK' /\ PlaceInv'
  <2>1. TypeOK'
    BY <1>1, <1>p DEF StartServer, fixed, held
  <2> QED
    BY <1>1, <1>q, <2>1 DEF StartServer
<1>2. ASSUME NEW n \in Nodes, ~Serving, AddNode(n) PROVE TypeOK' /\ PlaceInv'
  <2>1. pool' \in [Routers -> Seq(Nodes)]
    <3>1. \A k \in Routers : Append(pool[k], n) \in Seq(Nodes)
      BY AppendProperties
    <3> QED
      BY <1>2, <3>1 DEF AddNode, Routers
  <2>2. Connected \subseteq Nodes
    BY ElementOfSeq DEF Connected, Elems, Routers
  <2>3. knows' \subseteq Nodes \X Nodes
    BY <1>2, <2>2 DEF AddNode, handshake_kv_agent
  <2>4. TypeOK'
    BY <1>2, <2>1, <2>3 DEF AddNode, fixed, held, stats
  <2>5. \A r \in Reqs : pc'[r] = "new"
    BY <1>2 DEF AddNode, PlaceInv
  <2>6. PlaceInv'
    BY <2>5 DEF PlaceInv, Prefilling, Decoding
  <2> QED
    BY <2>4, <2>6
<1>3. CASE StartMonitor
  BY <1>3, <1>q DEF StartMonitor, fixed, held, stats
<1>4. ASSUME NEW msg \in mail, ReceiveStats(msg) PROVE TypeOK' /\ PlaceInv'
  BY <1>4, <1>q DEF ReceiveStats, net, fixed, held
<1>5. ASSUME NEW n \in Nodes, NEW r \in Reqs, Admit(n, r) PROVE TypeOK' /\ PlaceInv'
  <2>1. mail' \subseteq [node : Nodes, load : Nat]
    BY <1>5, <1>p, LoadType DEF Admit
  <2> QED
    BY <1>5, <1>q, <2>1 DEF Admit, net, fixed
<1>6. ASSUME NEW r \in Reqs, RpcError(r) PROVE TypeOK' /\ PlaceInv'
  <2>1. PlaceInv'
    BY <1>6, SameNodes DEF RpcError, PlaceInv, Prefilling, Decoding
  <2>2. pending' \subseteq Nodes \X Reqs
    <3>1. pc[r] = "reserve" => at[r]["decode"] \in Elems(pool["decode"])
      BY DEF PlaceInv, Decoding
    <3>2. Elems(pool["decode"]) \subseteq Nodes
      BY ElementOfSeq DEF Elems, Routers
    <3> QED
      BY <1>6, <3>1, <3>2 DEF RpcError
  <2> QED
    BY <1>6, <2>1, <2>2 DEF RpcError, net, fixed, stats
<1>7. CASE UNCHANGED vars
  BY <1>7, <1>q DEF vars, net, fixed, stats, held
<1> QED
  BY <1>1, <1>2, <1>3, <1>4, <1>5, <1>6, <1>7, RequestPlace DEF Next, Start

\* Types and places together are an invariant.
LEMMA PlaceCorrect == Spec => [](TypeOK /\ PlaceInv)
  BY InitPlace, NextPlace, PTL DEF Spec

\* What TypeOK says of each variable is kept by every step: in particular no
\* RPC goes to a node that was never selected, and no stats are stored for a
\* node that is not of the cluster.
THEOREM TypeCorrect == Spec => []TypeOK
  BY PlaceCorrect, PTL

\* What a step does to the routers: a node is added before the API server
\* serves, a node is selected when it does, or nothing.
LEMMA NextPool ==
    ASSUME PlaceInv, [Next]_vars
    PROVE  \/ \E n \in Nodes : ~Serving /\ AddNode(n)
           \/ /\ Serving
              /\ UNCHANGED <<kind, policy, knows>>
              /\ \E k \in Routers, r \in Reqs, n \in Nodes : select(k, r, n)
           \/ UNCHANGED <<kind, policy, knows, pool, log>>
<1> USE DEF net, fixed
<1>1. ASSUME NEW r \in Reqs, NEW n \in Nodes, Route(r, n)
      PROVE  /\ Serving /\ UNCHANGED <<kind, policy, knows>>
             /\ \E k \in Routers : select(k, r, n)
  BY <1>1 DEF Route, FirstRouter, Routers
<1>2. ASSUME NEW r \in Reqs, NEW n \in Nodes, SelectDecode(r, n)
      PROVE  /\ Serving /\ UNCHANGED <<kind, policy, knows>>
             /\ \E k \in Routers : select(k, r, n)
  BY <1>2 DEF SelectDecode, Routers, PlaceInv
<1>3. ASSUME NEW r \in Reqs, Request(r), \A n \in Nodes : ~Route(r, n) /\ ~SelectDecode(r, n)
      PROVE  UNCHANGED <<kind, policy, knows, pool, log>>
  BY <1>3 DEF Request, RouteFails, SelectFails, PrefillDone, GenerateDone, SelectDecodeFails,
              ReserveDone, TransferDone, TriggerTask, DecodeDone
<1>4. ASSUME NEW r \in Reqs, RpcError(r) PROVE UNCHANGED <<kind, policy, knows, pool, log>>
  BY <1>4 DEF RpcError
<1>5. ASSUME NEW n \in Nodes, NEW r \in Reqs, Admit(n, r)
      PROVE  UNCHANGED <<kind, policy, knows, pool, log>>
  BY <1>5 DEF Admit
<1>6. ASSUME NEW msg \in mail, ReceiveStats(msg) PROVE UNCHANGED <<kind, policy, knows, pool, log>>
  BY <1>6 DEF ReceiveStats
<1>7. ASSUME Start, ~\E n \in Nodes : ~Serving /\ AddNode(n)
      PROVE  UNCHANGED <<kind, policy, knows, pool, log>>
  BY <1>7 DEF Start, StartServer, StartMonitor
<1>8. CASE UNCHANGED vars
  BY <1>8 DEF vars
<1> QED
  BY <1>1, <1>2, <1>3, <1>4, <1>5, <1>6, <1>7, <1>8 DEF Next

-----------------------------------------------------------------------------
(* The agents know each other *)

\* The nodes of a router are of its kind, and any two that are connected know
\* each other.
PeerInv ==
    /\ \A n \in Elems(pool["prefill"]) : kind[n] = "Prefill"
    /\ \A n \in Elems(pool["decode"]) : kind[n] = "Decode"
    /\ \A m, n \in Connected : m # n => <<m, n>> \in knows

\* A step that adds no node keeps PeerInv.
LEMMA SamePeers ==
    ASSUME PeerInv, kind' = kind, knows' = knows,
           \A k \in Routers : Elems(pool'[k]) = Elems(pool[k])
    PROVE  PeerInv'
  BY DEF PeerInv, Connected, Routers

\* A node joins one router only, after it has shaken hands with the nodes of
\* both.
LEMMA AddPeer ==
    ASSUME TypeOK, PeerInv, NEW n \in Nodes, AddNode(n)
    PROVE  PeerInv'
<1> DEFINE k == IF kind[n] = "Prefill" THEN "prefill" ELSE "decode"
<1>1. k \in Routers /\ kind[n] \in {"Prefill", "Decode"}
  BY DEF Routers, TypeOK
<1>2. \A j \in Routers : Elems(pool'[j]) = IF j = k THEN Elems(pool[j]) \union {n} ELSE Elems(pool[j])
  <2>1. pool' = [pool EXCEPT ![k] = Append(pool[k], n)]
    BY DEF AddNode
  <2>2. Elems(Append(pool[k], n)) = Elems(pool[k]) \union {n}
    BY <1>1, ElemsAppend DEF TypeOK
  <2> QED
    BY <2>1, <2>2, <1>1 DEF TypeOK
<1>3. "prefill" \in Routers /\ "decode" \in Routers
  BY DEF Routers
<1>4. Connected' = Connected \union {n}
  BY <1>1, <1>2, <1>3 DEF Connected
<1>5. knows' = knows \union ({n} \X Connected) \union (Connected \X {n}) /\ kind' = kind
  BY DEF AddNode, handshake_kv_agent, fixed
<1>6. \A m, o \in Connected' : m # o => <<m, o>> \in knows'
  BY <1>4, <1>5 DEF PeerInv
<1>7. /\ \A o \in Elems(pool'["prefill"]) : kind'[o] = "Prefill"
      /\ \A o \in Elems(pool'["decode"]) : kind'[o] = "Decode"
  BY <1>1, <1>2, <1>3, <1>5 DEF PeerInv
<1> QED
  BY <1>6, <1>7 DEF PeerInv

\* KV is only pushed between agents that know each other, in whatever order
\* Controller::add_node was called for nodes of either kind.
THEOREM PeersAreKnown == Spec => []PeersKnown
<1>1. Init => PeerInv
  BY EmptySeq DEF Init, PeerInv, Connected, Elems, Routers
<1>2. TypeOK /\ PlaceInv /\ PeerInv /\ [Next]_vars => PeerInv'
  <2> SUFFICES ASSUME TypeOK, PlaceInv, PeerInv, [Next]_vars
               PROVE  PeerInv'
    OBVIOUS
  <2>1. CASE \E n \in Nodes : ~Serving /\ AddNode(n)
    BY <2>1, AddPeer
  <2>2. CASE /\ UNCHANGED <<kind, policy, knows>>
             /\ \E k \in Routers, r \in Reqs, n \in Nodes : select(k, r, n)
    BY <2>2, SelectNode, SamePeers
  <2>3. CASE UNCHANGED <<kind, policy, knows, pool, log>>
    BY <2>3, SamePeers
  <2> QED
    BY <2>1, <2>2, <2>3, NextPool
<1>3. PlaceInv /\ PeerInv => PeersKnown
  <2> SUFFICES ASSUME PlaceInv, PeerInv, NEW r \in Reqs, pc[r] = "transfer"
               PROVE  /\ <<at[r]["prefill"], at[r]["decode"]>> \in knows
                      /\ <<at[r]["decode"], at[r]["prefill"]>> \in knows
    BY DEF PeersKnown
  <2>1. at[r]["prefill"] \in Elems(pool["prefill"]) /\ at[r]["decode"] \in Elems(pool["decode"])
    BY DEF PlaceInv, Prefilling, Decoding
  <2> QED
    BY <2>1 DEF PeerInv, Connected
<1> QED
  BY <1>1, <1>2, <1>3, PlaceCorrect, PTL DEF Spec

-----------------------------------------------------------------------------
(* Reservations and the length of the answer *)

\* The tokens a request has, by its place; one that is generated by a single
\* node has no prefill node.
OutInv ==
    \A r \in Reqs :
        /\ pc[r] \in {"new", "generate"} => at[r]["prefill"] = NoNode
        /\ pc[r] \in {"new", "prefill", "generate"} => out[r] = 0
        /\ pc[r] \in {"prefilled", "reserve", "transfer", "trigger", "decode"} => out[r] = 1

\* Steps that leave the requests alone.
LEMMA SameRequests ==
    ASSUME OutInv, OutputWithinMax, ReservationOwned,
           UNCHANGED <<limit, pc, at, out, pending>>
    PROVE  OutInv' /\ OutputWithinMax' /\ ReservationOwned'
  BY DEF OutInv, OutputWithinMax, ReservationOwned

\* The other requests do not see a step of request r.
LEMMA OneRequest ==
    ASSUME TypeOK, OutInv, OutputWithinMax, ReservationOwned, NEW r \in Reqs,
           limit' = limit,
           NEW v, pc' = [pc EXCEPT ![r] = v],
           \A t \in Reqs \ {r} : /\ at'[t] = at[t] /\ out'[t] = out[t]
                                 /\ \A n \in Nodes : <<n, t>> \in pending' <=> <<n, t>> \in pending,
           v \in {"new", "generate"} => at'[r]["prefill"] = NoNode,
           v \in {"new", "prefill", "generate"} => out'[r] = 0,
           v \in {"prefilled", "reserve", "transfer", "trigger", "decode"} => out'[r] = 1,
           v = "done" =>
               LET phases == IF at'[r]["prefill"] = NoNode THEN 1 ELSE 2
               IN  out'[r] <= limit \/ (limit < phases /\ out'[r] = phases),
           \A n \in Nodes : <<n, r>> \in pending' =>
                n = at'[r]["decode"] /\ v \in {"transfer", "trigger", "failed"}
    PROVE  OutInv' /\ OutputWithinMax' /\ ReservationOwned'
<1>1. \A t \in Reqs : pc'[t] = IF t = r THEN v ELSE pc[t]
  BY DEF TypeOK
<1>2. OutInv'
  BY <1>1 DEF OutInv
<1>3. OutputWithinMax'
  BY <1>1 DEF OutputWithinMax
<1>4. ReservationOwned'
  BY <1>1 DEF ReservationOwned
<1> QED
  BY <1>2, <1>3, <1>4

\* The steps of a request keep them.
LEMMA RequestHand ==
    ASSUME TypeOK, PlaceInv, OutInv, OutputWithinMax, ReservationOwned, NEW r \in Reqs,
           Request(r) \/ RpcError(r)
    PROVE  OutInv' /\ OutputWithinMax' /\ ReservationOwned'
<1> DEFINE Goal == OutInv' /\ OutputWithinMax' /\ ReservationOwned'
<1> USE DEF net, fixed, stats, held
<1>o. out[r] \in Nat /\ limit \in Nat
  BY RouterAssumption DEF TypeOK
<1>p. \A n \in Nodes : <<n, r>> \in pending =>
          n = at[r]["decode"] /\ pc[r] \in {"transfer", "trigger", "failed"}
  BY DEF ReservationOwned
<1>i. /\ pc[r] \in {"new", "generate"} => at[r]["prefill"] = NoNode
      /\ pc[r] \in {"new", "prefill", "generate"} => out[r] = 0
      /\ pc[r] \in {"prefilled", "reserve", "transfer", "trigger", "decode"} => out[r] = 1
  BY DEF OutInv
<1>t. \A k \in Nat : /\ [out EXCEPT ![r] = @ + k][r] = out[r] + k
                     /\ \A t \in Reqs \ {r} : [out EXCEPT ![r] = @ + k][t] = out[t]
  BY DEF TypeOK
<1>s. ASSUME NEW k \in Routers, NEW n \in Nodes, select(k, r, n)
      PROVE  \A t \in Reqs \ {r} : at'[t] = at[t]
  <2>1. at' = [at EXCEPT ![r] = [at[r] EXCEPT ![k] = n]]
    BY <1>s, SelectNode
  <2> QED
    BY <2>1 DEF TypeOK
<1>1. ASSUME NEW n \in Nodes, Route(r, n) PROVE Goal
  <2>1. FirstRouter \in Routers
    BY DEF FirstRouter, Routers
  <2>2. select(FirstRouter, r, n)
    BY <1>1 DEF Route
  <2>3. \A t \in Reqs \ {r} : at'[t] = at[t]
    BY <2>1, <2>2, <1>s
  <2>4. FirstRouter # "prefill" => at'[r]["prefill"] = NoNode
    <3>1. at' = [at EXCEPT ![r] = [at[r] EXCEPT ![FirstRouter] = n]]
      BY <2>1, <2>2, SelectNode
    <3>2. at'[r] = [at[r] EXCEPT ![FirstRouter] = n] /\ at[r] \in [Routers -> Nodes \union {NoNode}]
      BY <3>1 DEF TypeOK
    <3>3. at[r]["prefill"] = NoNode
      BY <1>1, <1>i DEF Route
    <3> QED
      BY <3>2, <3>3 DEF Routers
  <2> QED
    BY <1>1, <2>3, <2>4, <1>p, <1>i, OneRequest DEF Route
<1>2. CASE RouteFails(r)
  BY <1>2, <1>p, <1>i, OneRequest DEF RouteFails, SelectFails
<1>3. CASE PrefillDone(r)
  <2>1. out' = [out EXCEPT ![r] = @ + 1]
    BY <1>3 DEF PrefillDone, Generates
  <2>2. out'[r] = 1 /\ \A t \in Reqs \ {r} : out'[t] = out[t]
    BY <1>3, <2>1, <1>i, <1>t DEF PrefillDone
  <2> QED
    BY <1>3, <2>2, <1>p, OneRequest DEF PrefillDone
<1>4. ASSUME NEW k \in 1..(MaxOutputLen + 1), GenerateDone(r, k) PROVE Goal
  <2>1. k = 1 \/ k \in 1..limit
    BY <1>4 DEF GenerateDone, Generates
  <2>2. k \in Nat /\ (k <= limit \/ (limit = 0 /\ k = 1))
    BY <2>1, <1>o
  <2>3. at[r]["prefill"] = NoNode
    BY <1>4, <1>i DEF GenerateDone
  <2>4. out'[r] <= limit \/ (limit < 1 /\ out'[r] = 1)
    BY <1>4, <2>2, <1>i, <1>o, <1>t DEF GenerateDone, Generates
  <2> QED
    BY <1>4, <2>2, <2>3, <2>4, <1>p, <1>i, <1>t, OneRequest DEF GenerateDone, Generates
<1>5. ASSUME NEW n \in Nodes, SelectDecode(r, n) PROVE Goal
  <2>1. \A t \in Reqs \ {r} : at'[t] = at[t]
    BY <1>5, <1>s DEF SelectDecode, Routers
  <2> QED
    BY <1>5, <2>1, <1>p, <1>i, OneRequest DEF SelectDecode
<1>6. CASE SelectDecodeFails(r)
  BY <1>6, <1>p, <1>i, OneRequest DEF SelectDecodeFails, SelectFails
<1>7. ASSUME NEW hashes \in BOOLEAN, ReserveDone(r, hashes) PROVE Goal
  BY <1>7, <1>p, <1>i, OneRequest DEF ReserveDone
<1>8. CASE TransferDone(r)
  BY <1>8, <1>p, <1>i, OneRequest DEF TransferDone
<1>9. CASE TriggerTask(r)
  <2>1. \A n \in Nodes : <<n, r>> \notin pending'
    BY <1>9, <1>p DEF TriggerTask
  <2>2. \A t \in Reqs \ {r}, n \in Nodes : <<n, t>> \in pending' <=> <<n, t>> \in pending
    BY <1>9 DEF TriggerTask
  <2> QED
    BY <1>9, <2>1, <2>2, <1>i, OneRequest DEF TriggerTask
<1>10. ASSUME NEW k \in 1..(MaxOutputLen + 1), DecodeDone(r, k) PROVE Goal
  <2>1. at[r]["prefill"] # NoNode
    <3>1. at[r]["prefill"] \in Elems(pool["prefill"])
      BY <1>10 DEF DecodeDone, PlaceInv, Prefilling
    <3>2. Elems(pool["prefill"]) \subseteq Nodes
      BY ElementOfSeq DEF Elems, TypeOK, Routers
    <3> QED
      BY <3>1, <3>2, RouterAssumption
  <2>2. k = 1 \/ k \in 1..(limit - 1)
    <3>1. k = 1 \/ k \in 1..DecodeLimit
      BY <1>10 DEF DecodeDone, Generates
    <3> QED
      BY <3>1, <1>o DEF DecodeLimit
  <2>3. k \in Nat /\ out'[r] = 1 + k
    BY <1>10, <1>i, <1>t DEF DecodeDone, Generates
  <2>4. out'[r] <= limit \/ (limit < 2 /\ out'[r] = 2)
    BY <2>2, <2>3, <1>o
  <2> QED
    BY <1>10, <2>1, <2>3, <2>4, <1>p, <1>i, <1>t, OneRequest DEF DecodeDone, Generates
<1>11. CASE RpcError(r)
  <2>1. \A n \in Nodes : <<n, r>> \in pending' => n = at[r]["decode"]
    BY <1>11, <1>p DEF RpcError
  <2>2. \A t \in Reqs \ {r}, n \in Nodes : <<n, t>> \in pending' <=> <<n, t>> \in pending
    BY <1>11 DEF RpcError
  <2> QED
    BY <1>11, <2>1, <2>2, <1>i, OneRequest DEF RpcError
<1> QED
  BY <1>1, <1>2, <1>3, <1>4, <1>5, <1>6, <1>7, <1>8, <1>9, <1>10, <1>11 DEF Request

\* And so does every step.
LEMMA HandCorrect == Spec => [](OutInv /\ OutputWithinMax /\ ReservationOwned)
<1> DEFINE I == OutInv /\ OutputWithinMax /\ ReservationOwned
<1>1. Init => I
  BY DEF Init, OutInv, OutputWithinMax, ReservationOwned, Routers
<1>2. TypeOK /\ PlaceInv /\ I /\ [Next]_vars => I'
  <2> SUFFICES ASSUME TypeOK, PlaceInv, OutInv, OutputWithinMax, ReservationOwned, [Next]_vars
               PROVE  OutInv' /\ OutputWithinMax' /\ ReservationOwned'
    OBVIOUS
  <2> USE DEF net, fixed, stats, held
  <2>1. CASE Start
    BY <2>1, SameRequests DEF Start, StartServer, AddNode, StartMonitor
  <2>2. CASE \E msg \in mail : ReceiveStats(msg)
    BY <2>2, SameRequests DEF ReceiveStats
  <2>3. CASE \E n \in Nodes, r \in Reqs : Admit(n, r)
    BY <2>3, SameRequests DEF Admit
  <2>4. CASE UNCHANGED vars
    BY <2>4, SameRequests DEF vars
  <2> QED
    BY <2>1, <2>2, <2>3, <2>4, RequestHand DEF Next
<1> QED
  BY <1>1, <1>2, PlaceCorrect, PTL DEF Spec

\* LlmRouter::forward sets a request aside at the node it selected and nowhere
\* else, and what is set aside is triggered or its request has failed.
THEOREM ReservationsOwned == Spec => []ReservationOwned
  BY HandCorrect, PTL

\* The split of max_output_len between prefill and decode phase keeps the
\* limit, for every limit that gives each phase a token.
THEOREM OutputIsWithinMax == Spec => []OutputWithinMax
  BY HandCorrect, PTL

-----------------------------------------------------------------------------
(* Round-robin *)

\* The servers are connected in the order of their addresses, so that none is
\* twice in a router; nothing is selected before all are.
OrderInv ==
    /\ IsFiniteSet(Connected) /\ Cardinality(Connected) \in 0..Len(Addresses)
    /\ Connected = {Addresses[i] : i \in 1..Cardinality(Connected)}
    /\ \A k \in Routers : \A i, j \in 1..Len(pool[k]) : pool[k][i] = pool[k][j] => i = j
    /\ ~Serving => \A k \in Routers : log[k] = <<>>

\* The deque of a round-robin router remembers the last turns: its first node
\* is the one selected last, its second the one before, and so on.
TurnInv ==
    \A k \in Routers :
        policy[k] = "RoundRobin" =>
            \A i \in 1..Len(pool[k]) :
                i <= Len(log[k]) => log[k][Len(log[k]) + 1 - i] = pool[k][i]

\* A new node is not yet in a router.
LEMMA AddTurn ==
    ASSUME TypeOK, OrderInv, TurnInv, TakesTurns, NEW n \in Nodes, ~Serving, AddNode(n)
    PROVE  OrderInv' /\ TurnInv' /\ TakesTurns'
<1> DEFINE k == IF kind[n] = "Prefill" THEN "prefill" ELSE "decode"
           c == Cardinality(Connected)
<1>1. k \in Routers /\ pool[k] \in Seq(Nodes)
  BY DEF Routers, TypeOK
<1>2. pool' = [pool EXCEPT ![k] = Append(pool[k], n)]
  BY DEF AddNode
<1>3. Elems(Append(pool[k], n)) = Elems(pool[k]) \union {n}
  BY <1>1, ElemsAppend
<1>4. Connected' = Connected \union {n}
  <2>1. \A j \in Routers : Elems(pool'[j]) = IF j = k THEN Elems(pool[j]) \union {n} ELSE Elems(pool[j])
    BY <1>1, <1>2, <1>3 DEF TypeOK
  <2>2. "prefill" \in Routers /\ "decode" \in Routers
    BY DEF Routers
  <2> QED
    BY <2>1, <2>2, <1>1 DEF Connected
<1>5. c \in Nat /\ c < Len(Addresses) /\ Len(Addresses) \in Nat
  <2>1. c # Len(Addresses)
    BY DEF OrderInv, Serving, Nodes, Elems
  <2>2. Len(Addresses) \in Nat
    BY RouterAssumption, LenProperties
  <2> QED
    BY <2>1, <2>2 DEF OrderInv
<1>6. n = Addresses[c + 1] /\ c + 1 \in 1..Len(Addresses)
  BY <1>5 DEF AddNode
<1>7. n \notin Connected
  <2>1. \A i \in 1..c : i \in 1..Len(Addresses) /\ i # c + 1
    BY <1>5
  <2>2. \A i \in 1..c : Addresses[i] # n
    BY <2>1, <1>6, RouterAssumption
  <2> QED
    BY <2>2 DEF OrderInv
<1>8. IsFiniteSet(Connected') /\ Cardinality(Connected') = c + 1
  BY <1>4, <1>7, FS_AddElement DEF OrderInv
<1>9. Connected' = {Addresses[i] : i \in 1..(c + 1)}
  <2>1. \A i : i \in 1..(c + 1) <=> i \in 1..c \/ i = c + 1
    BY <1>5
  <2> HIDE DEF c
  <2>2. {Addresses[i] : i \in 1..(c + 1)} = {Addresses[i] : i \in 1..c} \union {Addresses[c + 1]}
    BY <2>1, Zenon
  <2>3. Connected = {Addresses[i] : i \in 1..c}
    BY DEF OrderInv, c
  <2> QED
    BY <2>2, <2>3, <1>4, <1>6
<1>10. \A l \in Routers : log'[l] = <<>>
  BY DEF AddNode, OrderInv
<1>11. ASSUME NEW l \in Routers, NEW i \in 1..Len(pool'[l]), NEW j \in 1..Len(pool'[l]),
              pool'[l][i] = pool'[l][j]
       PROVE  i = j
  <2>1. CASE l # k
    <3>1. pool'[l] = pool[l]
      BY <2>1, <1>1, <1>2 DEF TypeOK
    <3> QED
      BY <3>1, <1>11 DEF OrderInv
  <2>2. CASE l = k
    <3> DEFINE q == pool[k]
    <3>1. pool'[l] = Append(q, n)
      BY <2>2, <1>1, <1>2 DEF TypeOK
    <3>2. /\ Len(q) \in Nat
          /\ Len(Append(q, n)) = Len(q) + 1
          /\ \A m \in 1..Len(q) : Append(q, n)[m] = q[m]
          /\ Append(q, n)[Len(q) + 1] = n
      BY <1>1, AppendProperties, LenProperties
    <3>3. \A m \in 1..Len(q) : q[m] # n
      <4>1. \A m \in 1..Len(q) : q[m] \in Elems(q)
        BY DEF Elems
      <4>2. Elems(q) \subseteq Connected
        BY <1>1 DEF Connected, Routers
      <4> QED
        BY <4>1, <4>2, <1>7
    <3>4. \A a, b \in 1..Len(q) : q[a] = q[b] => a = b
      BY <1>1 DEF OrderInv
    <3> HIDE DEF q
    <3>5. i \in 1..(Len(q) + 1) /\ j \in 1..(Len(q) + 1)
      BY <3>1, <3>2
    <3>6. (i \in 1..Len(q) \/ i = Len(q) + 1) /\ (j \in 1..Len(q) \/ j = Len(q) + 1)
      BY <3>5, <3>2
    <3> QED
      BY <3>1, <3>2, <3>3, <3>4, <3>6, <1>11
  <2> QED
    BY <2>1, <2>2
<1>12. OrderInv'
  <2>1. Cardinality(Connected') \in 0..Len(Addresses)
    BY <1>5, <1>8
  <2>2. Connected' = {Addresses[i] : i \in 1..Cardinality(Connected')}
    BY <1>8, <1>9
  <2> QED
    BY <2>1, <2>2, <1>8, <1>10, <1>11 DEF OrderInv
<1>13. TurnInv'
  BY <1>10, EmptySeq DEF TurnInv
<1>14. TakesTurns'
  BY <1>10, EmptySeq DEF TakesTurns
<1> QED
  BY <1>12, <1>13, <1>14

\* A selection by round-robin takes the node whose last turn is longest ago.
LEMMA SelectTurn ==
    ASSUME TypeOK, OrderInv, TurnInv, TakesTurns, Serving, policy' = policy,
           NEW k \in Routers, NEW r \in Reqs, NEW n \in Nodes, select(k, r, n)
    PROVE  OrderInv' /\ TurnInv' /\ TakesTurns'
<1> DEFINE q == pool[k]
           p == pool'[k]
           g == log[k]
           h == log'[k]
           L == Len(q)
           m == Len(g)
<1>1. /\ pool' \in [Routers -> Seq(Nodes)]
      /\ \A j \in Routers : Elems(pool'[j]) = Elems(pool[j])
      /\ log' \in [Routers -> Seq(Nodes)]
  BY SelectNode
<1>2. Connected' = Connected
  BY <1>1 DEF Connected, Routers
<1>3. q \in Seq(Nodes) /\ g \in Seq(Nodes) /\ L \in Nat /\ m \in Nat
  BY LenProperties DEF TypeOK
<1>4. /\ h = Append(g, n)
      /\ \A j \in Routers \ {k} : pool'[j] = pool[j] /\ log'[j] = log[j]
  BY DEF select, AfterSelect, TypeOK
<1>5. Len(h) = m + 1 /\ h[m + 1] = n /\ \A i \in 1..m : h[i] = g[i]
  BY <1>3, <1>4, AppendProperties
<1>6. CASE policy[k] # "RoundRobin"
  <2>1. pool' = pool
    BY <1>6 DEF select, AfterSelect, TypeOK
  <2>2. OrderInv'
    BY <2>1, <1>2 DEF OrderInv, Serving
  <2>3. TurnInv'
    BY <1>4, <1>6, <2>1 DEF TurnInv
  <2>4. TakesTurns'
    <3> SUFFICES ASSUME NEW j \in Routers, policy[j] = "RoundRobin",
                        NEW i \in 1..Len(log'[j]), NEW l \in 1..Len(log'[j]),
                        i < l, log'[j][i] = log'[j][l]
                 PROVE  \A o \in Elems(pool'[j]) : \E w \in i..(l - 1) : log'[j][w] = o
      BY Zenon DEF TakesTurns
    <3>1. log'[j] = log[j]
      BY <1>4, <1>6
    <3>2. i \in 1..Len(log[j]) /\ l \in 1..Len(log[j]) /\ log[j][i] = log[j][l]
      BY <3>1
    <3>3. \A o \in Elems(pool[j]) : \E w \in i..(l - 1) : log[j][w] = o
      BY <3>2 DEF TakesTurns
    <3> QED
      BY <3>1, <3>3, <2>1
  <2> QED
    BY <2>2, <2>3, <2>4
<1>7. CASE policy[k] = "RoundRobin"
  <2>1. q # <<>> /\ p = rotate_right(q) /\ n = Head(rotate_right(q))
    BY <1>7 DEF select, NoSelection, Candidates, AfterSelect, TypeOK
  <2>2. /\ Len(p) = L
        /\ \A i \in 1..L : p[i] = IF i = 1 THEN q[L] ELSE q[i - 1]
        /\ n = q[L]
        /\ L # 0
    <3>1. q \in Seq(Nodes) /\ q # <<>>
      BY <1>3, <2>1
    <3>2. L # 0
      BY ONLY <3>1, EmptySeq
    <3>3. /\ Len(rotate_right(q)) = L
          /\ \A i \in 1..L : rotate_right(q)[i] = IF i = 1 THEN q[L] ELSE q[i - 1]
          /\ Head(rotate_right(q)) = q[L]
      BY ONLY <3>1, RotateRight
    <3> QED BY ONLY <2>1, <3>2, <3>3
  <2>3. \A i, j \in 1..L : q[i] = q[j] => i = j
    BY DEF OrderInv
  <2>4. \A i \in 1..L : i <= m => g[m + 1 - i] = q[i]
    BY <1>7 DEF TurnInv
  <2>5. \A i, j \in 1..m : i < j /\ g[i] = g[j] => \A o \in Elems(q) : \E l \in i..(j - 1) : g[l] = o
    BY <1>7 DEF TakesTurns
  <2>e. Elems(p) = Elems(q)
    BY <1>1
  <2>f. Elems(q) = {q[i] : i \in 1..L}
    BY DEF Elems
  <2> HIDE DEF q, p, g, h, L, m
  <2>6. \A i, j \in 1..L : p[i] = p[j] => i = j
    <3> SUFFICES ASSUME NEW i \in 1..L, NEW j \in 1..L, p[i] = p[j]
                 PROVE  i = j
      OBVIOUS
    <3> DEFINE a == IF i = 1 THEN L ELSE i - 1
               b == IF j = 1 THEN L ELSE j - 1
    <3>1. a \in 1..L /\ b \in 1..L
      BY <1>3, <2>2
    <3>2. p[i] = q[a] /\ p[j] = q[b]
      BY <2>2
    <3>3. a = b
      BY <3>1, <3>2, <2>3
    <3> QED
      BY <3>3, <1>3
  <2>7. \A i \in 1..L : i <= m + 1 => h[(m + 1) + 1 - i] = p[i]
    <3> SUFFICES ASSUME NEW i \in 1..L, i <= m + 1
                 PROVE  h[(m + 1) + 1 - i] = p[i]
      OBVIOUS
    <3>1. CASE i = 1
      BY <3>1, <1>3, <1>5, <2>2
    <3>2. CASE i # 1
      <4>1. i - 1 \in 1..L /\ i - 1 <= m /\ (m + 1) + 1 - i = m + 1 - (i - 1) /\ m + 1 - (i - 1) \in 1..m
        BY <3>2, <1>3
      <4>2. g[m + 1 - (i - 1)] = q[i - 1]
        BY <4>1, <2>4
      <4> QED
        BY <4>1, <4>2, <3>2, <1>5, <2>2
    <3> QED
      BY <3>1, <3>2
  <2>8. ASSUME NEW i \in 1..(m + 1), NEW j \in 1..(m + 1), i < j, h[i] = h[j], NEW o \in Elems(p)
        PROVE  \E l \in i..(j - 1) : h[l] = o
    <3>1. CASE j \in 1..m
      <4>1. i \in 1..m /\ g[i] = g[j]
        BY <3>1, <2>8, <1>3, <1>5
      <4>2. PICK l \in i..(j - 1) : g[l] = o
        BY <4>1, <3>1, <2>5, <2>8, <2>e
      <4>3. l \in 1..m
        BY <4>1, <4>2, <3>1, <1>3
      <4> QED
        BY <4>2, <4>3, <1>5
    <3>2. CASE j = m + 1
      <4>1. i \in 1..m /\ g[i] = q[L] /\ m + 1 - i \in 1..m
        BY <3>2, <2>8, <1>3, <1>5, <2>2
      <4>2. ~(m + 1 - i < L)
        <5> SUFFICES ASSUME m + 1 - i < L PROVE FALSE
          OBVIOUS
        <5>1. m + 1 - i \in 1..L /\ m + 1 - i <= m /\ m + 1 - (m + 1 - i) = i /\ L \in 1..L
          BY <4>1, <1>3, <2>2
        <5>2. g[i] = q[m + 1 - i]
          BY <5>1, <2>4
        <5>3. m + 1 - i = L
          BY <5>1, <5>2, <4>1, <2>3
        <5> QED
          BY <5>3, <1>3
      <4>3. PICK w \in 1..L : o = q[w]
        BY <2>8, <2>e, <2>f
      <4>4. w <= m /\ m + 1 - w \in i..(j - 1) /\ m + 1 - w \in 1..m
        BY <4>1, <4>2, <3>2, <1>3
      <4> QED
        BY <4>3, <4>4, <2>4, <1>5
    <3> QED
      BY <3>1, <3>2, <1>3
  <2>9. OrderInv'
    <3>1. ASSUME NEW j \in Routers
          PROVE  \A i, l \in 1..Len(pool'[j]) : pool'[j][i] = pool'[j][l] => i = l
      <4>1. CASE j = k
        BY <4>1, <2>6, <2>2 DEF p
      <4>2. CASE j # k
        <5>1. pool'[j] = pool[j]
          BY <4>2, <1>4
        <5> QED
          BY <5>1 DEF OrderInv
      <4> QED
        BY <4>1, <4>2
    <3> QED
      BY <3>1, <1>2 DEF OrderInv, Serving
  <2>10. TurnInv'
    <3> SUFFICES ASSUME NEW j \in Routers, policy[j] = "RoundRobin",
                        NEW i \in 1..Len(pool'[j]), i <= Len(log'[j])
                 PROVE  log'[j][Len(log'[j]) + 1 - i] = pool'[j][i]
      BY DEF TurnInv
    <3>1. CASE j = k
      BY <3>1, <2>7, <2>2, <1>5 DEF p, h
    <3>2. CASE j # k
      <4>1. pool'[j] = pool[j] /\ log'[j] = log[j]
        BY <3>2, <1>4
      <4> QED
        BY <4>1 DEF TurnInv
    <3> QED
      BY <3>1, <3>2
  <2>11. TakesTurns'
    <3> SUFFICES ASSUME NEW j \in Routers, policy[j] = "RoundRobin",
                        NEW i \in 1..Len(log'[j]), NEW l \in 1..Len(log'[j]),
                        i < l, log'[j][i] = log'[j][l], NEW o \in Elems(pool'[j])
                 PROVE  \E w \in i..(l - 1) : log'[j][w] = o
      BY Zenon DEF TakesTurns
    <3>1. CASE j = k
      BY <3>1, <2>8, <1>5 DEF p, h
    <3>2. CASE j # k
      <4>1. pool'[j] = pool[j] /\ log'[j] = log[j]
        BY <3>2, <1>4
      <4>2. /\ i \in 1..Len(log[j]) /\ l \in 1..Len(log[j])
            /\ log[j][i] = log[j][l] /\ o \in Elems(pool[j])
        BY <4>1
      <4>3. \E w \in i..(l - 1) : log[j][w] = o
        BY <4>2 DEF TakesTurns
      <4> QED
        BY <4>1, <4>3
    <3> QED
      BY <3>1, <3>2
  <2> QED
    BY <2>9, <2>10, <2>11
<1> QED
  BY <1>6, <1>7

\* Round-robin takes turns, for any number of servers of any kinds and however
\* the requests of the two routers interleave.
THEOREM RoundRobinTakesTurns == Spec => []TakesTurns
<1> DEFINE I == OrderInv /\ TurnInv /\ TakesTurns
<1>1. Init => I
  <2> SUFFICES ASSUME Init PROVE I
    OBVIOUS
  <2>1. \A k \in Routers : pool[k] = <<>> /\ log[k] = <<>> /\ Len(log[k]) = 0 /\ Len(pool[k]) = 0
    BY EmptySeq DEF Init
  <2>2. Connected = {}
    BY <2>1 DEF Connected, Elems, Routers
  <2>3. Len(Addresses) \in Nat
    BY RouterAssumption, LenProperties
  <2>4. OrderInv
    BY <2>1, <2>2, <2>3, FS_EmptySet DEF OrderInv
  <2> QED
    BY <2>1, <2>4 DEF TurnInv, TakesTurns
<1>2. TypeOK /\ PlaceInv /\ I /\ [Next]_vars => I'
  <2> SUFFICES ASSUME TypeOK, PlaceInv, OrderInv, TurnInv, TakesTurns, [Next]_vars
               PROVE  OrderInv' /\ TurnInv' /\ TakesTurns'
    OBVIOUS
  <2>1. CASE \E n \in Nodes : ~Serving /\ AddNode(n)
    BY <2>1, AddTurn
  <2>2. CASE /\ Serving
             /\ UNCHANGED <<kind, policy, knows>>
             /\ \E k \in Routers, r \in Reqs, n \in Nodes : select(k, r, n)
    BY <2>2, SelectTurn
  <2>3. CASE UNCHANGED <<kind, policy, knows, pool, log>>
    <3>1. Connected' = Connected /\ (Serving' <=> Serving)
      BY <2>3 DEF Connected, Serving
    <3>2. OrderInv'
      BY <2>3, <3>1 DEF OrderInv
    <3>3. TurnInv' /\ TakesTurns'
      BY <2>3 DEF TurnInv, TakesTurns
    <3> QED
      BY <3>2, <3>3
  <2> QED
    BY <2>1, <2>2, <2>3, NextPool
<1> QED
  BY <1>1, <1>2, PlaceCorrect, PTL DEF Spec
=============================================================================
