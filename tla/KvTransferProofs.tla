-------------------------- MODULE KvTransferProofs --------------------------
(***************************************************************************)
(* What the hand-over of a request keeps, for any requests, pools, ranks,  *)
(* prompts and failures: once every request is over, only the regions of   *)
(* requests whose calls failed stay held (NothingHeld), and what the host  *)
(* caches serve is what their labels say unless the block is in doubt      *)
(* (ServedSound).                                                          *)
(*                                                                         *)
(* Truth is what ServedSound says of all labelled blocks, not only of      *)
(* those a cache serves.  It is kept because a block is written by one     *)
(* owner at a time: the task that took it from the free list (Own), or the *)
(* transfer into the region that reserved it.  Both have it in doubt until *)
(* they are done.                                                          *)
(***************************************************************************)
EXTENDS KvTransfer, BlockOpsProofs

Phases == {"New", "Queued", "Prefilling", "Prefilled", "Reserved", "Pushing", "Pushed",
           "Triggered", "Decoding", "Done", "Failed", "Abandoned", "Panicked"}

\* The tokens of every sequence at node n.
Tokens(n) == [s \in Seqs |-> Total(n, s)]

\* The phases in which node n has the task: not yet admitted, or any.
Arriving(n) == IF n = "prefill" THEN "Queued" ELSE "Triggered"
Active(n) == IF n = "prefill" THEN {"Queued", "Prefilling"} ELSE {"Triggered", "Decoding"}

\* The phases in which the decode node has reserved blocks for a request, those
\* in which the prefill node has pinned some, those in which a rank has sent any.
Reserving == {"Reserved", "Pushing", "Pushed", "Abandoned", "Panicked"}
Pinning == {"Pushing", "Panicked"}
Sent == {"Pushing", "Pushed", "Abandoned", "Panicked"}

\* What the state is indexed by.
PerNode(f) == f = [n \in Nodes |-> f[n]]
PerSeq(f) == f = [s \in Seqs |-> f[s]]
OnRanks(h) == h = [r \in Ranks |-> h[r]]
PerRank(f) == f = [s \in Seqs |-> [r \in Ranks |-> f[s][r]]]
PerBlock(f, n) == f = [r \in Ranks |-> [b \in Blocks(NumOf[n]) |-> f[r][b]]]

Shape ==
    /\ phase \in [Seqs -> Phases]
    /\ PerNode(m) /\ PerNode(doubt) /\ PerNode(kv)
    /\ \A n \in Nodes : PerBlock(kv[n], n)
    /\ PerSeq(local) /\ PerSeq(remote) /\ PerSeq(suspect)
    /\ PerRank(sent) /\ PerRank(state)

\* The map of s on node n: it has one while the node has the task; what it
\* was given filled are whole blocks, and it has slots for all or for none of
\* the rest.
TaskOK(x, n, s, p) ==
    /\ x.map[s].live <=> p \in Active(n)
    /\ (x.map[s].filled \div BlockSize) * BlockSize = x.map[s].filled
    /\ x.map[s].slots = Total(n, s) \/ x.map[s].slots = BlockSize * Len(x.map[s].ids)
    /\ p = Arriving(n) => AllCached(x, s)

\* The blocks of s that it was not given filled.
Own(x, s) ==
    {x.map[s].ids[i] : i \in {j \in 1..Len(x.map[s].ids) : j * BlockSize > x.map[s].filled}}

\* They are in doubt and nobody else writes them.
OwnOK(x, n, d) ==
    \A s \in Seqs : \A b \in Own(x, s) :
        /\ b \in d
        /\ \A t \in Seqs : b \in Own(x, t) => t = s
        /\ n = "decode" => \A r \in Regions : b \notin Elems(x.resv[r])

\* A labelled block holds what the label says, unless it is in doubt.
Truth(x, n, k, d) ==
    \A b \in Blocks(NumOf[n]) :
        x.hash[b] # NoHash /\ b \notin d => \A r \in Ranks : k[r][b] = x.hash[b]

NodeInv(n) ==
    /\ Sound(m[n], NumOf[n], Tokens(n))
    /\ \A s \in Seqs : TaskOK(m[n], n, s, phase[s])
    /\ OwnOK(m[n], n, doubt[n])
    /\ Truth(m[n], n, kv[n], doubt[n])

\* What push_kv has pinned.
PinOK(s) ==
    /\ m["prefill"].resv[s] = IF phase[s] \in Pinning THEN local[s] ELSE <<>>
    /\ phase[s] = "Pushing" =>
          Len(local[s]) <= Len(remote[s]) /\ Labelled(m["prefill"], s, 0, local[s])

\* What reserve_request has reserved.
ReserveOK(s) ==
    /\ m["decode"].resv[s] = IF phase[s] \in Reserving THEN remote[s] ELSE <<>>
    /\ Len(m["decode"].resv[s]) <= NumFull
    /\ Labelled(m["decode"], s, 0, m["decode"].resv[s])
    /\ phase[s] = "Reserved" => remote[s] # <<>>
    /\ phase[s] \in {"Reserved", "Pushing"} => Elems(remote[s]) \subseteq doubt["decode"]
    /\ \A t \in Seqs : t # s =>
          Elems(m["decode"].resv[s]) \cap Elems(m["decode"].resv[t]) = {}

\* What the ranks have written: the KV of the label, if the source was not in
\* doubt.
SentOK(s) ==
    \A r \in Ranks :
        /\ sent[s][r] \in Nat
        /\ phase[s] \notin Sent => sent[s][r] = 0
        /\ phase[s] = "Pushing" =>
              /\ sent[s][r] <= Len(local[s])
              /\ state[s][r] = "PROC" => sent[s][r] < Len(local[s])
              /\ \A i \in 1..sent[s][r] :
                    i \notin suspect[s] => kv["decode"][r][remote[s][i]] = BlockHash[s][i]

TransferInv == \A s \in Seqs : PinOK(s) /\ ReserveOK(s) /\ SentOK(s)

IInv == Shape /\ NodeInv("prefill") /\ NodeInv("decode") /\ TransferInv

-----------------------------------------------------------------------------
(* Facts about the constants *)

\* Both nodes have a pool, and room for the tokens of every sequence.
LEMMA NodeFacts ==
  /\ Nodes = {"prefill", "decode"}
  /\ \A n \in Nodes : NumOf[n] \in Nat
  /\ \A n \in Nodes : Tokens(n) \in [Seqs -> 0..MaxLen]
  /\ \A n \in Nodes : \A s \in Seqs : Total(n, s) \in 1..MaxLen /\ Tokens(n)[s] = Total(n, s)
  /\ Regions = Seqs
<1>1. \A n \in Nodes : NumOf[n] \in Nat
  BY KvTransferAssumption DEF Nodes, NumOf
<1>2. \A n \in Nodes : \A s \in Seqs : Total(n, s) \in 1..MaxLen
  BY KvTransferAssumption, SizeAssumption DEF Total
<1>3. \A n \in Nodes : Tokens(n) \in [Seqs -> 0..MaxLen]
  BY <1>2, SizeAssumption DEF Tokens
<1> QED BY <1>1, <1>2, <1>3, KvTransferAssumption DEF Nodes, Tokens

\* A sequence that holds cached blocks only has written nothing.
LEMMA CachedOwns ==
  ASSUME NEW n \in Nat, NEW x \in Manager(n), NEW s \in Seqs, AllCached(x, s)
  PROVE  /\ Own(x, s) = {}
         /\ (x.map[s].filled \div BlockSize) * BlockSize = x.map[s].filled
<1> DEFINE L == Len(x.map[s].ids)
           f == x.map[s].filled
<1>1. L \in Nat
  BY MapFields
<1>2. f = BlockSize * L
  BY DEF AllCached
<1> HIDE DEF L, f
<1>3. f \in Nat /\ f = L * BlockSize
  BY ONLY <1>1, <1>2, SizeAssumption
<1>4. \A j \in 1..L : ~(j * BlockSize > f)
  <2> SUFFICES ASSUME NEW j \in 1..L PROVE j * BlockSize <= f
    BY <1>1, <1>3, SizeAssumption
  <2>1. CASE j = L
    BY <1>1, <1>3, <2>1, SizeAssumption
  <2>2. CASE j # L
    <3>1. j * BlockSize + BlockSize <= L * BlockSize
      BY <1>1, <2>2, MulMono
    <3> QED BY <1>1, <1>3, <3>1, SizeAssumption
  <2> QED BY <2>1, <2>2
<1>5. f \div BlockSize = L
  <2>1. L * BlockSize <= f <=> L <= f \div BlockSize
    BY <1>1, <1>3, FullBlocks
  <2>2. (L + 1) * BlockSize <= f <=> L + 1 <= f \div BlockSize
    BY <1>1, <1>3, FullBlocks
  <2>3. f \div BlockSize \in Nat
    BY <1>3, DivBounds
  <2>4. ~((L + 1) * BlockSize <= f)
    BY ONLY <1>1, <1>3, SizeAssumption
  <2>5. L * BlockSize <= f
    BY ONLY <1>1, <1>3, SizeAssumption
  <2> QED BY ONLY <1>1, <2>1, <2>2, <2>3, <2>4, <2>5
<1>6. (f \div BlockSize) * BlockSize = f
  BY ONLY <1>3, <1>5
<1>7. Own(x, s) = {}
  BY ONLY <1>4 DEF Own, L, f
<1> QED BY <1>6, <1>7 DEF f

\* Own depends on the map of s only.
LEMMA OwnSame ==
  ASSUME NEW x, NEW y, NEW s, y.map[s].ids = x.map[s].ids, y.map[s].filled = x.map[s].filled
  PROVE  Own(y, s) = Own(x, s)
BY DEF Own

\* A sequence with no map owns nothing.
LEMMA NoMapOwns ==
  ASSUME NEW x, NEW s, x.map[s] = NoMap
  PROVE  Own(x, s) = {} /\ (x.map[s].filled \div BlockSize) * BlockSize = x.map[s].filled
                        /\ x.map[s].slots = BlockSize * Len(x.map[s].ids)
<1>1. x.map[s].ids = <<>> /\ x.map[s].filled = 0 /\ x.map[s].slots = 0
  BY DEF NoMap
<1>2. Len(<<>>) = 0 /\ 1..0 = {}
  OBVIOUS
<1>3. (0 \div BlockSize) * BlockSize = 0 /\ BlockSize * 0 = 0
  BY SizeAssumption
<1> QED BY <1>1, <1>2, <1>3 DEF Own

-----------------------------------------------------------------------------
(* What a step leaves alone *)

\* Only request s moves on.
Moves(s, p) == phase' = [phase EXCEPT ![s] = p]

\* The phases then.
LEMMA MovesPhase ==
  ASSUME Shape, NEW s \in Seqs, NEW p, Moves(s, p)
  PROVE  /\ phase'[s] = p /\ (p \in Phases => phase' \in [Seqs -> Phases])
         /\ \A t \in Seqs : t # s => phase'[t] = phase[t]
BY DEF Shape, Moves

\* One manager changes.
LEMMA OneManager ==
  ASSUME Shape, NEW n \in Nodes, NEW y, m' = [m EXCEPT ![n] = y]
  PROVE  /\ m'[n] = y /\ PerNode(m')
         /\ \A k \in Nodes : k # n => m'[k] = m[k]
BY DEF Shape, PerNode

\* Nothing of the node changes, and the request does not come or go.
LEMMA SameNode ==
  ASSUME Shape, NEW n, NodeInv(n), NEW s \in Seqs, NEW p, Moves(s, p),
         m'[n] = m[n], kv'[n] = kv[n], doubt'[n] = doubt[n],
         p \in Active(n) <=> phase[s] \in Active(n), p # Arriving(n)
  PROVE  NodeInv(n)'
<1>1. phase'[s] = p /\ \A t \in Seqs : t # s => phase'[t] = phase[t]
  BY MovesPhase
<1>2. ASSUME NEW t \in Seqs PROVE TaskOK(m'[n], n, t, phase'[t])
  <2>1. TaskOK(m[n], n, t, phase[t])
    BY DEF NodeInv
  <2>2. CASE t = s
    BY <1>1, <2>1, <2>2 DEF TaskOK
  <2>3. CASE t # s
    BY <1>1, <2>1, <2>3
  <2> QED BY <2>2, <2>3
<1> QED BY <1>2 DEF NodeInv

\* s has got blocks that were labelled before, and no region has got any.
OnlyHits(x, y, s) ==
    /\ y.hash = x.hash /\ \A t \in Seqs : t # s => y.map[t] = x.map[t]
    /\ \A q \in Regions : Elems(y.resv[q]) \subseteq Elems(x.resv[q])

\* s has got cached blocks on node n.
LEMMA ArrivesNode ==
  ASSUME Shape, NEW n \in Nodes, NodeInv(n), NEW s \in Seqs, Moves(s, Arriving(n)),
         Sound(m'[n], NumOf[n], Tokens(n)), OnlyHits(m[n], m'[n], s),
         AllCached(m'[n], s), m'[n].map[s].live,
         kv'[n] = kv[n], doubt'[n] = doubt[n]
  PROVE  NodeInv(n)'
<1> DEFINE x == m[n]
           y == m'[n]
<1>1. phase'[s] = Arriving(n) /\ \A t \in Seqs : t # s => phase'[t] = phase[t]
  BY MovesPhase
<1>2. y \in Manager(NumOf[n]) /\ NumOf[n] \in Nat
  BY NodeFacts DEF Sound
<1>3. /\ Own(y, s) = {} /\ (y.map[s].filled \div BlockSize) * BlockSize = y.map[s].filled
  BY <1>2, CachedOwns
<1>4. /\ y.hash = x.hash /\ \A q \in Regions : Elems(y.resv[q]) \subseteq Elems(x.resv[q])
      /\ \A t \in Seqs : t # s => y.map[t] = x.map[t]
  BY DEF OnlyHits
<1>5. Arriving(n) \in Active(n)
  BY DEF Arriving, Active
<1>6. ASSUME NEW t \in Seqs PROVE TaskOK(y, n, t, phase'[t])
  <2>1. CASE t = s
    BY <1>1, <1>3, <1>5, <2>1 DEF TaskOK, AllCached
  <2>2. CASE t # s
    <3>1. TaskOK(x, n, t, phase[t])
      BY DEF NodeInv
    <3> HIDE DEF x, y
    <3> QED BY ONLY <1>1, <1>4, <2>2, <3>1, t \in Seqs DEF TaskOK, AllCached
  <2> QED BY <2>1, <2>2
<1>7. \A t \in Seqs : t # s => Own(y, t) = Own(x, t)
  BY <1>4, OwnSame
<1>8. OwnOK(y, n, doubt'[n])
  <2>1. OwnOK(x, n, doubt[n])
    BY DEF NodeInv
  <2> HIDE DEF x, y
  <2> QED BY <1>3, <1>4, <1>7, <2>1 DEF OwnOK
<1>9. Truth(y, n, kv'[n], doubt'[n])
  BY <1>4 DEF NodeInv, Truth
<1> QED BY <1>6, <1>8, <1>9 DEF NodeInv

\* Labels are kept with the labels of the blocks.
LEMMA LabelledSame ==
  ASSUME NEW x, NEW y, NEW s, NEW j, NEW ids, Labelled(x, s, j, ids),
         \A b \in Elems(ids) : y.hash[b] = x.hash[b]
  PROVE  Labelled(y, s, j, ids)
BY DEF Labelled, Elems

\* The transfers do not notice a step of a request that has no region.
LEMMA TransferKept ==
  ASSUME Shape, TransferInv, NEW s \in Seqs, NEW p, Moves(s, p),
         p \notin Reserving, phase[s] \notin Reserving,
         UNCHANGED <<local, remote, sent, state, suspect>>,
         \A n \in Nodes : /\ m'[n].resv = m[n].resv
                          /\ \A q \in Regions : \A b \in Elems(m[n].resv[q]) :
                                m'[n].hash[b] = m[n].hash[b],
         \A q \in Regions : \A b \in Elems(m["decode"].resv[q]) :
            /\ b \in doubt["decode"] => b \in doubt'["decode"]
            /\ \A r \in Ranks : kv'["decode"][r][b] = kv["decode"][r][b]
  PROVE  TransferInv'
<1>0. "prefill" \in Nodes /\ "decode" \in Nodes /\ Regions = Seqs
  BY NodeFacts
<1>1. phase'[s] = p /\ \A t \in Seqs : t # s => phase'[t] = phase[t]
  BY MovesPhase
<1>2. /\ p # "Pushing" /\ p # "Reserved" /\ p \notin Pinning /\ p \notin Sent
      /\ phase[s] # "Pushing" /\ phase[s] # "Reserved" /\ phase[s] \notin Pinning
      /\ phase[s] \notin Sent
  BY DEF Reserving, Pinning, Sent
<1>3. /\ m'["prefill"].resv = m["prefill"].resv /\ m'["decode"].resv = m["decode"].resv
      /\ \A q \in Seqs : \A b \in Elems(m["prefill"].resv[q]) :
            m'["prefill"].hash[b] = m["prefill"].hash[b]
      /\ \A q \in Seqs : \A b \in Elems(m["decode"].resv[q]) :
            m'["decode"].hash[b] = m["decode"].hash[b]
  BY <1>0
<1> SUFFICES ASSUME NEW t \in Seqs PROVE (PinOK(t) /\ ReserveOK(t) /\ SentOK(t))'
  BY DEF TransferInv
<1>4. PinOK(t) /\ ReserveOK(t) /\ SentOK(t)
  BY DEF TransferInv
<1>5. /\ phase[t] \in Reserving <=> phase'[t] \in Reserving
      /\ \A c \in Reserving : phase[t] = c <=> phase'[t] = c
  BY <1>1, <1>2 DEF Reserving
<1>6. /\ phase[t] = "Pushing" <=> phase'[t] = "Pushing"
      /\ phase[t] = "Reserved" <=> phase'[t] = "Reserved"
      /\ phase[t] \in Pinning <=> phase'[t] \in Pinning
      /\ phase[t] \in Sent <=> phase'[t] \in Sent
  BY <1>1, <1>2, <1>5 DEF Reserving, Pinning, Sent
<1>7. PinOK(t)'
  <2>1. phase[t] = "Pushing" => Labelled(m'["prefill"], t, 0, local[t])
    <3> SUFFICES ASSUME phase[t] = "Pushing" PROVE Labelled(m'["prefill"], t, 0, local[t])
      OBVIOUS
    <3>1. Labelled(m["prefill"], t, 0, local[t]) /\ m["prefill"].resv[t] = local[t]
      BY <1>4 DEF PinOK, Pinning
    <3>2. \A b \in Elems(local[t]) : m'["prefill"].hash[b] = m["prefill"].hash[b]
      BY <1>3, <3>1
    <3> QED BY ONLY <3>1, <3>2, LabelledSame
  <2> QED BY <1>3, <1>4, <1>6, <2>1 DEF PinOK
<1>8. ReserveOK(t)'
  <2>1. Labelled(m'["decode"], t, 0, m'["decode"].resv[t])
    <3>1. Labelled(m["decode"], t, 0, m["decode"].resv[t])
      BY <1>4 DEF ReserveOK
    <3>2. \A b \in Elems(m["decode"].resv[t]) : m'["decode"].hash[b] = m["decode"].hash[b]
      BY <1>3
    <3>3. Labelled(m'["decode"], t, 0, m["decode"].resv[t])
      BY ONLY <3>1, <3>2, LabelledSame
    <3> QED BY <1>3, <3>3
  <2>2. phase'[t] \in {"Reserved", "Pushing"} => Elems(remote[t]) \subseteq doubt'["decode"]
    <3> SUFFICES ASSUME phase[t] \in {"Reserved", "Pushing"}
                 PROVE  Elems(remote[t]) \subseteq doubt'["decode"]
      BY <1>6
    <3>1. m["decode"].resv[t] = remote[t] /\ Elems(remote[t]) \subseteq doubt["decode"]
      BY <1>4 DEF ReserveOK, Reserving
    <3> QED BY <1>0, <3>1
  <2> QED BY <1>3, <1>4, <1>5, <1>6, <2>1, <2>2 DEF ReserveOK
<1>9. SentOK(t)'
  <2>1. ASSUME phase[t] = "Pushing", NEW r \in Ranks, NEW i \in 1..sent[t][r]
        PROVE  kv'["decode"][r][remote[t][i]] = kv["decode"][r][remote[t][i]]
    <3>1. m["decode"].resv[t] = remote[t] /\ Len(local[t]) <= Len(remote[t])
      BY <1>4, <2>1 DEF ReserveOK, Reserving, PinOK, Pinning
    <3>2. sent[t][r] \in Nat /\ sent[t][r] <= Len(local[t])
      BY <1>4, <2>1 DEF SentOK, Sent
    <3>3. Len(local[t]) \in Nat /\ Len(remote[t]) \in Nat
      BY <1>4, <2>1, <3>1 DEF PinOK, Pinning
    <3>4. remote[t][i] \in Elems(remote[t])
      BY <3>1, <3>2, <3>3 DEF Elems
    <3> QED BY <1>0, <3>1, <3>4
  <2> QED BY <1>4, <1>6, <2>1 DEF SentOK
<1> QED BY <1>7, <1>8, <1>9

\* Shape after a step that moves one request on.
LEMMA ShapeKept ==
  ASSUME Shape, NEW s \in Seqs, NEW p \in Phases, Moves(s, p),
         PerNode(m'), PerNode(doubt'), PerNode(kv'), \A n \in Nodes : PerBlock(kv'[n], n),
         PerSeq(local'), PerSeq(remote'), PerSeq(suspect'), PerRank(sent'), PerRank(state')
  PROVE  Shape'
BY MovesPhase DEF Shape

-----------------------------------------------------------------------------
(* A task on one node *)

\* add_request takes the prefix hits of s.
LEMMA AddStep ==
  ASSUME IInv, NEW s \in Seqs, AddRequest(s)
  PROVE  IInv'
<1> DEFINE x == m["prefill"]
           y == init_prefix_cache_blocks(x, s, PromptLen[s])
<1>0. /\ "prefill" \in Nodes /\ "decode" \in Nodes /\ NumOf["prefill"] \in Nat
      /\ Tokens("prefill") \in [Seqs -> 0..MaxLen] /\ Tokens("prefill")[s] = PromptLen[s]
      /\ Regions = Seqs
  BY NodeFacts DEF Total
<1>1. Shape /\ NodeInv("prefill") /\ NodeInv("decode") /\ TransferInv
  BY DEF IInv
<1>2. /\ phase[s] = "New" /\ m' = [m EXCEPT !["prefill"] = y] /\ Moves(s, "Queued")
      /\ UNCHANGED <<kv, doubt, local, remote, sent, state, suspect>>
  BY DEF AddRequest, history, transfer, Moves
<1>3. ~x.map[s].live /\ Sound(x, NumOf["prefill"], Tokens("prefill"))
  BY <1>1, <1>2 DEF NodeInv, TaskOK, Active
<1>4. /\ m'["prefill"] = y /\ PerNode(m') /\ m'["decode"] = m["decode"]
  BY <1>0, <1>1, <1>2, OneManager
<1>5. /\ Sound(y, NumOf["prefill"], Tokens("prefill")) /\ y.map[s].live
      /\ OnlyMap(x, y, s) /\ AllCached(y, s)
  BY <1>0, <1>3, InitSound
<1> HIDE DEF y
<1>6. NodeInv("prefill")'
  <2>1. Moves(s, Arriving("prefill"))
    BY <1>2 DEF Arriving
  <2>2. OnlyHits(x, y, s)
    BY <1>5 DEF OnlyMap, OnlyHits
  <2> QED BY <1>0, <1>1, <1>2, <1>4, <1>5, <2>1, <2>2, ArrivesNode
<1>7. NodeInv("decode")'
  <2>1. /\ "Queued" \notin Active("decode") /\ phase[s] \notin Active("decode")
        /\ "Queued" # Arriving("decode")
    BY <1>2 DEF Active, Arriving
  <2> QED BY <1>1, <1>2, <1>4, <2>1, SameNode
<1>8. TransferInv'
  <2>1. "Queued" \notin Reserving /\ phase[s] \notin Reserving
    BY <1>2 DEF Reserving
  <2>2. \A n \in Nodes : m'[n].resv = m[n].resv /\ m'[n].hash = m[n].hash
    BY <1>4, <1>5 DEF OnlyMap, Nodes
  <2> QED BY <1>1, <1>2, <2>1, <2>2, TransferKept
<1>9. Shape'
  <2>1. "Queued" \in Phases
    BY DEF Phases
  <2> QED BY <1>1, <1>2, <1>4, <2>1, ShapeKept DEF Shape
<1> QED BY <1>6, <1>7, <1>8, <1>9 DEF IInv

\* What a node shows of a step: the regions keep their blocks and labels.
RegionsKept(x, y) ==
    /\ y.resv = x.resv
    /\ \A q \in Regions : \A b \in Elems(x.resv[q]) : y.hash[b] = x.hash[b]

\* Own blocks are blocks of the map.
LEMMA OwnHeld ==
  ASSUME NEW x, NEW s
  PROVE  Own(x, s) \subseteq Elems(x.map[s].ids)
BY DEF Own, Elems

\* The blocks a region holds are blocks of the pool.
LEMMA RegionBlocks ==
  ASSUME NEW n \in Nat, NEW x \in Manager(n), NEW q \in Regions
  PROVE  x.resv[q] \in Seq(Blocks(n)) /\ Elems(x.resv[q]) \subseteq Blocks(n)
<1>1. x.resv[q] \in Seq(Blocks(n))
  BY ManagerFields
<1> QED BY <1>1 DEF Elems

\* try_extend_infer_task gives s the blocks of new, which nobody held.
Extended(x, y, n, s, total, new) ==
    /\ Relabelled(x, y, n, new)
    /\ y.resv = x.resv /\ \A t \in Seqs : t # s => y.map[t] = x.map[t]
    /\ y.map[s] = [live |-> TRUE, ids |-> x.map[s].ids \o new, slots |-> total,
                   filled |-> x.map[s].filled]

\* After the admission check there are enough of them.
LEMMA ExtendEffect ==
  ASSUME NEW n \in Nat, NEW tl \in [Seqs -> 0..MaxLen], NEW x, Sound(x, n, tl), NEW s \in Seqs,
         AllCached(x, s), x.map[s].live, can_alloc_seq(x, s, tl[s], 100),
         NEW y, y = alloc_blocks(x, s, tl[s])
  PROVE  Sound(y, n, tl) /\ \E new : Extended(x, y, n, s, tl[s], new)
<1> DEFINE slots == x.map[s].slots
           total == tl[s]
           L == Len(x.map[s].ids)
           k == CeilDiv(total - slots, BlockSize)
           new == Popped(x, k)
<1>0. x \in Manager(n) /\ MapOK(x, s, total) /\ total \in 0..MaxLen /\ total \in Nat
  BY SizeAssumption DEF Sound
<1>1. slots \in Nat /\ L \in Nat /\ slots = L * BlockSize /\ slots <= total
  <2>1. slots \in 0..MaxLen /\ L \in Nat /\ slots = BlockSize * L /\ slots <= total
    BY <1>0, MapFields DEF AllCached, MapOK
  <2> HIDE DEF slots, L
  <2> QED BY <2>1, SizeAssumption
<1>2. Sound(y, n, tl)
  <2>1. 100 \in {97, 100}
    OBVIOUS
  <2> QED BY <2>1, AllocCall
<1>3. AllocatedFor(x, y, n, s, total, k, new)
  <2>1. k = CeilDiv(total - slots, BlockSize) /\ new = Popped(x, k)
    OBVIOUS
  <2> HIDE DEF k, new
  <2> QED BY <2>1, AllocEffect
<1>4. CeilDiv(total, BlockSize) - L <= Len(x.free)
  <2>1. 100 \in {97, 100}
    OBVIOUS
  <2> QED BY <1>0, <2>1, Admitted
<1>5. k \in Nat /\ k = CeilDiv(total, BlockSize) - L
  <2> HIDE DEF slots, L, total
  <2>1. total - slots \in Nat
    BY <1>0, <1>1
  <2>2. /\ k \in Nat /\ total - slots <= k * BlockSize
        /\ k * BlockSize < total - slots + BlockSize
    BY <2>1, CeilBounds
  <2> HIDE DEF k
  <2>3. /\ (L + k) * BlockSize = L * BlockSize + k * BlockSize /\ L + k \in Nat
        /\ L * BlockSize \in Nat /\ k * BlockSize \in Nat
    BY ONLY <1>1, <2>2, SizeAssumption
  <2>4. total <= (L + k) * BlockSize /\ (L + k) * BlockSize < total + BlockSize
    BY ONLY <1>0, <1>1, <2>2, <2>3, SizeAssumption
  <2>5. L + k = CeilDiv(total, BlockSize)
    BY ONLY <1>0, <2>3, <2>4, CeilUnique
  <2> QED BY ONLY <1>1, <2>2, <2>5
<1>6. ~Exhausts(x, k)
  <2>1. Len(x.free) \in Nat
    BY <1>0, ManagerFields
  <2> HIDE DEF k, L
  <2> QED BY <1>4, <1>5, <2>1 DEF Exhausts
<1> HIDE DEF k, new
<1>7. Extended(x, y, n, s, total, new)
  BY ONLY <1>3, <1>6 DEF AllocatedFor, Extended
<1> QED BY <1>2, <1>7

\* The blocks s gets are its own; those it held are all filled.
LEMMA ExtendedOwns ==
  ASSUME NEW n \in Nat, NEW x \in Manager(n), NEW y, NEW s \in Seqs, NEW total, NEW new,
         AllCached(x, s), Extended(x, y, n, s, total, new)
  PROVE  /\ Own(y, s) \subseteq Elems(new)
         /\ Elems(y.map[s].ids) = Elems(x.map[s].ids) \union Elems(new)
<1> DEFINE p == x.map[s].ids
           L == Len(p)
<1>1. p \in Seq(Blocks(n)) /\ L \in Nat /\ new \in Seq(Blocks(n))
  BY MapFields DEF Extended, Relabelled
<1>2. y.map[s].ids = p \o new /\ y.map[s].filled = BlockSize * L
  <2>1. y.map[s] = [live |-> TRUE, ids |-> p \o new, slots |-> total,
                    filled |-> x.map[s].filled]
    BY DEF Extended
  <2>2. x.map[s].filled = BlockSize * L
    BY DEF AllCached
  <2> HIDE DEF p, L
  <2> QED BY ONLY <2>1, <2>2
<1>3. /\ Len(p \o new) = L + Len(new)
      /\ \A i \in 1..Len(p \o new) :
            i \notin 1..L => i - L \in 1..Len(new) /\ (p \o new)[i] = new[i - L]
  BY <1>1, ConcatIndex
<1>4. Elems(p \o new) = Elems(p) \union Elems(new)
  BY <1>1, ConcatElems
<1>5. ASSUME NEW b \in Own(y, s) PROVE b \in Elems(new)
  <2>1. PICK i \in 1..Len(p \o new) : i * BlockSize > BlockSize * L /\ b = (p \o new)[i]
    BY <1>2 DEF Own
  <2> HIDE DEF p, L
  <2>2. i \notin 1..L
    <3> SUFFICES ASSUME i \in 1..L PROVE FALSE
      OBVIOUS
    <3>1. i \in Nat /\ i <= L
      BY <1>1
    <3>2. i * BlockSize <= L * BlockSize
      <4>1. CASE i = L
        BY ONLY <1>1, <4>1, SizeAssumption
      <4>2. CASE i # L
        <5>1. i * BlockSize + BlockSize <= L * BlockSize
          BY <1>1, <3>1, <4>2, MulMono
        <5> QED BY ONLY <1>1, <3>1, <5>1, SizeAssumption
      <4> QED BY <4>1, <4>2
    <3> QED BY ONLY <1>1, <2>1, <3>1, <3>2, SizeAssumption
  <2> QED BY <1>3, <2>1, <2>2 DEF Elems
<1> QED BY <1>2, <1>4, <1>5

\* A task is admitted.
LEMMA AdmitNode ==
  ASSUME Shape, NEW n \in Nodes, NodeInv(n), NEW s \in Seqs, NEW p, phase[s] = Arriving(n),
         Admit(n, s), Moves(s, p), p \in Active(n), p # Arriving(n)
  PROVE  /\ NodeInv(n)' /\ RegionsKept(m[n], m'[n])
         /\ \A k \in Nodes : k # n => m'[k] = m[k] /\ doubt'[k] = doubt[k]
         /\ doubt[n] \subseteq doubt'[n] /\ PerNode(m') /\ PerNode(doubt') /\ kv' = kv
<1> DEFINE x == m[n]
           N == NumOf[n]
           total == Tokens(n)[s]
           y == try_extend_infer_task(n, s)
           d == doubt[n] \union (Elems(y.map[s].ids) \ Elems(x.map[s].ids))
<1>0. /\ N \in Nat /\ Tokens(n) \in [Seqs -> 0..MaxLen] /\ total = Total(n, s) /\ Regions = Seqs
  BY NodeFacts
<1>1. /\ Sound(x, N, Tokens(n)) /\ OwnOK(x, n, doubt[n]) /\ Truth(x, n, kv[n], doubt[n])
      /\ \A t \in Seqs : TaskOK(x, n, t, phase[t])
      /\ x \in Manager(N)
  BY DEF NodeInv, Sound
<1>2. x.map[s].live /\ AllCached(x, s)
      /\ (x.map[s].filled \div BlockSize) * BlockSize = x.map[s].filled
  BY <1>1 DEF TaskOK, Arriving, Active
<1>3. m'[n] = y /\ PerNode(m') /\ \A k \in Nodes : k # n => m'[k] = m[k]
  BY OneManager DEF Admit
<1>4. doubt'[n] = d /\ PerNode(doubt') /\ \A k \in Nodes : k # n => doubt'[k] = doubt[k]
  BY <1>3 DEF Admit, Shape, PerNode
<1>5. kv' = kv
  BY DEF Admit
<1>6. phase'[s] = p /\ \A t \in Seqs : t # s => phase'[t] = phase[t]
  BY MovesPhase
<1>7. doubt[n] \subseteq doubt'[n]
  BY <1>4
<1>8. CASE ~can_alloc_seq(x, s, total, 100)
  <2>1. y = x
    BY <1>0, <1>8 DEF try_extend_infer_task
  <2>2. d = doubt[n]
    BY <2>1
  <2>3. \A t \in Seqs : TaskOK(x, n, t, phase'[t])
    BY <1>1, <1>2, <1>6 DEF TaskOK
  <2> HIDE DEF d, y
  <2>4. NodeInv(n)'
    BY <1>1, <1>3, <1>4, <1>5, <2>1, <2>2, <2>3 DEF NodeInv
  <2>5. RegionsKept(m[n], m'[n])
    BY <1>3, <2>1 DEF RegionsKept
  <2> QED BY <1>3, <1>4, <1>5, <1>7, <2>4, <2>5
<1>9. CASE can_alloc_seq(x, s, total, 100)
  <2>1. y = alloc_blocks(x, s, total)
    BY <1>0, <1>9 DEF try_extend_infer_task
  <2> HIDE DEF y
  <2>2. Sound(y, N, Tokens(n)) /\ \E new : Extended(x, y, N, s, total, new)
    BY <1>0, <1>1, <1>2, <1>9, <2>1, ExtendEffect
  <2>3. PICK new : Extended(x, y, N, s, total, new)
    BY <2>2
  <2>4. /\ Own(y, s) \subseteq Elems(new)
        /\ Elems(y.map[s].ids) = Elems(x.map[s].ids) \union Elems(new)
    BY <1>0, <1>1, <1>2, <2>3, ExtendedOwns
  <2> HIDE DEF total, x, N
  <2>5. /\ \A b \in Elems(new) : /\ \A t \in Seqs : b \notin Elems(x.map[t].ids)
                                 /\ \A r \in Regions : b \notin Elems(x.resv[r])
        /\ \A b \in Blocks(N) : b \notin Elems(new) => y.hash[b] = x.hash[b]
    BY ONLY <2>3 DEF Extended, Relabelled
  <2>6. /\ y.resv = x.resv /\ \A t \in Seqs : t # s => y.map[t] = x.map[t]
        /\ y.map[s].live /\ y.map[s].slots = total /\ y.map[s].filled = x.map[s].filled
    BY ONLY <2>3 DEF Extended
  <2>7. d = doubt[n] \union Elems(new)
    BY <2>4, <2>5 DEF x
  <2> HIDE DEF d
  <2>8. ASSUME NEW t \in Seqs PROVE TaskOK(y, n, t, phase'[t])
    <3>1. CASE t = s
      BY <1>0, <1>2, <1>6, <2>6, <3>1 DEF TaskOK
    <3>2. CASE t # s
      <4>1. TaskOK(x, n, t, phase[t])
        BY <1>1
      <4> QED BY ONLY <1>6, <2>6, <3>2, <4>1, t \in Seqs DEF TaskOK, AllCached
    <3> QED BY <3>1, <3>2
  <2>9. OwnOK(y, n, d)
    <3>1. \A t \in Seqs : t # s => Own(y, t) = Own(x, t)
      BY <2>6, OwnSame
    <3>2. \A t \in Seqs : Own(x, t) \subseteq Elems(x.map[t].ids)
      BY OwnHeld
    <3>3. OwnOK(x, n, doubt[n])
      BY <1>1
    <3> QED BY ONLY <2>4, <2>5, <2>6, <2>7, <3>1, <3>2, <3>3, s \in Seqs DEF OwnOK
  <2>10. Truth(y, n, kv[n], d)
    <3>1. Truth(x, n, kv[n], doubt[n])
      BY <1>1
    <3> QED BY ONLY <2>5, <2>7, <3>1 DEF Truth, N
  <2>11. NodeInv(n)'
    BY <1>3, <1>4, <1>5, <2>2, <2>8, <2>9, <2>10 DEF NodeInv, N
  <2>12. RegionsKept(m[n], m'[n])
    <3>1. \A q \in Regions : \A b \in Elems(x.resv[q]) : b \in Blocks(N)
      BY <1>0, <1>1, RegionBlocks
    <3>2. RegionsKept(x, y)
      BY ONLY <2>5, <2>6, <3>1 DEF RegionsKept
    <3> QED BY <1>3, <3>2 DEF x
  <2> QED BY <1>3, <1>4, <1>5, <1>7, <2>11, <2>12
<1> QED BY <1>8, <1>9

\* Prefill and Decode: the other node and the transfers do not notice.
LEMMA AdmitStep ==
  ASSUME IInv, NEW n \in Nodes, NEW s \in Seqs, NEW p, phase[s] = Arriving(n),
         Admit(n, s), Moves(s, p), p \in Active(n), p # Arriving(n)
  PROVE  IInv'
<1>1. Shape /\ NodeInv("prefill") /\ NodeInv("decode") /\ TransferInv /\ NodeInv(n)
  BY DEF IInv, Nodes
<1>2. /\ NodeInv(n)' /\ RegionsKept(m[n], m'[n])
      /\ \A k \in Nodes : k # n => m'[k] = m[k] /\ doubt'[k] = doubt[k]
      /\ doubt[n] \subseteq doubt'[n] /\ PerNode(m') /\ PerNode(doubt') /\ kv' = kv
  BY <1>1, AdmitNode
<1>3. UNCHANGED <<local, remote, sent, state, suspect>>
  BY DEF Admit, transfer
<1>4. ASSUME NEW k \in Nodes, k # n PROVE NodeInv(k)'
  <2>1. NodeInv(k)
    BY <1>1 DEF Nodes
  <2>2. p \notin Active(k) /\ phase[s] \notin Active(k) /\ p # Arriving(k)
    BY <1>4 DEF Active, Arriving, Nodes
  <2> QED BY <1>1, <1>2, <1>4, <2>1, <2>2, SameNode
<1>5. NodeInv("prefill")' /\ NodeInv("decode")'
  BY <1>2, <1>4 DEF Nodes
<1>6. TransferInv'
  <2>1. p \notin Reserving /\ phase[s] \notin Reserving
    BY DEF Reserving, Active, Arriving
  <2>2. \A k \in Nodes : RegionsKept(m[k], m'[k]) /\ doubt[k] \subseteq doubt'[k]
    BY <1>2 DEF RegionsKept
  <2>3. doubt["decode"] \subseteq doubt'["decode"]
    BY <2>2 DEF Nodes
  <2> QED BY <1>1, <1>2, <1>3, <2>1, <2>2, <2>3, TransferKept DEF RegionsKept
<1>7. Shape'
  <2>1. p \in Phases
    BY DEF Phases, Active
  <2> QED BY <1>1, <1>2, <1>3, <2>1, ShapeKept DEF Shape
<1> QED BY <1>5, <1>6, <1>7 DEF IInv

\* A piece of a sequence.
LEMMA Piece ==
  ASSUME NEW S, NEW p \in Seq(S), NEW a \in Nat, NEW c \in Nat, a <= c, c <= Len(p)
  PROVE  /\ SubSeq(p, a + 1, c) \in Seq(S) /\ Len(SubSeq(p, a + 1, c)) = c - a
         /\ \A j \in 1..(c - a) : SubSeq(p, a + 1, c)[j] = p[a + j] /\ a + j \in 1..Len(p)
OBVIOUS

\* What Finish writes through: the full blocks of new, from the first one that
\* s was not given filled.
Writes(x, n, s, first, new) ==
    /\ new \in Seq(Blocks(n))
    /\ \A j \in 1..Len(new) : x.hash[new[j]] = BlockHash[s][first + j] /\ new[j] \in Own(x, s)
    /\ NoDup(new)
    /\ x.map[s].filled + BlockSize * Len(new) \in Nat
    /\ x.map[s].filled + BlockSize * Len(new) <= x.map[s].slots

\* These blocks are own blocks of s that carry the labels of s.
LEMMA WrittenFacts ==
  ASSUME NEW n \in Nat, NEW tl \in [Seqs -> 0..MaxLen], NEW x, Sound(x, n, tl), NEW s \in Seqs,
         NEW first, first = x.map[s].filled \div BlockSize,
         first * BlockSize = x.map[s].filled,
         x.map[s].slots = tl[s] \/ x.map[s].slots = BlockSize * Len(x.map[s].ids),
         NEW new, new = SubSeq(x.map[s].ids, first + 1,
                               Least(Len(x.map[s].ids), tl[s] \div BlockSize))
  PROVE  Writes(x, n, s, first, new)
<1> DEFINE ids == x.map[s].ids
           L == Len(ids)
           f == x.map[s].filled
           slots == x.map[s].slots
           total == tl[s]
           q == total \div BlockSize
           last == Least(L, q)
<1>0. x \in Manager(n) /\ MapOK(x, s, total) /\ total \in 0..MaxLen /\ BlockSize \in Nat
  BY SizeAssumption DEF Sound
<1>1. /\ ids \in Seq(Blocks(n)) /\ L \in Nat /\ f \in 0..MaxLen /\ slots \in 0..MaxLen
      /\ \A i \in 1..L : ids[i] \in Blocks(n)
  BY <1>0, MapFields
<1>2. f \in Nat /\ slots \in Nat /\ total \in Nat
  <2> HIDE DEF f, slots, total
  <2> QED BY ONLY <1>0, <1>1, SizeAssumption
<1>3. f <= slots /\ slots <= total /\ L = CeilDiv(slots, BlockSize) /\ NoDup(ids)
      /\ \A i \in 1..L : BlockOK(x, s, i)
  BY <1>0 DEF MapOK
<1>4. /\ new = SubSeq(ids, first + 1, last) /\ first = f \div BlockSize
      /\ first * BlockSize = f /\ (slots = total \/ slots = BlockSize * L)
  OBVIOUS
<1> HIDE DEF L, f, slots, total
<1>5. first \in Nat /\ q \in Nat
  BY <1>2, <1>4, DivBounds
<1>6. first <= q
  <2>1. first * BlockSize <= total
    BY ONLY <1>2, <1>3, <1>4
  <2> QED BY <1>2, <1>5, <2>1, FullBlocks
<1>7. first <= L
  <2>1. slots <= L * BlockSize
    BY <1>2, <1>3, CeilBounds
  <2>2. L < first => L * BlockSize + BlockSize <= first * BlockSize
    BY <1>1, <1>5, MulMono
  <2>3. L * BlockSize \in Nat
    BY ONLY <1>0, <1>1
  <2> QED BY ONLY <1>1, <1>2, <1>3, <1>4, <1>5, <2>1, <2>2, <2>3, SizeAssumption
<1> HIDE DEF q
<1>8. last \in Nat /\ first <= last /\ last <= L /\ last <= q
  BY <1>1, <1>5, <1>6, <1>7 DEF Least
<1>9. last * BlockSize <= slots /\ last * BlockSize \in Nat
  <2> HIDE DEF last
  <2>0. last * BlockSize \in Nat
    BY ONLY <1>0, <1>8
  <2>1. CASE slots = total
    <3>1. last * BlockSize <= total <=> last <= total \div BlockSize
      BY <1>2, <1>8, FullBlocks
    <3> QED BY <1>8, <2>0, <2>1, <3>1 DEF q
  <2>2. CASE slots = BlockSize * L
    <3>1. last < L => last * BlockSize + BlockSize <= L * BlockSize
      BY <1>1, <1>8, MulMono
    <3>2. L * BlockSize = BlockSize * L /\ L * BlockSize \in Nat
      BY ONLY <1>0, <1>1
    <3> QED BY ONLY <1>0, <1>1, <1>2, <1>8, <2>0, <2>2, <3>1, <3>2
  <2> QED BY <1>4, <2>1, <2>2
<1> HIDE DEF last
<1>10. /\ new \in Seq(Blocks(n)) /\ Len(new) = last - first
       /\ \A j \in 1..Len(new) : new[j] = ids[first + j] /\ first + j \in 1..L
  <2>1. ids \in Seq(Blocks(n)) /\ Len(ids) = L
    BY <1>1 DEF L
  <2>2. last <= Len(ids)
    BY <1>8, <2>1
  <2> HIDE DEF ids
  <2>3. /\ new \in Seq(Blocks(n)) /\ Len(new) = last - first
        /\ \A j \in 1..(last - first) : new[j] = ids[first + j] /\ first + j \in 1..Len(ids)
    <3>1. new = SubSeq(ids, first + 1, last)
      BY <1>4
    <3>2. first \in Nat /\ last \in Nat /\ first <= last /\ ids \in Seq(Blocks(n))
      BY <1>5, <1>8, <2>1
    <3>3. /\ SubSeq(ids, first + 1, last) \in Seq(Blocks(n))
          /\ Len(SubSeq(ids, first + 1, last)) = last - first
          /\ \A j \in 1..(last - first) :
                SubSeq(ids, first + 1, last)[j] = ids[first + j] /\ first + j \in 1..Len(ids)
      BY ONLY <2>2, <3>2, Piece
    <3> QED BY ONLY <3>1, <3>3
  <2> QED BY ONLY <2>1, <2>3
<1>11. f + BlockSize * Len(new) = last * BlockSize
  <2> DEFINE w == last - first
  <2>1. w \in Nat /\ first + w = last
    BY ONLY <1>5, <1>8
  <2> HIDE DEF w
  <2>2. (first + w) * BlockSize = first * BlockSize + BlockSize * w
    BY ONLY <1>0, <1>5, <2>1
  <2> QED BY ONLY <1>4, <1>10, <2>1, <2>2 DEF w
<1>12. ASSUME NEW j \in 1..Len(new)
       PROVE  x.hash[new[j]] = BlockHash[s][first + j] /\ new[j] \in Own(x, s)
  <2> DEFINE i == first + j
  <2>1. i \in 1..L /\ new[j] = ids[i] /\ i \in Nat /\ i <= last /\ first < i
    <3>1. j \in 1..(last - first)
      BY <1>10
    <3>2. first + j \in Nat /\ first + j <= last /\ first < first + j
      BY ONLY <1>5, <1>8, <3>1
    <3> QED BY <1>10, <3>2
  <2> HIDE DEF i
  <2>2. i < last => i * BlockSize + BlockSize <= last * BlockSize
    BY <1>8, <2>1, MulMono
  <2>3. first * BlockSize + BlockSize <= i * BlockSize
    BY <1>5, <2>1, MulMono
  <2>4. i * BlockSize \in Nat
    BY ONLY <1>0, <2>1
  <2>5. i * BlockSize <= slots
    BY ONLY <1>0, <1>2, <1>8, <1>9, <2>1, <2>2, <2>4
  <2>6. i * BlockSize > f
    BY ONLY <1>2, <1>4, <2>3, <2>4, SizeAssumption
  <2>7. BlockOK(x, s, i)
    BY <1>3, <2>1
  <2>8. x.hash[ids[i]] = BlockHash[s][i]
    BY <2>5, <2>7 DEF BlockOK, slots
  <2>9. ids[i] \in Own(x, s)
    BY <2>1, <2>6 DEF Own, L, f
  <2> QED BY <2>1, <2>8, <2>9 DEF i
<1>13. NoDup(new)
  <2> SUFFICES ASSUME NEW i \in 1..Len(new), NEW j \in 1..Len(new), new[i] = new[j]
               PROVE  i = j
    BY DEF NoDup
  <2>1. ids[first + i] = ids[first + j] /\ first + i \in 1..L /\ first + j \in 1..L
    BY <1>10
  <2>2. first + i = first + j
    BY <1>3, <2>1 DEF NoDup, L
  <2>3. i \in Int /\ j \in Int
    BY ONLY i \in 1..Len(new), j \in 1..Len(new)
  <2> QED BY ONLY <1>5, <2>2, <2>3
<1> QED BY <1>9, <1>10, <1>11, <1>12, <1>13 DEF Writes, f, slots

\* s has gone from node n: its new blocks hold the KV c, or nothing has become
\* known of them.
Ended(n, s, new, c, ok) ==
    /\ Sound(m'[n], NumOf[n], Tokens(n)) /\ OnlyFreed(m[n], m'[n], NumOf[n], s)
    /\ \A r \in Ranks : \A b \in Blocks(NumOf[n]) :
          kv'[n][r][b] = IF b \in Elems(new) THEN c[b] ELSE kv[n][r][b]
    /\ doubt'[n] = IF ok THEN doubt[n] \ Elems(new) ELSE doubt[n]
    /\ ok => \A b \in Elems(new) : c[b] = m[n].hash[b]

\* The node after that.
LEMMA EndedNode ==
  ASSUME Shape, NEW n \in Nodes, NodeInv(n), NEW s \in Seqs, NEW p, Moves(s, p),
         p \notin Active(n), p # Arriving(n), NEW new, NEW c, NEW ok \in BOOLEAN,
         Ended(n, s, new, c, ok), Elems(new) \subseteq Own(m[n], s)
  PROVE  /\ NodeInv(n)' /\ RegionsKept(m[n], m'[n])
         /\ n = "decode" => \A q \in Regions : \A b \in Elems(m[n].resv[q]) :
               /\ b \in doubt[n] => b \in doubt'[n]
               /\ \A r \in Ranks : kv'[n][r][b] = kv[n][r][b]
<1> DEFINE x == m[n]
           y == m'[n]
           N == NumOf[n]
           d == doubt[n]
           e == doubt'[n]
<1>0. N \in Nat /\ Regions = Seqs
  BY NodeFacts
<1>1. /\ x \in Manager(N) /\ OwnOK(x, n, d) /\ Truth(x, n, kv[n], d)
      /\ \A t \in Seqs : TaskOK(x, n, t, phase[t])
  BY DEF NodeInv, Sound
<1>2. phase'[s] = p /\ \A t \in Seqs : t # s => phase'[t] = phase[t]
  BY MovesPhase
<1>3. /\ y.map[s] = NoMap /\ y.resv = x.resv /\ \A t \in Seqs : t # s => y.map[t] = x.map[t]
      /\ \A b \in Blocks(N) : y.hash[b] = x.hash[b] \/ y.hash[b] = NoHash
      /\ \A r \in Regions : \A b \in Elems(x.resv[r]) : y.hash[b] = x.hash[b]
  BY DEF Ended, OnlyFreed
<1>4. /\ \A r \in Ranks : \A b \in Blocks(N) :
            kv'[n][r][b] = IF b \in Elems(new) THEN c[b] ELSE kv[n][r][b]
      /\ e = IF ok THEN d \ Elems(new) ELSE d
      /\ ok => \A b \in Elems(new) : c[b] = x.hash[b]
  BY DEF Ended
<1>5. \A b \in Own(x, s) : b \in d
  BY <1>1 DEF OwnOK
<1>6. /\ Own(y, s) = {} /\ (y.map[s].filled \div BlockSize) * BlockSize = y.map[s].filled
      /\ y.map[s].slots = BlockSize * Len(y.map[s].ids)
  BY <1>3, NoMapOwns
<1>s. Sound(y, N, Tokens(n)) /\ Elems(new) \subseteq Own(x, s)
  BY DEF Ended
<1>7. ASSUME NEW t \in Seqs PROVE TaskOK(y, n, t, phase'[t])
  <2>1. CASE t = s
    <3>1. ~y.map[s].live
      BY <1>3 DEF NoMap
    <3> HIDE DEF y
    <3> QED BY <1>2, <1>6, <2>1, <3>1 DEF TaskOK
  <2>2. CASE t # s
    <3>1. TaskOK(x, n, t, phase[t])
      BY <1>1
    <3> HIDE DEF x, y
    <3> QED BY ONLY <1>2, <1>3, <2>2, <3>1, t \in Seqs DEF TaskOK, AllCached
  <2> QED BY <2>1, <2>2
<1>8. \A t \in Seqs : t # s => Own(y, t) = Own(x, t)
  BY <1>3, OwnSame
<1>9. /\ n = "decode" => \A q \in Regions : \A b \in Elems(x.resv[q]) : b \notin Elems(new)
      /\ \A q \in Regions : \A b \in Elems(x.resv[q]) : b \in Blocks(N)
  <2>1. \A q \in Regions : \A b \in Elems(x.resv[q]) : b \in Blocks(N)
    BY <1>0, <1>1, RegionBlocks
  <2>2. n = "decode" => \A q \in Regions : \A b \in Elems(x.resv[q]) : b \notin Own(x, s)
    <3>1. OwnOK(x, n, d)
      BY <1>1
    <3> HIDE DEF x, d
    <3> QED BY ONLY <3>1, s \in Seqs DEF OwnOK
  <2> QED BY <1>s, <2>1, <2>2
<1> HIDE DEF x, y, N, d, e
<1>10. OwnOK(y, n, e)
  <2>1. OwnOK(x, n, d)
    BY <1>1
  <2>2. \A t \in Seqs : t # s => \A b \in Own(x, t) : b \in d /\ b \notin Elems(new)
    BY ONLY <1>s, <2>1, s \in Seqs DEF OwnOK
  <2>3. d \ Elems(new) \subseteq e
    BY ONLY <1>4
  <2>4. \A t \in Seqs : \A b \in Own(y, t) : t # s /\ b \in Own(x, t)
    BY ONLY <1>6, <1>8
  <2> QED BY ONLY <1>3, <2>1, <2>2, <2>3, <2>4 DEF OwnOK
<1>11. Truth(y, n, kv'[n], e)
  <2> SUFFICES ASSUME NEW b \in Blocks(N), y.hash[b] # NoHash, b \notin e, NEW r \in Ranks
               PROVE  kv'[n][r][b] = y.hash[b]
    BY DEF Truth, N
  <2>1. y.hash[b] = x.hash[b]
    BY <1>3
  <2>2. CASE b \in Elems(new)
    <3>1. ok
      BY <1>4, <1>5, <1>s, <2>2
    <3> QED BY <1>4, <2>1, <2>2, <3>1
  <2>3. CASE b \notin Elems(new)
    <3>1. b \notin d
      BY <1>4, <2>3
    <3>2. kv[n][r][b] = x.hash[b]
      BY <1>1, <2>1, <3>1 DEF Truth, N
    <3> QED BY <1>4, <2>1, <2>3, <3>2
  <2> QED BY <2>2, <2>3
<1>12. NodeInv(n)'
  BY <1>7, <1>10, <1>11, <1>s DEF NodeInv, y, e, N
<1>13. RegionsKept(m[n], m'[n])
  BY <1>3 DEF RegionsKept, x, y
<1>14. n = "decode" => \A q \in Regions : \A b \in Elems(m[n].resv[q]) :
               /\ b \in doubt[n] => b \in doubt'[n]
               /\ \A r \in Ranks : kv'[n][r][b] = kv[n][r][b]
  BY <1>4, <1>9 DEF x, d, e
<1> QED BY <1>12, <1>13, <1>14

\* Finish writes the blocks through and frees the task.
LEMMA FinishEnds ==
  ASSUME Shape, NEW n \in Nodes, NodeInv(n), NEW s \in Seqs, phase[s] \in Active(n), Finish(n, s)
  PROVE  /\ \E new, c : \E ok \in BOOLEAN :
               Ended(n, s, new, c, ok) /\ Elems(new) \subseteq Own(m[n], s)
         /\ PerNode(m') /\ PerNode(doubt') /\ PerNode(kv') /\ PerBlock(kv'[n], n)
         /\ \A k \in Nodes : k # n => m'[k] = m[k] /\ doubt'[k] = doubt[k] /\ kv'[k] = kv[k]
<1> DEFINE x == m[n]
           N == NumOf[n]
           new == Written(n, s)
           first == x.map[s].filled \div BlockSize
           ok == HitsSound(n, s) /\ s \notin misled[n]
           Content(b) == IF ok THEN BlockHash[s][first + IndexIn(new, b)] ELSE NoHash
           c == [b \in Blocks(N) |-> Content(b)]
           f == x.map[s].filled + BlockSize * Len(new)
           w == update_filled_len(x, s, f)
           y == free(w, s)
<1>0. /\ N \in Nat /\ Tokens(n) \in [Seqs -> 0..MaxLen] /\ Tokens(n)[s] = Total(n, s)
  BY NodeFacts
<1>1. /\ Sound(x, N, Tokens(n)) /\ x \in Manager(N) /\ TaskOK(x, n, s, phase[s])
  BY DEF NodeInv, Sound
<1>2. /\ x.map[s].live /\ first * BlockSize = x.map[s].filled
      /\ x.map[s].slots = Tokens(n)[s] \/ x.map[s].slots = BlockSize * Len(x.map[s].ids)
  BY <1>0, <1>1 DEF TaskOK
<1>3. Writes(x, N, s, first, new)
  <2>1. new = SubSeq(x.map[s].ids, first + 1,
                     Least(Len(x.map[s].ids), Tokens(n)[s] \div BlockSize))
    BY <1>0 DEF Written
  <2>2. first = x.map[s].filled \div BlockSize
    OBVIOUS
  <2> HIDE DEF first, new, x, N
  <2> QED BY <1>0, <1>1, <1>2, <2>1, <2>2, WrittenFacts
<1>4. /\ kv' = [kv EXCEPT ![n] =
                   [r \in Ranks |-> [b \in DOMAIN kv[n][r] |->
                       IF b \in Elems(new) THEN Content(b) ELSE kv[n][r][b]]]]
      /\ doubt' = [doubt EXCEPT ![n] = IF ok THEN doubt[n] \ Elems(new) ELSE doubt[n]]
      /\ m' = [m EXCEPT ![n] = y]
  BY DEF Finish
<1>5. m'[n] = y /\ PerNode(m') /\ \A k \in Nodes : k # n => m'[k] = m[k]
  BY <1>4, OneManager
<1>w. w = update_filled_len(x, s, f) /\ y = free(w, s)
  OBVIOUS
<1>x. \A b \in Blocks(N) : c[b] = Content(b)
  OBVIOUS
<1> HIDE DEF c, w, y, Content
<1>6. /\ doubt'[n] = (IF ok THEN doubt[n] \ Elems(new) ELSE doubt[n])
      /\ PerNode(doubt') /\ \A k \in Nodes : k # n => doubt'[k] = doubt[k]
  <2> HIDE DEF ok, new
  <2> QED BY <1>4 DEF Shape, PerNode
<1>7. /\ kv'[n] = [r \in Ranks |-> [b \in Blocks(N) |->
                      IF b \in Elems(new) THEN Content(b) ELSE kv[n][r][b]]]
      /\ PerNode(kv') /\ \A k \in Nodes : k # n => kv'[k] = kv[k]
  <2>1. kv = [k \in Nodes |-> kv[k]] /\ PerBlock(kv[n], n)
    BY DEF Shape, PerNode
  <2>2. \A r \in Ranks : DOMAIN kv[n][r] = Blocks(N)
    <3>1. kv[n] = [r \in Ranks |-> [b \in Blocks(N) |-> kv[n][r][b]]]
      BY <2>1 DEF PerBlock
    <3>2. ASSUME NEW r \in Ranks PROVE kv[n][r] = [b \in Blocks(N) |-> kv[n][r][b]]
      <4> DEFINE g == [q \in Ranks |-> [b \in Blocks(N) |-> kv[n][q][b]]]
      <4>1. g[r] = [b \in Blocks(N) |-> kv[n][r][b]]
        OBVIOUS
      <4>2. kv[n] = g
        BY <3>1
      <4> HIDE DEF g
      <4>3. kv[n][r] = g[r]
        BY <4>2
      <4> QED BY ONLY <4>1, <4>3
    <3> QED BY <3>2
  <2> HIDE DEF new, N
  <2>3. [r \in Ranks |-> [b \in DOMAIN kv[n][r] |->
                       IF b \in Elems(new) THEN Content(b) ELSE kv[n][r][b]]]
        = [r \in Ranks |-> [b \in Blocks(N) |->
                      IF b \in Elems(new) THEN Content(b) ELSE kv[n][r][b]]]
    BY ONLY <2>2
  <2> DEFINE g == [r \in Ranks |-> [b \in Blocks(N) |->
                      IF b \in Elems(new) THEN Content(b) ELSE kv[n][r][b]]]
  <2>4. kv' = [kv EXCEPT ![n] = g]
    BY ONLY <1>4, <2>3
  <2> HIDE DEF g
  <2>5. kv'[n] = g /\ PerNode(kv') /\ \A k \in Nodes : k # n => kv'[k] = kv[k]
    BY ONLY <2>1, <2>4, n \in Nodes DEF PerNode
  <2> QED BY <2>5 DEF g
<1>8. PerBlock(kv'[n], n)
  <2> DEFINE h(r, b) == IF b \in Elems(new) THEN Content(b) ELSE kv[n][r][b]
             g == [r \in Ranks |-> [b \in Blocks(N) |-> h(r, b)]]
  <2>1. \A r \in Ranks : \A b \in Blocks(N) : g[r][b] = h(r, b)
    OBVIOUS
  <2>2. kv'[n] = g
    BY <1>7
  <2>3. g = [r \in Ranks |-> [b \in Blocks(N) |-> g[r][b]]]
    <3> HIDE DEF h
    <3>1. [r \in Ranks |-> [b \in Blocks(N) |-> h(r, b)]]
            = [r \in Ranks |-> [b \in Blocks(N) |-> g[r][b]]]
      <4> HIDE DEF g
      <4> QED BY ONLY <2>1
    <3> QED BY ONLY <3>1 DEF g
  <2> HIDE DEF g
  <2> QED BY <2>2, <2>3 DEF PerBlock
<1>9. \A r \in Ranks : \A b \in Blocks(N) :
         kv'[n][r][b] = IF b \in Elems(new) THEN c[b] ELSE kv[n][r][b]
  <2> HIDE DEF new, N
  <2> QED BY <1>7, <1>x
<1>10. ok => \A b \in Elems(new) : c[b] = x.hash[b]
  <2> HIDE DEF ok, first, new, N, x
  <2> SUFFICES ASSUME ok, NEW b \in Elems(new) PROVE c[b] = x.hash[b]
    OBVIOUS
  <2>1. PICK j \in 1..Len(new) : b = new[j]
    BY DEF Elems
  <2>2. x.hash[b] = BlockHash[s][first + j] /\ new \in Seq(Blocks(N)) /\ NoDup(new)
    BY <1>3, <2>1 DEF Writes
  <2>3. IndexIn(new, b) = j
    BY <2>1, <2>2 DEF IndexIn, NoDup
  <2>4. b \in Blocks(N)
    BY <2>1, <2>2
  <2> QED BY <1>x, <2>2, <2>3, <2>4 DEF Content
<1>11. Elems(new) \subseteq Own(x, s)
  BY <1>3 DEF Writes, Elems
<1>12. f \in Nat /\ f <= x.map[s].slots
  BY <1>3 DEF Writes
<1> HIDE DEF f, new, N, x, first
<1>13. Sound(w, N, Tokens(n)) /\ OnlyFilled(x, w, s, f) /\ w \in Manager(N)
  <2>1. Sound(w, N, Tokens(n))
    BY <1>0, <1>1, <1>2, <1>12, <1>w, FilledLenSound
  <2>2. OnlyFilled(x, w, s, f)
    BY <1>0, <1>1, <1>2, <1>w, FilledLenEffect
  <2> QED BY <2>1, <2>2 DEF Sound
<1>14. y = free_dropping(w, s, f)
  BY <1>w, <1>13 DEF free, OnlyFilled
<1>15. Sound(y, N, Tokens(n)) /\ OnlyFreed(w, y, N, s)
  BY <1>0, <1>12, <1>13, <1>14, FreeSound, FreeEffect
<1>16. OnlyFreed(x, y, N, s)
  BY ONLY <1>13, <1>15 DEF OnlyFreed, OnlyFilled
<1> HIDE DEF ok
<1>17. Ended(n, s, new, c, ok)
  <2>1. m[n] = x /\ NumOf[n] = N
    BY DEF x, N
  <2> QED BY ONLY <1>5, <1>6, <1>9, <1>10, <1>15, <1>16, <2>1 DEF Ended
<1>18. ok \in BOOLEAN
  BY DEF ok, HitsSound
<1>19. \E a, g : \E k \in BOOLEAN : Ended(n, s, a, g, k) /\ Elems(a) \subseteq Own(m[n], s)
  BY <1>11, <1>17, <1>18 DEF x
<1> QED BY <1>5, <1>6, <1>7, <1>8, <1>19

\* Prefilled and Decoded.
LEMMA FinishStep ==
  ASSUME IInv, NEW n \in Nodes, NEW s \in Seqs, NEW p, phase[s] \in Active(n),
         Finish(n, s), Moves(s, p), p \in {"Prefilled", "Done"}
  PROVE  IInv'
<1>1. Shape /\ NodeInv("prefill") /\ NodeInv("decode") /\ TransferInv /\ NodeInv(n)
  BY DEF IInv, Nodes
<1>2. /\ \E new, c : \E ok \in BOOLEAN :
            Ended(n, s, new, c, ok) /\ Elems(new) \subseteq Own(m[n], s)
      /\ PerNode(m') /\ PerNode(doubt') /\ PerNode(kv') /\ PerBlock(kv'[n], n)
      /\ \A k \in Nodes : k # n => m'[k] = m[k] /\ doubt'[k] = doubt[k] /\ kv'[k] = kv[k]
  BY <1>1, FinishEnds
<1>3. \A k \in Nodes : p \notin Active(k) /\ p # Arriving(k)
  BY DEF Active, Arriving, Nodes
<1>4. /\ NodeInv(n)' /\ RegionsKept(m[n], m'[n])
      /\ n = "decode" => \A q \in Regions : \A b \in Elems(m[n].resv[q]) :
            /\ b \in doubt[n] => b \in doubt'[n]
            /\ \A r \in Ranks : kv'[n][r][b] = kv[n][r][b]
  BY <1>1, <1>2, <1>3, EndedNode
<1>5. UNCHANGED <<local, remote, sent, state, suspect>>
  BY DEF Finish, transfer
<1>6. ASSUME NEW k \in Nodes, k # n PROVE NodeInv(k)'
  <2>1. NodeInv(k)
    BY <1>1 DEF Nodes
  <2>2. phase[s] \notin Active(k)
    BY <1>6 DEF Active, Nodes
  <2> QED BY <1>1, <1>2, <1>3, <1>6, <2>1, <2>2, SameNode
<1>7. NodeInv("prefill")' /\ NodeInv("decode")'
  BY <1>4, <1>6 DEF Nodes
<1>8. TransferInv'
  <2>1. p \notin Reserving /\ phase[s] \notin Reserving
    BY DEF Reserving, Active
  <2>2. \A k \in Nodes : RegionsKept(m[k], m'[k])
    BY <1>2, <1>4 DEF RegionsKept
  <2>3. \A q \in Regions : \A b \in Elems(m["decode"].resv[q]) :
            /\ b \in doubt["decode"] => b \in doubt'["decode"]
            /\ \A r \in Ranks : kv'["decode"][r][b] = kv["decode"][r][b]
    <3>1. CASE n = "decode"
      BY <1>4, <3>1
    <3>2. CASE n # "decode"
      <4>1. doubt'["decode"] = doubt["decode"] /\ kv'["decode"] = kv["decode"]
        BY <1>2, <3>2 DEF Nodes
      <4> QED BY <4>1
    <3> QED BY <3>1, <3>2
  <2> QED BY <1>1, <1>5, <2>1, <2>2, <2>3, TransferKept DEF RegionsKept
<1>9. Shape'
  <2>1. p \in Phases
    BY DEF Phases
  <2>2. ASSUME NEW k \in Nodes PROVE PerBlock(kv'[k], k)
    <3>1. PerBlock(kv[k], k)
      BY <1>1 DEF Shape
    <3>2. CASE k = n
      BY <1>2, <3>2
    <3>3. CASE k # n
      BY <1>2, <3>1, <3>3
    <3> QED BY <3>2, <3>3
  <2> QED BY <1>1, <1>2, <1>5, <2>1, <2>2, ShapeKept DEF Shape
<1> QED BY <1>7, <1>8, <1>9 DEF IInv

-----------------------------------------------------------------------------
(* The hand-over *)

\* The regions change, the maps and the labels of a node do not; nothing is
\* taken into doubt or out of it but blocks that hold what their label says.
LEMMA RegionsNode ==
  ASSUME Shape, NEW n \in Nodes, NodeInv(n), NEW s \in Seqs, NEW p, Moves(s, p),
         Sound(m'[n], NumOf[n], Tokens(n)), m'[n].map = m[n].map, m'[n].hash = m[n].hash,
         kv'[n] = kv[n], OwnOK(m'[n], n, doubt'[n]),
         \A b \in doubt[n] \ doubt'[n] : \A r \in Ranks : kv[n][r][b] = m[n].hash[b],
         p \in Active(n) <=> phase[s] \in Active(n), p # Arriving(n)
  PROVE  NodeInv(n)'
<1>1. phase'[s] = p /\ \A t \in Seqs : t # s => phase'[t] = phase[t]
  BY MovesPhase
<1>2. ASSUME NEW t \in Seqs PROVE TaskOK(m'[n], n, t, phase'[t])
  <2>1. TaskOK(m[n], n, t, phase[t])
    BY DEF NodeInv
  <2>2. CASE t = s
    BY <1>1, <2>1, <2>2 DEF TaskOK
  <2>3. CASE t # s
    BY <1>1, <2>1, <2>3 DEF TaskOK, AllCached
  <2> QED BY <2>2, <2>3
<1>3. Truth(m'[n], n, kv'[n], doubt'[n])
  BY DEF NodeInv, Truth
<1> QED BY <1>2, <1>3 DEF NodeInv

\* The transfer of t does not notice what is done for another request.
LEMMA OtherKept ==
  ASSUME NEW t \in Seqs, PinOK(t), ReserveOK(t), SentOK(t), phase'[t] = phase[t],
         local'[t] = local[t], remote'[t] = remote[t], suspect'[t] = suspect[t],
         sent'[t] = sent[t], state'[t] = state[t],
         \A n \in Nodes : /\ m'[n].resv[t] = m[n].resv[t]
                          /\ \A b \in Elems(m[n].resv[t]) : m'[n].hash[b] = m[n].hash[b],
         \A b \in Elems(m["decode"].resv[t]) :
            /\ b \in doubt["decode"] => b \in doubt'["decode"]
            /\ \A r \in Ranks : kv'["decode"][r][b] = kv["decode"][r][b],
         \A u \in Seqs : u # t =>
            Elems(m'["decode"].resv[t]) \cap Elems(m'["decode"].resv[u]) = {}
  PROVE  (PinOK(t) /\ ReserveOK(t) /\ SentOK(t))'
<1>3. /\ m'["prefill"].resv[t] = m["prefill"].resv[t] /\ m'["decode"].resv[t] = m["decode"].resv[t]
      /\ \A b \in Elems(m["prefill"].resv[t]) : m'["prefill"].hash[b] = m["prefill"].hash[b]
      /\ \A b \in Elems(m["decode"].resv[t]) : m'["decode"].hash[b] = m["decode"].hash[b]
  BY NodeFacts
<1>7. PinOK(t)'
  <2>1. phase[t] = "Pushing" => Labelled(m'["prefill"], t, 0, local[t])
    <3> SUFFICES ASSUME phase[t] = "Pushing" PROVE Labelled(m'["prefill"], t, 0, local[t])
      OBVIOUS
    <3>1. Labelled(m["prefill"], t, 0, local[t]) /\ m["prefill"].resv[t] = local[t]
      BY DEF PinOK, Pinning
    <3>2. \A b \in Elems(local[t]) : m'["prefill"].hash[b] = m["prefill"].hash[b]
      BY <1>3, <3>1
    <3> QED BY ONLY <3>1, <3>2, LabelledSame
  <2> QED BY <1>3, <2>1 DEF PinOK, Pinning
<1>8. ReserveOK(t)'
  <2>1. Labelled(m'["decode"], t, 0, m'["decode"].resv[t])
    <3>1. Labelled(m["decode"], t, 0, m["decode"].resv[t])
      BY DEF ReserveOK
    <3>2. \A b \in Elems(m["decode"].resv[t]) : m'["decode"].hash[b] = m["decode"].hash[b]
      BY <1>3
    <3>3. Labelled(m'["decode"], t, 0, m["decode"].resv[t])
      BY ONLY <3>1, <3>2, LabelledSame
    <3> QED BY <1>3, <3>3
  <2>2. phase'[t] \in {"Reserved", "Pushing"} => Elems(remote[t]) \subseteq doubt'["decode"]
    <3> SUFFICES ASSUME phase[t] \in {"Reserved", "Pushing"}
                 PROVE  Elems(remote[t]) \subseteq doubt'["decode"]
      OBVIOUS
    <3>1. m["decode"].resv[t] = remote[t] /\ Elems(remote[t]) \subseteq doubt["decode"]
      BY DEF ReserveOK, Reserving
    <3> QED BY <3>1
  <2> QED BY <1>3, <2>1, <2>2 DEF ReserveOK
<1>9. SentOK(t)'
  <2>1. ASSUME phase[t] = "Pushing", NEW r \in Ranks, NEW i \in 1..sent[t][r]
        PROVE  kv'["decode"][r][remote[t][i]] = kv["decode"][r][remote[t][i]]
    <3>1. m["decode"].resv[t] = remote[t] /\ Len(local[t]) <= Len(remote[t])
      BY <2>1 DEF ReserveOK, Reserving, PinOK, Pinning
    <3>2. sent[t][r] \in Nat /\ sent[t][r] <= Len(local[t])
      BY <2>1 DEF SentOK, Sent
    <3>3. Len(local[t]) \in Nat /\ Len(remote[t]) \in Nat
      BY <2>1, <3>1 DEF PinOK, Pinning
    <3>4. remote[t][i] \in Elems(remote[t])
      BY <3>1, <3>2, <3>3 DEF Elems
    <3> QED BY <3>1, <3>4
  <2> QED BY <2>1 DEF SentOK, Sent
<1> QED BY <1>7, <1>8, <1>9

\* The blocks of different regions of the decode node are different.
Apart(x) == \A s, t \in Seqs : s # t => Elems(x.resv[s]) \cap Elems(x.resv[t]) = {}

\* What reserve_request does on the decode node.
Reserves(s, k, new, p) ==
    /\ Sound(m'["decode"], NumOf["decode"], Tokens("decode"))
    /\ ReservedFor(m["decode"], m'["decode"], NumOf["decode"], s, s, 0, k, new)
    /\ k \in Nat /\ k <= NumFull
    /\ remote' = [remote EXCEPT ![s] = m'["decode"].resv[s]]
    /\ doubt'["decode"] = doubt["decode"] \union Elems(new)
    /\ p = IF Exhausts(m["decode"], k) THEN "Failed" ELSE IF k = 0 THEN "Pushed" ELSE "Reserved"

\* ReserveRequest is that, and leaves the prefill node and the ranks alone.
LEMMA ReserveEnds ==
  ASSUME IInv, NEW s \in Seqs, ReserveRequest(s)
  PROVE  /\ phase[s] = "Prefilled" /\ PerNode(m') /\ PerNode(doubt')
         /\ m'["prefill"] = m["prefill"] /\ doubt'["prefill"] = doubt["prefill"]
         /\ \E k, new, p : Reserves(s, k, new, p) /\ Moves(s, p)
         /\ UNCHANGED <<kv, local, sent, state, suspect>>
<1> DEFINE x == m["decode"]
           N == NumOf["decode"]
           total == Total("decode", s)
           k == total \div BlockSize
           new == Popped(x, k)
           y == reserve_blocks(x, s, s, 0, total)
           p == CASE Exhausts(x, k) -> "Failed" [] k = 0 -> "Pushed" [] OTHER -> "Reserved"
<1>0. /\ "prefill" \in Nodes /\ "decode" \in Nodes /\ N \in Nat /\ Regions = Seqs
      /\ Tokens("decode") \in [Seqs -> 0..MaxLen] /\ total \in 1..MaxLen
  BY NodeFacts
<1>1. Shape /\ NodeInv("decode") /\ TransferInv
  BY DEF IInv
<1>2. /\ phase[s] = "Prefilled" /\ m' = [m EXCEPT !["decode"] = y]
      /\ remote' = [remote EXCEPT ![s] = m'["decode"].resv[s]]
      /\ doubt' = [doubt EXCEPT !["decode"] = doubt["decode"] \union Elems(new)]
      /\ Moves(s, p) /\ UNCHANGED <<kv, local, sent, state, suspect>>
  BY DEF ReserveRequest, Moves, history
<1>y. y = reserve_blocks(x, s, s, 0, total) /\ new = Popped(x, k)
  OBVIOUS
<1>3. Sound(x, N, Tokens("decode")) /\ x.resv[s] = <<>>
  BY <1>1, <1>2 DEF NodeInv, TransferInv, ReserveOK, Reserving
<1>p. p = IF Exhausts(x, k) THEN "Failed" ELSE IF k = 0 THEN "Pushed" ELSE "Reserved"
  <2>1. x.free \in Seq(Blocks(N))
    BY <1>0, <1>3, ManagerFields DEF Sound
  <2>2. ~(Exhausts(x, k) /\ k = 0)
    BY <2>1 DEF Exhausts
  <2> HIDE DEF k, x
  <2> QED BY <2>2
<1> HIDE DEF y, new, p
<1>4. m'["decode"] = y /\ PerNode(m') /\ m'["prefill"] = m["prefill"]
  BY <1>0, <1>1, <1>2, OneManager
<1>5. /\ doubt'["decode"] = doubt["decode"] \union Elems(new) /\ PerNode(doubt')
      /\ doubt'["prefill"] = doubt["prefill"]
  BY <1>0, <1>1, <1>2 DEF Shape, PerNode
<1>6. total \in Nat /\ total \in 0..MaxLen /\ total <= MaxLen /\ MaxLen \in Nat
  BY <1>0, SizeAssumption
<1> HIDE DEF total, x, N
<1>7. k \in Nat /\ k <= NumFull
  BY <1>6, DivBounds, DivMono DEF NumFull
<1>8. 0 = 0 \div BlockSize
  BY SizeAssumption
<1>9. k = IF total \div BlockSize > 0 THEN (total \div BlockSize) - 0 ELSE 0
  BY <1>7
<1>10. Sound(y, N, Tokens("decode"))
  BY <1>0, <1>3, <1>6, <1>y, ReserveSound
<1> HIDE DEF k
<1>11. ReservedFor(x, y, N, s, s, 0, k, new)
  BY <1>0, <1>3, <1>7, <1>8, <1>9, <1>y, ReserveEffect
<1>12. Reserves(s, k, new, p)
  <2>1. m["decode"] = x /\ NumOf["decode"] = N
    BY DEF x, N
  <2> QED BY ONLY <1>2, <1>4, <1>5, <1>7, <1>10, <1>11, <1>p, <2>1 DEF Reserves
<1>13. \E a, c, e : Reserves(s, a, c, e) /\ Moves(s, e)
  BY <1>2, <1>12
<1> QED BY <1>2, <1>4, <1>5, <1>13

\* reserve_request: the blocks reserved belonged to nobody and are in doubt.
LEMMA ReserveStep ==
  ASSUME IInv, NEW s \in Seqs, ReserveRequest(s)
  PROVE  IInv'
<1> DEFINE x == m["decode"]
           y == m'["decode"]
           N == NumOf["decode"]
           d == doubt["decode"]
           e == doubt'["decode"]
<1>0. "prefill" \in Nodes /\ "decode" \in Nodes /\ N \in Nat /\ Regions = Seqs
      /\ Nodes = {"prefill", "decode"}
  BY NodeFacts
<1>1. Shape /\ NodeInv("prefill") /\ NodeInv("decode") /\ TransferInv
  BY DEF IInv
<1>2. /\ phase[s] = "Prefilled" /\ PerNode(m') /\ PerNode(doubt')
      /\ m'["prefill"] = m["prefill"] /\ doubt'["prefill"] = doubt["prefill"]
      /\ \E k, new, p : Reserves(s, k, new, p) /\ Moves(s, p)
      /\ UNCHANGED <<kv, local, sent, state, suspect>>
  BY ReserveEnds
<1>3. PICK k, new, p : Reserves(s, k, new, p) /\ Moves(s, p)
  BY <1>2
<1>4. /\ Sound(y, N, Tokens("decode")) /\ ReservedFor(x, y, N, s, s, 0, k, new)
      /\ k \in Nat /\ k <= NumFull /\ remote' = [remote EXCEPT ![s] = y.resv[s]]
      /\ e = d \union Elems(new)
      /\ p = IF Exhausts(x, k) THEN "Failed" ELSE IF k = 0 THEN "Pushed" ELSE "Reserved"
  BY <1>3 DEF Reserves
<1>5. p \in {"Failed", "Pushed", "Reserved"} /\ p \in Phases
  BY <1>4 DEF Phases
<1>6. phase'[s] = p /\ \A t \in Seqs : t # s => phase'[t] = phase[t]
  BY <1>1, <1>3, MovesPhase
<1>7. /\ p \notin Active("prefill") /\ p \notin Active("decode")
      /\ phase[s] \notin Active("prefill") /\ phase[s] \notin Active("decode")
      /\ p # Arriving("prefill") /\ p # Arriving("decode")
  BY <1>2, <1>5 DEF Active, Arriving
<1>8. NodeInv("prefill")'
  BY <1>1, <1>2, <1>3, <1>7, SameNode
<1>9. /\ \A b \in Elems(new) : /\ \A t \in Seqs : b \notin Elems(x.map[t].ids)
                               /\ \A q \in Seqs : b \notin Elems(x.resv[q])
      /\ \A b \in Blocks(N) : b \notin Elems(new) => y.hash[b] = x.hash[b]
      /\ y.map = x.map /\ Labelled(y, s, 0, new) /\ Len(new) <= k
      /\ ~Exhausts(x, k) => Len(new) = k
      /\ y.resv = [x.resv EXCEPT ![s] = IF Exhausts(x, k) THEN x.resv[s] ELSE new]
      /\ new \in Seq(Blocks(N))
  <2> HIDE DEF x, y, N
  <2> QED BY ONLY <1>0, <1>4 DEF ReservedFor, Relabelled
<1>10. /\ \A q \in Seqs : \A b \in Elems(x.resv[q]) : b \in Blocks(N)
       /\ x.resv \in [Seqs -> Seq(Blocks(N))]
  <2>1. x \in Manager(N)
    BY <1>1 DEF NodeInv, Sound
  <2> QED BY <1>0, <2>1, RegionBlocks, ManagerFields
<1>11. /\ y.resv[s] = IF Exhausts(x, k) THEN x.resv[s] ELSE new
       /\ \A t \in Seqs : t # s => y.resv[t] = x.resv[t]
  <2> HIDE DEF x, y
  <2> QED BY ONLY <1>9, <1>10, s \in Seqs
<1>12. PinOK(s) /\ ReserveOK(s) /\ SentOK(s)
  BY <1>1 DEF TransferInv
<1>13. x.resv[s] = <<>> /\ m["prefill"].resv[s] = <<>> /\ \A r \in Ranks : sent[s][r] = 0
  BY <1>2, <1>12 DEF PinOK, Pinning, ReserveOK, SentOK, Sent, Reserving
<1>14. Apart(x)
  BY <1>1 DEF TransferInv, ReserveOK, Apart
<1>15. Elems(<<>>) = {}
  BY DEF Elems
<1>16. Elems(y.resv[s]) \subseteq Elems(new)
  BY <1>11, <1>13, <1>15
<1>17. Apart(y)
  <2> HIDE DEF x, y
  <2> QED BY ONLY <1>9, <1>11, <1>14, <1>16 DEF Apart
<1>18. NodeInv("decode")'
  <2>1. \A t \in Seqs : Own(y, t) = Own(x, t)
    BY <1>9, OwnSame
  <2>2. \A t \in Seqs : Own(x, t) \subseteq Elems(x.map[t].ids)
    BY OwnHeld
  <2>3. OwnOK(x, "decode", d) /\ Truth(x, "decode", kv["decode"], d)
    BY <1>1 DEF NodeInv
  <2>4. \A t \in Seqs : TaskOK(x, "decode", t, phase[t])
    BY <1>1 DEF NodeInv
  <2>5. \A t \in Seqs : TaskOK(y, "decode", t, phase'[t])
    <3> HIDE DEF x, y
    <3> SUFFICES ASSUME NEW t \in Seqs PROVE TaskOK(y, "decode", t, phase'[t])
      OBVIOUS
    <3>1. TaskOK(x, "decode", t, phase[t])
      BY <2>4
    <3>2. CASE t = s
      BY ONLY <1>6, <1>7, <1>9, <3>1, <3>2 DEF TaskOK, AllCached
    <3>3. CASE t # s
      BY ONLY <1>6, <1>9, <3>1, <3>3, t \in Seqs DEF TaskOK, AllCached
    <3> QED BY <3>2, <3>3
  <2> HIDE DEF x, y, N, d, e
  <2>6. OwnOK(y, "decode", e)
    BY ONLY <1>0, <1>4, <1>9, <1>11, <1>16, <2>1, <2>2, <2>3, s \in Seqs DEF OwnOK
  <2>7. Truth(y, "decode", kv["decode"], e)
    BY ONLY <1>4, <1>9, <2>3 DEF Truth, N
  <2> QED BY <1>2, <1>4, <2>5, <2>6, <2>7 DEF NodeInv, y, e, N
<1>19. ASSUME NEW t \in Seqs, t # s PROVE (PinOK(t) /\ ReserveOK(t) /\ SentOK(t))'
  <2>1. PinOK(t) /\ ReserveOK(t) /\ SentOK(t)
    BY <1>1 DEF TransferInv
  <2>2. remote'[t] = remote[t]
    BY <1>1, <1>4, <1>19 DEF Shape, PerSeq
  <2>3. \A b \in Elems(x.resv[t]) : y.hash[b] = x.hash[b]
    BY <1>9, <1>10
  <2>4. \A n \in Nodes : /\ m'[n].resv[t] = m[n].resv[t]
                         /\ \A b \in Elems(m[n].resv[t]) : m'[n].hash[b] = m[n].hash[b]
    BY <1>0, <1>2, <1>11, <1>19, <2>3
  <2>5. \A b \in Elems(m["decode"].resv[t]) :
            /\ b \in doubt["decode"] => b \in doubt'["decode"]
            /\ \A r \in Ranks : kv'["decode"][r][b] = kv["decode"][r][b]
    BY <1>2, <1>4
  <2>6. \A u \in Seqs : u # t =>
            Elems(m'["decode"].resv[t]) \cap Elems(m'["decode"].resv[u]) = {}
    BY <1>17 DEF Apart
  <2>7. phase'[t] = phase[t]
    BY <1>6, <1>19
  <2> QED BY <1>2, <2>1, <2>2, <2>4, <2>5, <2>6, <2>7, OtherKept
<1>20. (PinOK(s) /\ ReserveOK(s) /\ SentOK(s))'
  <2>1. PinOK(s)'
    BY <1>2, <1>5, <1>6, <1>13 DEF PinOK, Pinning
  <2>2. SentOK(s)'
    <3>1. p # "Pushing"
      BY <1>5
    <3> QED BY <1>2, <1>6, <1>13, <3>1 DEF SentOK, Sent
  <2>3. remote'[s] = y.resv[s]
    BY <1>1, <1>4 DEF Shape, PerSeq
  <2>4. Labelled(y, s, 0, y.resv[s]) /\ Len(y.resv[s]) <= NumFull
    <3>1. CASE Exhausts(x, k)
      <4>1. y.resv[s] = <<>> /\ Len(<<>>) = 0 /\ 0 <= NumFull
        BY <1>4, <1>11, <1>13, <3>1, DivBounds, SizeAssumption DEF NumFull
      <4> QED BY <4>1 DEF Labelled
    <3>2. CASE ~Exhausts(x, k)
      <4>1. Len(new) \in Nat /\ NumFull \in Nat
        BY <1>9, DivBounds, SizeAssumption DEF NumFull
      <4> QED BY <1>4, <1>9, <1>11, <3>2, <4>1
    <3> QED BY <3>1, <3>2
  <2>5. p = "Reserved" => y.resv[s] # <<>>
    <3> SUFFICES ASSUME p = "Reserved" PROVE y.resv[s] # <<>>
      OBVIOUS
    <3>1. ~Exhausts(x, k) /\ k # 0
      BY <1>4
    <3>2. y.resv[s] = new /\ Len(new) = k
      BY <1>9, <1>11, <3>1
    <3>3. Len(<<>>) = 0
      OBVIOUS
    <3> QED BY <3>1, <3>2, <3>3
  <2>6. p \notin Reserving => y.resv[s] = <<>>
    <3>1. p \notin Reserving => Exhausts(x, k)
      BY <1>4 DEF Reserving
    <3> QED BY <1>11, <1>13, <3>1
  <2>7. Elems(y.resv[s]) \subseteq e
    BY <1>4, <1>16
  <2>8. \A u \in Seqs : u # s => Elems(y.resv[s]) \cap Elems(y.resv[u]) = {}
    BY <1>17 DEF Apart
  <2>9. ReserveOK(s)'
    <3> HIDE DEF y, e
    <3> QED BY <1>6, <2>3, <2>4, <2>5, <2>6, <2>7, <2>8 DEF ReserveOK, y, e
  <2> QED BY <2>1, <2>2, <2>9
<1>21. TransferInv'
  BY <1>19, <1>20 DEF TransferInv
<1>22. Shape'
  <2>1. PerSeq(remote')
    BY <1>1, <1>4 DEF Shape, PerSeq
  <2> QED BY <1>1, <1>2, <1>3, <1>5, <2>1, ShapeKept DEF Shape
<1> QED BY <1>8, <1>18, <1>21, <1>22 DEF IInv

\* What is done for s does not concern the other transfers.
Elsewhere(s) ==
    \A t \in Seqs : t # s =>
        /\ phase'[t] = phase[t] /\ local'[t] = local[t] /\ remote'[t] = remote[t]
        /\ suspect'[t] = suspect[t] /\ sent'[t] = sent[t] /\ state'[t] = state[t]
        /\ \A n \in Nodes : m'[n].resv[t] = m[n].resv[t]
        /\ \A b \in Elems(m["decode"].resv[t]) :
              /\ b \in doubt["decode"] => b \in doubt'["decode"]
              /\ \A r \in Ranks : kv'["decode"][r][b] = kv["decode"][r][b]

\* Then those transfers keep their invariant.
LEMMA OthersKept ==
  ASSUME TransferInv, NEW s \in Seqs, Elsewhere(s), Apart(m'["decode"]),
         \A n \in Nodes : m'[n].hash = m[n].hash
  PROVE  \A t \in Seqs : t # s => (PinOK(t) /\ ReserveOK(t) /\ SentOK(t))'
<1> SUFFICES ASSUME NEW t \in Seqs, t # s PROVE (PinOK(t) /\ ReserveOK(t) /\ SentOK(t))'
  OBVIOUS
<1>1. PinOK(t) /\ ReserveOK(t) /\ SentOK(t)
  BY DEF TransferInv
<1>2. /\ phase'[t] = phase[t] /\ local'[t] = local[t] /\ remote'[t] = remote[t]
      /\ suspect'[t] = suspect[t] /\ sent'[t] = sent[t] /\ state'[t] = state[t]
      /\ \A n \in Nodes : /\ m'[n].resv[t] = m[n].resv[t]
                          /\ \A b \in Elems(m[n].resv[t]) : m'[n].hash[b] = m[n].hash[b]
      /\ \A b \in Elems(m["decode"].resv[t]) :
            /\ b \in doubt["decode"] => b \in doubt'["decode"]
            /\ \A r \in Ranks : kv'["decode"][r][b] = kv["decode"][r][b]
  BY DEF Elsewhere
<1>3. \A u \in Seqs : u # t =>
         Elems(m'["decode"].resv[t]) \cap Elems(m'["decode"].resv[u]) = {}
  BY DEF Apart
<1> QED BY <1>1, <1>2, <1>3, OtherKept

\* g is the table f of all requests after an assignment.
Assigned(f, g, s, h) == g = [f EXCEPT ![s] = h]
AssignedAt(f, g, s, r, v) == g = [f EXCEPT ![s][r] = v]

\* What a table of all requests and ranks holds then.
LEMMA RankChange ==
  ASSUME NEW f, PerRank(f), NEW s \in Seqs, NEW h, OnRanks(h),
         NEW g, Assigned(f, g, s, h)
  PROVE  g[s] = h /\ PerRank(g) /\ \A t \in Seqs : t # s => g[t] = f[t]
<1>1. f = [t \in Seqs |-> [r \in Ranks |-> f[t][r]]]
  BY DEF PerRank
<1>2. g[s] = h /\ \A t \in Seqs : t # s => g[t] = f[t]
  BY <1>1 DEF Assigned
<1>3. \A t \in Seqs : f[t] = [r \in Ranks |-> f[t][r]]
  BY <1>1
<1>4. \A t \in Seqs : g[t] = [r \in Ranks |-> g[t][r]]
  BY <1>2, <1>3 DEF OnRanks
<1>5. g = [t \in Seqs |-> g[t]]
  BY <1>1 DEF Assigned
<1> QED BY <1>2, <1>4, <1>5 DEF PerRank

\* The same for one entry.
LEMMA RankEntry ==
  ASSUME NEW f, PerRank(f), NEW s \in Seqs, NEW r \in Ranks, NEW v,
         NEW g, AssignedAt(f, g, s, r, v)
  PROVE  /\ g[s][r] = v /\ PerRank(g) /\ \A t \in Seqs : t # s => g[t] = f[t]
         /\ \A q \in Ranks : q # r => g[s][q] = f[s][q]
<1> DEFINE h == [f[s] EXCEPT ![r] = v]
<1>1. f = [t \in Seqs |-> [q \in Ranks |-> f[t][q]]]
  BY DEF PerRank
<1>2. f[s] = [q \in Ranks |-> f[s][q]]
  BY <1>1
<1>3. OnRanks(h) /\ h[r] = v /\ \A q \in Ranks : q # r => h[q] = f[s][q]
  BY <1>2 DEF OnRanks
<1>4. Assigned(f, g, s, h)
  BY DEF Assigned, AssignedAt
<1> HIDE DEF h
<1>5. g[s] = h /\ PerRank(g) /\ \A t \in Seqs : t # s => g[t] = f[t]
  BY ONLY <1>3, <1>4, PerRank(f), s \in Seqs, RankChange
<1> QED BY <1>3, <1>5

\* push_kv pins what the prefill node still has.
LEMMA PinStep ==
  ASSUME IInv, NEW s \in Seqs, PinBlocks(s)
  PROVE  IInv'
<1> DEFINE x == m["prefill"]
           N == NumOf["prefill"]
           q == Len(remote[s])
           y == pin_blocks_by_hashes(x, s, s, 0, q)
<1>0. "prefill" \in Nodes /\ "decode" \in Nodes /\ N \in Nat /\ Regions = Seqs
      /\ Nodes = {"prefill", "decode"} /\ Tokens("prefill") \in [Seqs -> 0..MaxLen]
      /\ NumOf["decode"] \in Nat
  BY NodeFacts
<1>1. Shape /\ NodeInv("prefill") /\ NodeInv("decode") /\ TransferInv
  BY DEF IInv
<1>2. /\ phase[s] = "Reserved" /\ m' = [m EXCEPT !["prefill"] = y]
      /\ local' = [local EXCEPT ![s] = y.resv[s]] /\ Moves(s, "Pushing")
      /\ state' = [state EXCEPT ![s] =
                      [r \in Ranks |-> IF y.resv[s] = <<>> THEN "DONE" ELSE "PROC"]]
      /\ UNCHANGED <<kv, doubt, remote, sent, suspect>>
  BY DEF PinBlocks, Moves, history
<1>y. y = pin_blocks_by_hashes(x, s, s, 0, q)
  OBVIOUS
<1>3. PinOK(s) /\ ReserveOK(s) /\ SentOK(s)
  BY <1>1 DEF TransferInv
<1>4. /\ x.resv[s] = <<>> /\ m["decode"].resv[s] = remote[s] /\ remote[s] # <<>>
      /\ \A r \in Ranks : sent[s][r] = 0
  BY <1>2, <1>3 DEF PinOK, Pinning, ReserveOK, SentOK, Sent, Reserving
<1>5. Sound(x, N, Tokens("prefill")) /\ x \in Manager(N) /\ x.resv \in [Seqs -> Seq(Blocks(N))]
  BY <1>0, <1>1, ManagerFields DEF NodeInv, Sound
<1>6. q \in 0..NumFull /\ 0 < q /\ 0 \in 0..NumFull
  <2>1. remote[s] \in Seq(Blocks(NumOf["decode"])) /\ q <= NumFull
    <3>1. m["decode"] \in Manager(NumOf["decode"])
      BY <1>1 DEF NodeInv, Sound
    <3> QED BY <1>0, <1>3, <1>4, <3>1, ManagerFields DEF ReserveOK
  <2>2. NumFull \in Nat
    BY DivBounds, SizeAssumption DEF NumFull
  <2> QED BY <1>4, <2>1, <2>2
<1> HIDE DEF y, q
<1>7. m'["prefill"] = y /\ PerNode(m') /\ m'["decode"] = m["decode"]
  BY <1>0, <1>1, <1>2, OneManager
<1>8. Sound(y, N, Tokens("prefill")) /\ PinnedFor(x, y, s, s, 0, q)
  <2> HIDE DEF x, N
  <2>1. s \in Regions
    BY <1>0
  <2> QED BY ONLY <1>0, <1>4, <1>5, <1>6, <1>y, <2>1, s \in Seqs, PinSound
<1>9. PICK ids : OnlyRegion(x, y, s, ids) /\ Labelled(x, s, 0, ids) /\ 0 + Len(ids) <= q
  BY <1>8 DEF PinnedFor
<1>10. /\ y.hash = x.hash /\ y.map = x.map /\ y.resv[s] = ids
       /\ \A t \in Seqs : t # s => y.resv[t] = x.resv[t]
  BY <1>5, <1>9 DEF OnlyRegion
<1>11. ids \in Seq(Blocks(N))
  <2>1. y.resv \in [Seqs -> Seq(Blocks(N))]
    BY <1>0, <1>8, ManagerFields DEF Sound
  <2> QED BY <1>10, <2>1
<1>12. phase'[s] = "Pushing" /\ \A t \in Seqs : t # s => phase'[t] = phase[t]
  BY <1>1, <1>2, MovesPhase
<1>13. \A n \in Nodes : /\ "Pushing" \notin Active(n) /\ phase[s] \notin Active(n)
                        /\ "Pushing" # Arriving(n)
  BY <1>2 DEF Active, Arriving
<1>14. NodeInv("decode")'
  BY <1>0, <1>1, <1>2, <1>7, <1>13, SameNode
<1>15. NodeInv("prefill")'
  <2>1. OwnOK(y, "prefill", doubt["prefill"])
    <3>1. \A t \in Seqs : Own(y, t) = Own(x, t)
      BY <1>10, OwnSame
    <3>2. OwnOK(x, "prefill", doubt["prefill"])
      BY <1>1 DEF NodeInv
    <3> QED BY ONLY <3>1, <3>2 DEF OwnOK
  <2>2. doubt["prefill"] \ doubt'["prefill"] = {}
    BY <1>2
  <2> QED BY <1>0, <1>1, <1>2, <1>7, <1>8, <1>10, <1>13, <2>1, <2>2, RegionsNode
<1>16. /\ local'[s] = ids /\ \A t \in Seqs : t # s => local'[t] = local[t]
       /\ PerSeq(local')
  BY <1>1, <1>2, <1>10 DEF Shape, PerSeq
<1> DEFINE st == [r \in Ranks |-> IF ids = <<>> THEN "DONE" ELSE "PROC"]
<1>17. /\ state'[s] = st /\ \A t \in Seqs : t # s => state'[t] = state[t]
       /\ PerRank(state')
  <2>1. Assigned(state, state', s, st)
    BY <1>2, <1>10 DEF Assigned
  <2>2. OnRanks(st)
    BY DEF OnRanks
  <2>3. PerRank(state)
    BY <1>1 DEF Shape
  <2> HIDE DEF st
  <2> QED BY <2>1, <2>2, <2>3, RankChange
<1>18. \A t \in Seqs : t # s => (PinOK(t) /\ ReserveOK(t) /\ SentOK(t))'
  <2>1. Elsewhere(s)
    BY <1>0, <1>2, <1>7, <1>10, <1>12, <1>16, <1>17 DEF Elsewhere
  <2>2. Apart(m'["decode"])
    BY <1>1, <1>7 DEF TransferInv, ReserveOK, Apart
  <2>3. \A n \in Nodes : m'[n].hash = m[n].hash
    BY <1>0, <1>7, <1>10
  <2> QED BY <1>1, <2>1, <2>2, <2>3, OthersKept
<1>19. (PinOK(s) /\ ReserveOK(s) /\ SentOK(s))'
  <2>1. Labelled(y, s, 0, ids)
    BY <1>9, <1>10 DEF Labelled
  <2>2. Len(ids) <= Len(remote[s])
    BY <1>9, <1>11 DEF q
  <2>3. PinOK(s)'
    BY <1>2, <1>7, <1>10, <1>12, <1>16, <2>1, <2>2 DEF PinOK, Pinning
  <2>4. ReserveOK(s)'
    BY <1>2, <1>3, <1>4, <1>7, <1>12 DEF ReserveOK, Reserving
  <2>5. ids # <<>> => 0 < Len(ids)
    BY <1>11
  <2>6. \A r \in Ranks : state'[s][r] = "PROC" => ids # <<>>
    BY <1>17
  <2>7. Len(ids) \in Nat
    BY <1>11
  <2>8. SentOK(s)'
    BY <1>2, <1>4, <1>12, <1>16, <2>5, <2>6, <2>7 DEF SentOK, Sent
  <2> QED BY <2>3, <2>4, <2>8
<1>20. Shape'
  <2>1. "Pushing" \in Phases
    BY DEF Phases
  <2> QED BY <1>1, <1>2, <1>7, <1>16, <1>17, <2>1, ShapeKept DEF Shape
<1> QED BY <1>14, <1>15, <1>18, <1>19, <1>20 DEF IInv, TransferInv

\* unpin_blocks: what is taken out of doubt has arrived.
LEMMA UnpinStep ==
  ASSUME IInv, NEW s \in Seqs, UnpinBlocks(s)
  PROVE  IInv'
<1> DEFINE x == m["prefill"]
           N == NumOf["prefill"]
           y == unpin_blocks(x, s)
           z == m["decode"]
           d == doubt["decode"]
<1>0. "prefill" \in Nodes /\ "decode" \in Nodes /\ N \in Nat /\ Regions = Seqs
      /\ Nodes = {"prefill", "decode"} /\ Tokens("prefill") \in [Seqs -> 0..MaxLen]
  BY NodeFacts
<1>1. Shape /\ NodeInv("prefill") /\ NodeInv("decode") /\ TransferInv
  BY DEF IInv
<1>2. /\ phase[s] = "Pushing" /\ m' = [m EXCEPT !["prefill"] = y] /\ Moves(s, "Pushed")
      /\ doubt' = [doubt EXCEPT !["decode"] = d \ Arrived(s)]
      /\ UNCHANGED <<kv, local, remote, sent, state, suspect>>
  BY DEF UnpinBlocks, Moves, history
<1>y. y = unpin_blocks(x, s)
  OBVIOUS
<1>3. PinOK(s) /\ ReserveOK(s) /\ SentOK(s)
  BY <1>1 DEF TransferInv
<1>4. /\ x.resv[s] = local[s] /\ z.resv[s] = remote[s] /\ Len(local[s]) <= Len(remote[s])
      /\ Labelled(z, s, 0, remote[s])
  BY <1>2, <1>3 DEF PinOK, Pinning, ReserveOK, Reserving
<1>5. Sound(x, N, Tokens("prefill")) /\ x.resv \in [Seqs -> Seq(Blocks(N))]
  BY <1>0, <1>1, ManagerFields DEF NodeInv, Sound
<1>6. ASSUME NEW b \in Arrived(s)
      PROVE  /\ b \in Elems(z.resv[s])
             /\ \A r \in Ranks : kv["decode"][r][b] = z.hash[b]
  <2>1. PICK j \in 1..Len(local[s]) :
           j \notin suspect[s] /\ b = remote[s][j] /\ \A r \in Ranks : sent[s][r] >= j
    BY DEF Arrived
  <2>2. Len(local[s]) \in Nat /\ Len(remote[s]) \in Nat
    <3>1. local[s] \in Seq(Blocks(N))
      BY <1>4, <1>5
    <3>2. z \in Manager(NumOf["decode"]) /\ NumOf["decode"] \in Nat
      BY <1>1, NodeFacts DEF NodeInv, Sound
    <3>3. remote[s] \in Seq(Blocks(NumOf["decode"]))
      BY <1>0, <1>4, <3>2, ManagerFields
    <3> QED BY <3>1, <3>3
  <2>3. j \in 1..Len(remote[s]) /\ 0 + j = j
    BY <1>4, <2>1, <2>2
  <2>4. z.hash[b] = BlockHash[s][j]
    BY <1>4, <2>1, <2>3 DEF Labelled
  <2>5. b \in Elems(z.resv[s])
    BY <1>4, <2>1, <2>3 DEF Elems
  <2>6. ASSUME NEW r \in Ranks PROVE kv["decode"][r][b] = z.hash[b]
    <3>1. sent[s][r] \in Nat /\ sent[s][r] >= j
      BY <1>3, <2>1 DEF SentOK, Sent
    <3>2. j \in 1..sent[s][r]
      BY <2>1, <2>2, <3>1
    <3>3. kv["decode"][r][remote[s][j]] = BlockHash[s][j]
      BY <1>2, <1>3, <2>1, <3>2 DEF SentOK, Sent
    <3> QED BY <2>1, <2>4, <3>3
  <2> QED BY <2>5, <2>6
<1> HIDE DEF y
<1>7. m'["prefill"] = y /\ PerNode(m') /\ m'["decode"] = z
  BY <1>0, <1>1, <1>2, OneManager
<1>8. /\ doubt'["decode"] = d \ Arrived(s) /\ PerNode(doubt')
      /\ doubt'["prefill"] = doubt["prefill"]
  BY <1>0, <1>1, <1>2 DEF Shape, PerNode
<1>9. Sound(y, N, Tokens("prefill")) /\ OnlyRegion(x, y, s, <<>>)
  BY <1>0, <1>5, <1>y, UnpinSound
<1>10. /\ y.hash = x.hash /\ y.map = x.map /\ y.resv[s] = <<>>
       /\ \A t \in Seqs : t # s => y.resv[t] = x.resv[t]
  BY <1>5, <1>9 DEF OnlyRegion
<1>11. phase'[s] = "Pushed" /\ \A t \in Seqs : t # s => phase'[t] = phase[t]
  BY <1>1, <1>2, MovesPhase
<1>12. \A n \in Nodes : /\ "Pushed" \notin Active(n) /\ phase[s] \notin Active(n)
                        /\ "Pushed" # Arriving(n)
  BY <1>2 DEF Active, Arriving
<1>13. NodeInv("prefill")'
  <2>1. OwnOK(y, "prefill", doubt["prefill"])
    <3>1. \A t \in Seqs : Own(y, t) = Own(x, t)
      BY <1>10, OwnSame
    <3>2. OwnOK(x, "prefill", doubt["prefill"])
      BY <1>1 DEF NodeInv
    <3> QED BY ONLY <3>1, <3>2 DEF OwnOK
  <2>2. doubt["prefill"] \ doubt'["prefill"] = {}
    BY <1>8
  <2> QED BY <1>0, <1>1, <1>2, <1>7, <1>8, <1>9, <1>10, <1>12, <2>1, <2>2, RegionsNode
<1>14. NodeInv("decode")'
  <2>1. OwnOK(z, "decode", d)
    BY <1>1 DEF NodeInv
  <2>2. \A t \in Seqs : \A b \in Own(z, t) : b \notin Elems(z.resv[s])
    BY ONLY <1>0, <2>1, s \in Seqs DEF OwnOK
  <2>3. \A t \in Seqs : \A b \in Own(z, t) : b \in d \ Arrived(s)
    BY ONLY <1>6, <2>1, <2>2 DEF OwnOK
  <2>4. OwnOK(z, "decode", d \ Arrived(s))
    BY ONLY <2>1, <2>3 DEF OwnOK
  <2>5. \A b \in doubt["decode"] \ doubt'["decode"] :
           \A r \in Ranks : kv["decode"][r][b] = m["decode"].hash[b]
    BY <1>6, <1>8
  <2>6. Sound(m'["decode"], NumOf["decode"], Tokens("decode"))
    BY <1>1, <1>7 DEF NodeInv
  <2> QED BY <1>0, <1>1, <1>2, <1>7, <1>8, <1>12, <2>4, <2>5, <2>6, RegionsNode
<1>15. Apart(z)
  BY <1>1 DEF TransferInv, ReserveOK, Apart
<1>16. \A t \in Seqs : t # s => (PinOK(t) /\ ReserveOK(t) /\ SentOK(t))'
  <2>1. \A t \in Seqs : t # s => \A b \in Elems(z.resv[t]) : b \notin Arrived(s)
    BY <1>6, <1>15 DEF Apart
  <2>2. Elsewhere(s)
    BY <1>0, <1>2, <1>7, <1>8, <1>10, <1>11, <2>1 DEF Elsewhere
  <2>3. \A n \in Nodes : m'[n].hash = m[n].hash
    BY <1>0, <1>7, <1>10
  <2> QED BY <1>1, <1>7, <1>15, <2>2, <2>3, OthersKept
<1>17. (PinOK(s) /\ ReserveOK(s) /\ SentOK(s))'
  <2>1. PinOK(s)'
    BY <1>7, <1>10, <1>11 DEF PinOK, Pinning
  <2>2. ReserveOK(s)'
    BY <1>2, <1>3, <1>4, <1>7, <1>11 DEF ReserveOK, Reserving
  <2>3. SentOK(s)'
    BY <1>2, <1>3, <1>11 DEF SentOK, Sent
  <2> QED BY <2>1, <2>2, <2>3
<1>18. Shape'
  <2>1. "Pushed" \in Phases
    BY DEF Phases
  <2> QED BY <1>1, <1>2, <1>7, <1>8, <2>1, ShapeKept DEF Shape
<1> QED BY <1>13, <1>14, <1>16, <1>17, <1>18 DEF IInv, TransferInv

\* One more block of s has been written by rank r: block i of the pinned ones
\* into block i of the region.
Pushes(s, r, i) ==
    /\ m' = m /\ doubt' = doubt /\ phase' = phase /\ local' = local /\ remote' = remote
    /\ kv'["prefill"] = kv["prefill"] /\ PerNode(kv') /\ PerBlock(kv'["decode"], "decode")
    /\ \A q \in Ranks : \A b \in Blocks(NumOf["decode"]) :
          kv'["decode"][q][b] = IF q = r /\ b = remote[s][i] THEN kv["prefill"][r][local[s][i]]
                                ELSE kv["decode"][q][b]
    /\ suspect' = [suspect EXCEPT ![s] =
                      IF local[s][i] \in doubt["prefill"] THEN suspect[s] \union {i}
                      ELSE suspect[s]]
    /\ sent' = [sent EXCEPT ![s][r] = i]
    /\ state' = [state EXCEPT ![s][r] = IF i = Len(local[s]) THEN "DONE" ELSE "PROC"]

\* What push_kv has pinned and reserved for s while the ranks write.
Sends(s) ==
    /\ local[s] \in Seq(Blocks(NumOf["prefill"])) /\ Len(local[s]) \in Nat
    /\ remote[s] \in Seq(Blocks(NumOf["decode"])) /\ Len(local[s]) <= Len(remote[s])
    /\ Len(remote[s]) \in Nat
    /\ m["prefill"].resv[s] = local[s] /\ m["decode"].resv[s] = remote[s]
    /\ Elems(remote[s]) \subseteq doubt["decode"] /\ NoDup(remote[s])
    /\ \A i \in 1..Len(local[s]) :
          /\ m["prefill"].hash[local[s][i]] = BlockHash[s][i]
          /\ m["prefill"].hash[local[s][i]] # NoHash

\* IInv has all of that.
LEMMA PushingSends ==
  ASSUME IInv, NEW s \in Seqs, phase[s] = "Pushing"
  PROVE  Sends(s)
<1>0. NumOf["prefill"] \in Nat /\ NumOf["decode"] \in Nat /\ Regions = Seqs
  BY NodeFacts
<1>1. PinOK(s) /\ ReserveOK(s) /\ NodeInv("prefill") /\ NodeInv("decode")
  BY DEF IInv, TransferInv
<1>2. /\ m["prefill"].resv[s] = local[s] /\ m["decode"].resv[s] = remote[s]
      /\ Len(local[s]) <= Len(remote[s]) /\ Labelled(m["prefill"], s, 0, local[s])
      /\ Elems(remote[s]) \subseteq doubt["decode"]
  BY <1>1 DEF PinOK, Pinning, ReserveOK, Reserving
<1>3. /\ m["prefill"] \in Manager(NumOf["prefill"]) /\ m["decode"] \in Manager(NumOf["decode"])
      /\ RegionOK(m["prefill"], s) /\ RegionOK(m["decode"], s)
  BY <1>0, <1>1 DEF NodeInv, Sound
<1>4. /\ local[s] \in Seq(Blocks(NumOf["prefill"])) /\ remote[s] \in Seq(Blocks(NumOf["decode"]))
  BY <1>0, <1>2, <1>3, RegionBlocks
<1>5. /\ NoDup(remote[s])
      /\ \A i \in 1..Len(local[s]) : m["prefill"].hash[local[s][i]] # NoHash
  BY <1>2, <1>3 DEF RegionOK
<1>6. \A i \in 1..Len(local[s]) : m["prefill"].hash[local[s][i]] = BlockHash[s][i]
  <2> SUFFICES ASSUME NEW i \in 1..Len(local[s])
               PROVE  m["prefill"].hash[local[s][i]] = BlockHash[s][i]
    OBVIOUS
  <2>1. m["prefill"].hash[local[s][i]] = BlockHash[s][0 + i] /\ 0 + i = i
    BY <1>2 DEF Labelled
  <2> QED BY <2>1
<1> QED BY <1>2, <1>4, <1>5, <1>6 DEF Sends

\* PushBlock writes a block that is there.
LEMMA PushEnds ==
  ASSUME IInv, NEW s \in Seqs, NEW r \in Ranks, PushBlock(s, r)
  PROVE  /\ phase[s] = "Pushing" /\ state[s][r] = "PROC"
         /\ sent[s][r] + 1 \in 1..Len(local[s]) /\ Pushes(s, r, sent[s][r] + 1)
<1> DEFINE i == sent[s][r] + 1
           b == remote[s][i]
           v == kv["prefill"][r][local[s][i]]
           N == NumOf["decode"]
<1>1. Shape /\ TransferInv
  BY DEF IInv
<1>2. phase[s] = "Pushing" /\ state[s][r] = "PROC"
  BY DEF PushBlock
<1>3. Sends(s)
  BY <1>2, PushingSends
<1>4. sent[s][r] \in Nat /\ sent[s][r] < Len(local[s]) /\ Len(local[s]) \in Nat
  BY <1>1, <1>2, <1>3 DEF TransferInv, SentOK, Sent, Sends
<1>5. i \in 1..Len(local[s])
  BY <1>4
<1>6. RemoteDescs(s)[i] = b /\ b \in Blocks(N)
  <2>1. /\ remote[s] \in Seq(Blocks(N)) /\ Len(local[s]) <= Len(remote[s])
        /\ Len(local[s]) \in Nat /\ Len(remote[s]) \in Nat
    BY <1>3 DEF Sends
  <2> HIDE DEF i, N
  <2>2. SubSeq(remote[s], 1, Len(local[s]))[i] = remote[s][i] /\ remote[s][i] \in Blocks(N)
    BY ONLY <1>5, <2>1
  <2> QED BY <2>2 DEF RemoteDescs
<1>7. /\ kv' = [kv EXCEPT !["decode"][r][b] = v]
      /\ m' = m /\ doubt' = doubt /\ phase' = phase /\ local' = local /\ remote' = remote
      /\ suspect' = [suspect EXCEPT ![s] =
                        IF local[s][i] \in doubt["prefill"] THEN suspect[s] \union {i}
                        ELSE suspect[s]]
      /\ sent' = [sent EXCEPT ![s][r] = i]
      /\ state' = [state EXCEPT ![s][r] = IF i = Len(local[s]) THEN "DONE" ELSE "PROC"]
  BY <1>6 DEF PushBlock
<1> HIDE DEF i, b, v
<1>8. /\ kv'["prefill"] = kv["prefill"] /\ PerNode(kv') /\ PerBlock(kv'["decode"], "decode")
      /\ \A q \in Ranks : \A c \in Blocks(N) :
            kv'["decode"][q][c] = IF q = r /\ c = b THEN v ELSE kv["decode"][q][c]
  <2> DEFINE k == kv["decode"]
             g == [k EXCEPT ![r][b] = v]
  <2>1. kv = [n \in Nodes |-> kv[n]] /\ "decode" \in Nodes /\ "prefill" \in Nodes
    BY <1>1, NodeFacts DEF Shape, PerNode
  <2>2. k = [q \in Ranks |-> [c \in Blocks(N) |-> k[q][c]]]
    BY <1>1, <2>1 DEF Shape, PerBlock
  <2>3. kv' = [kv EXCEPT !["decode"] = g]
    BY <1>7
  <2>4. kv'["decode"] = g /\ kv'["prefill"] = kv["prefill"] /\ PerNode(kv')
    <3> HIDE DEF g
    <3> QED BY ONLY <2>1, <2>3 DEF PerNode
  <2> HIDE DEF k, N
  <2>5. g = [k EXCEPT ![r] = [k[r] EXCEPT ![b] = v]]
    OBVIOUS
  <2>6. \A q \in Ranks : k[q] = [c \in Blocks(N) |-> k[q][c]]
    BY ONLY <2>2
  <2> DEFINE h == [k[r] EXCEPT ![b] = v]
  <2>7. h = [c \in Blocks(N) |-> h[c]] /\ \A c \in Blocks(N) : h[c] = IF c = b THEN v ELSE k[r][c]
    BY ONLY <2>6, r \in Ranks
  <2> HIDE DEF h
  <2>8. /\ g = [q \in Ranks |-> g[q]] /\ \A q \in Ranks : g[q] = IF q = r THEN h ELSE k[q]
    <3>1. g = [k EXCEPT ![r] = h]
      BY <2>5 DEF h
    <3> HIDE DEF g
    <3> QED BY ONLY <2>2, <3>1, r \in Ranks
  <2> HIDE DEF g
  <2>9. \A q \in Ranks : g[q] = [c \in Blocks(N) |-> g[q][c]]
    BY ONLY <2>6, <2>7, <2>8
  <2>10. g = [q \in Ranks |-> [c \in Blocks(N) |-> g[q][c]]]
    BY ONLY <2>8, <2>9
  <2>11. \A q \in Ranks : \A c \in Blocks(N) :
            g[q][c] = IF q = r /\ c = b THEN v ELSE k[q][c]
    BY ONLY <2>7, <2>8
  <2>12. PerBlock(g, "decode")
    BY <2>10 DEF PerBlock, N
  <2> QED BY <2>4, <2>11, <2>12 DEF k
<1>9. Pushes(s, r, i)
  BY <1>7, <1>8 DEF Pushes, b, v, N
<1> QED BY <1>2, <1>5, <1>9 DEF i

\* The transfer of one block: it stays in doubt, and what is written is the KV
\* of its label unless the source was in doubt.
LEMMA PushStep ==
  ASSUME IInv, NEW s \in Seqs, NEW r \in Ranks, PushBlock(s, r)
  PROVE  IInv'
<1> DEFINE i == sent[s][r] + 1
           N == NumOf["decode"]
           z == m["decode"]
           b == remote[s][i]
           v == kv["prefill"][r][local[s][i]]
<1>0. "prefill" \in Nodes /\ "decode" \in Nodes /\ N \in Nat /\ Regions = Seqs
      /\ Nodes = {"prefill", "decode"} /\ NumOf["prefill"] \in Nat
  BY NodeFacts
<1>1. Shape /\ NodeInv("prefill") /\ NodeInv("decode") /\ TransferInv
  BY DEF IInv
<1>2. /\ phase[s] = "Pushing" /\ state[s][r] = "PROC" /\ i \in 1..Len(local[s]) /\ Pushes(s, r, i)
  BY PushEnds
<1>3. Sends(s)
  BY <1>2, PushingSends
<1>4. PinOK(s) /\ ReserveOK(s) /\ SentOK(s)
  BY <1>1 DEF TransferInv
<1>5. sent[s][r] \in Nat /\ \A q \in Ranks : sent[s][q] \in Nat
  BY <1>4 DEF SentOK, Sent
<1> HIDE DEF i
<1>6. /\ m' = m /\ doubt' = doubt /\ phase' = phase /\ local' = local /\ remote' = remote
      /\ kv'["prefill"] = kv["prefill"] /\ PerNode(kv') /\ PerBlock(kv'["decode"], "decode")
      /\ \A q \in Ranks : \A c \in Blocks(N) :
            kv'["decode"][q][c] = IF q = r /\ c = b THEN v ELSE kv["decode"][q][c]
  BY <1>2 DEF Pushes
<1>7. /\ suspect' = [suspect EXCEPT ![s] =
                        IF local[s][i] \in doubt["prefill"] THEN suspect[s] \union {i}
                        ELSE suspect[s]]
      /\ sent' = [sent EXCEPT ![s][r] = i]
      /\ state' = [state EXCEPT ![s][r] = IF i = Len(local[s]) THEN "DONE" ELSE "PROC"]
  BY <1>2 DEF Pushes
<1>8. /\ i \in 1..Len(remote[s]) /\ b \in Elems(remote[s]) /\ b \in doubt["decode"]
      /\ \A j \in 1..Len(local[s]) : j \in 1..Len(remote[s]) /\ remote[s][j] \in Blocks(N)
      /\ i \in Nat
  BY <1>2, <1>3 DEF Sends, Elems
<1>9. Moves(s, "Pushing")
  BY <1>1, <1>2, <1>6 DEF Moves, Shape
<1>10. \A n \in Nodes : /\ "Pushing" \notin Active(n) /\ phase[s] \notin Active(n)
                        /\ "Pushing" # Arriving(n)
  BY <1>2 DEF Active, Arriving
<1>11. NodeInv("prefill")'
  BY <1>0, <1>1, <1>6, <1>9, <1>10, SameNode
<1>12. NodeInv("decode")'
  <2>1. Truth(z, "decode", kv["decode"], doubt["decode"])
    BY <1>1 DEF NodeInv
  <2>2. Truth(z, "decode", kv'["decode"], doubt["decode"])
    <3> HIDE DEF z, b, v
    <3> QED BY ONLY <1>6, <1>8, <2>1 DEF Truth, N
  <2>3. /\ Sound(z, N, Tokens("decode")) /\ OwnOK(z, "decode", doubt["decode"])
        /\ \A t \in Seqs : TaskOK(z, "decode", t, phase[t])
    BY <1>1 DEF NodeInv
  <2>4. /\ Sound(z, N, Tokens("decode"))' /\ OwnOK(z, "decode", doubt["decode"])'
        /\ (\A t \in Seqs : TaskOK(z, "decode", t, phase[t]))'
        /\ Truth(z, "decode", kv["decode"], doubt["decode"])'
    BY <1>6, <2>2, <2>3
  <2> QED BY <2>4 DEF NodeInv
<1>13. Apart(z)
  BY <1>1 DEF TransferInv, ReserveOK, Apart
<1>14. /\ \A t \in Seqs : t # s => suspect'[t] = suspect[t]
       /\ suspect'[s] = IF local[s][i] \in doubt["prefill"] THEN suspect[s] \union {i}
                        ELSE suspect[s]
       /\ PerSeq(suspect')
  BY <1>1, <1>7 DEF Shape, PerSeq
<1>15. /\ sent'[s][r] = i /\ PerRank(sent') /\ \A t \in Seqs : t # s => sent'[t] = sent[t]
       /\ \A q \in Ranks : q # r => sent'[s][q] = sent[s][q]
  <2>1. PerRank(sent)
    BY <1>1 DEF Shape
  <2>2. AssignedAt(sent, sent', s, r, i)
    BY <1>7 DEF AssignedAt
  <2> QED BY ONLY <2>1, <2>2, RankEntry, s \in Seqs, r \in Ranks
<1> DEFINE st == IF i = Len(local[s]) THEN "DONE" ELSE "PROC"
<1>16. /\ state'[s][r] = st /\ PerRank(state') /\ \A t \in Seqs : t # s => state'[t] = state[t]
       /\ \A q \in Ranks : q # r => state'[s][q] = state[s][q]
  <2>1. PerRank(state)
    BY <1>1 DEF Shape
  <2>2. AssignedAt(state, state', s, r, st)
    BY <1>7 DEF AssignedAt
  <2> HIDE DEF st
  <2> QED BY ONLY <2>1, <2>2, RankEntry, s \in Seqs, r \in Ranks
<1>17. \A t \in Seqs : t # s => (PinOK(t) /\ ReserveOK(t) /\ SentOK(t))'
  <2>1. \A t \in Seqs : t # s => \A c \in Elems(z.resv[t]) : c # b
    BY <1>3, <1>8, <1>13 DEF Apart, Sends
  <2>2. \A t \in Seqs : \A c \in Elems(z.resv[t]) : c \in Blocks(N)
    <3>1. z \in Manager(N)
      BY <1>1 DEF NodeInv, Sound
    <3> QED BY <1>0, <3>1, RegionBlocks
  <2>3. \A t \in Seqs : t # s => \A c \in Elems(z.resv[t]) : \A q \in Ranks :
           kv'["decode"][q][c] = kv["decode"][q][c]
    BY <1>6, <2>1, <2>2
  <2>4. Elsewhere(s)
    BY <1>6, <1>14, <1>15, <1>16, <2>3 DEF Elsewhere
  <2> QED BY <1>1, <1>6, <1>13, <2>4, OthersKept
<1>18. (PinOK(s) /\ ReserveOK(s) /\ SentOK(s))'
  <2>1. PinOK(s)' /\ ReserveOK(s)'
    BY <1>4, <1>6 DEF PinOK, Pinning, ReserveOK
  <2>2. \A j \in 1..Len(local[s]) : j # i => remote[s][j] # b
    BY <1>3, <1>8 DEF Sends, NoDup
  <2>3. local[s][i] \notin doubt["prefill"] => v = BlockHash[s][i]
    <3> SUFFICES ASSUME local[s][i] \notin doubt["prefill"] PROVE v = BlockHash[s][i]
      OBVIOUS
    <3>1. Truth(m["prefill"], "prefill", kv["prefill"], doubt["prefill"])
      BY <1>1 DEF NodeInv
    <3>2. /\ local[s][i] \in Blocks(NumOf["prefill"])
          /\ m["prefill"].hash[local[s][i]] = BlockHash[s][i]
          /\ m["prefill"].hash[local[s][i]] # NoHash
      BY <1>2, <1>3 DEF Sends
    <3> QED BY <3>1, <3>2 DEF Truth
  <2>4. i \notin suspect'[s] => v = BlockHash[s][i]
    BY <1>14, <2>3
  <2>5. \A j \in Nat : j \notin suspect'[s] => j \notin suspect[s]
    BY <1>14
  <2> HIDE DEF b, v
  <2>6. ASSUME NEW q \in Ranks, NEW j \in 1..sent'[s][q], j \notin suspect'[s]
        PROVE  kv'["decode"][q][remote[s][j]] = BlockHash[s][j]
    <3>1. /\ sent[s][q] <= Len(local[s]) /\ Len(local[s]) \in Nat
          /\ \A k \in 1..sent[s][q] :
                k \notin suspect[s] => kv["decode"][q][remote[s][k]] = BlockHash[s][k]
      BY <1>2, <1>3, <1>4 DEF SentOK, Sent, Sends
    <3>2. CASE q = r /\ j = i
      <4>1. v = BlockHash[s][i]
        BY <2>4, <2>6, <3>2
      <4>2. b \in Blocks(N) /\ remote[s][j] = b
        BY <1>2, <1>8, <3>2 DEF b
      <4>3. kv'["decode"][q][b] = v
        BY <1>6, <3>2, <4>2
      <4> QED BY <3>2, <4>1, <4>2, <4>3
    <3>3. CASE ~(q = r /\ j = i)
      <4>1. j \in 1..sent[s][q]
        <5>1. CASE q = r
          <6>1. j \in 1..i /\ j # i /\ i = sent[s][r] + 1
            BY <1>15, <2>6, <3>3, <5>1 DEF i
          <6>2. j \in 1..sent[s][r]
            BY ONLY <1>5, <6>1
          <6> QED BY <5>1, <6>2
        <5>2. CASE q # r
          BY <1>15, <2>6, <5>2
        <5> QED BY <5>1, <5>2
      <4>2. j \in 1..Len(local[s]) /\ j \in Nat
        BY <1>5, <3>1, <4>1
      <4>3. kv["decode"][q][remote[s][j]] = BlockHash[s][j]
        BY <2>5, <2>6, <3>1, <4>1, <4>2
      <4>4. remote[s][j] \in Blocks(N) /\ ~(q = r /\ remote[s][j] = b)
        BY <1>8, <2>2, <3>3, <4>2
      <4> QED BY <1>6, <4>3, <4>4
    <3> QED BY <3>2, <3>3
  <2>7. ASSUME NEW q \in Ranks
        PROVE  /\ sent'[s][q] \in Nat /\ sent'[s][q] <= Len(local[s])
               /\ state'[s][q] = "PROC" => sent'[s][q] < Len(local[s])
    <3>1. CASE q = r
      BY <1>2, <1>8, <1>15, <1>16, <3>1
    <3>2. CASE q # r
      <4>1. /\ sent[s][q] <= Len(local[s])
            /\ state[s][q] = "PROC" => sent[s][q] < Len(local[s])
        BY <1>2, <1>4 DEF SentOK, Sent
      <4> QED BY <1>5, <1>15, <1>16, <3>2, <4>1
    <3> QED BY <3>1, <3>2
  <2>8. SentOK(s)'
    BY <1>2, <1>6, <2>6, <2>7 DEF SentOK, Sent
  <2> QED BY <2>1, <2>8
<1>19. Shape'
  <2>1. "Pushing" \in Phases
    BY DEF Phases
  <2>2. \A n \in Nodes : PerBlock(kv'[n], n)
    BY <1>0, <1>1, <1>6 DEF Shape
  <2> QED BY <1>1, <1>6, <1>9, <1>14, <1>15, <1>16, <2>1, <2>2, ShapeKept DEF Shape
<1> QED BY <1>11, <1>12, <1>17, <1>18, <1>19 DEF IInv, TransferInv

\* The transfer of a rank fails: nothing has been written.
LEMMA FailStep ==
  ASSUME IInv, NEW s \in Seqs, NEW r \in Ranks, PushFails(s, r)
  PROVE  IInv'
<1>1. Shape /\ NodeInv("prefill") /\ NodeInv("decode") /\ TransferInv
  BY DEF IInv
<1>2. /\ phase[s] = "Pushing" /\ \E e \in {"ERR", "RAISED"} : state' = [state EXCEPT ![s][r] = e]
      /\ UNCHANGED <<m, kv, doubt, suspect, phase, local, remote, sent>>
  BY DEF PushFails, history
<1>e. PICK e \in {"ERR", "RAISED"} : state' = [state EXCEPT ![s][r] = e]
  BY <1>2
<1>3. /\ state'[s][r] = e /\ PerRank(state')
      /\ \A t \in Seqs : t # s => state'[t] = state[t]
      /\ \A q \in Ranks : q # r => state'[s][q] = state[s][q]
  <2>1. PerRank(state)
    BY <1>1 DEF Shape
  <2>2. AssignedAt(state, state', s, r, e)
    BY <1>e DEF AssignedAt
  <2> QED BY ONLY <2>1, <2>2, RankEntry, s \in Seqs, r \in Ranks
<1>4. NodeInv("prefill")' /\ NodeInv("decode")'
  BY <1>1, <1>2 DEF NodeInv
<1>5. Shape'
  BY <1>1, <1>2, <1>3 DEF Shape
<1>6. ASSUME NEW t \in Seqs PROVE (PinOK(t) /\ ReserveOK(t) /\ SentOK(t))'
  <2>1. PinOK(t) /\ ReserveOK(t) /\ SentOK(t)
    BY <1>1 DEF TransferInv
  <2>2. \A q \in Ranks : state'[t][q] = "PROC" => state[t][q] = "PROC"
    BY <1>3
  <2> QED BY <1>2, <2>1, <2>2 DEF PinOK, ReserveOK, SentOK
<1> QED BY <1>4, <1>5, <1>6 DEF IInv, TransferInv

\* A request is given up: its regions stay as they are.
LEMMA GiveUpStep ==
  ASSUME IInv, NEW s \in Seqs, ForwardFails(s) \/ PushPanics(s)
  PROVE  IInv'
<1>1. Shape /\ NodeInv("prefill") /\ NodeInv("decode") /\ TransferInv
  BY DEF IInv
<1>2. /\ \/ phase[s] = "Prefilled" /\ Moves(s, "Failed")
         \/ phase[s] \in {"Reserved", "Pushed"} /\ Moves(s, "Abandoned")
         \/ phase[s] = "Pushing" /\ Moves(s, "Panicked")
      /\ UNCHANGED <<m, kv, doubt, suspect, local, remote, sent, state>>
  BY <1>1 DEF ForwardFails, PushPanics, Moves, Shape, history, transfer
<1>3. PICK p \in {"Failed", "Abandoned", "Panicked"} :
         /\ Moves(s, p)
         /\ \/ phase[s] = "Prefilled" /\ p = "Failed"
            \/ phase[s] \in {"Reserved", "Pushed"} /\ p = "Abandoned"
            \/ phase[s] = "Pushing" /\ p = "Panicked"
  BY <1>2
<1>4. phase'[s] = p /\ \A t \in Seqs : t # s => phase'[t] = phase[t]
  BY <1>1, <1>3, MovesPhase
<1>5. ASSUME NEW n \in {"prefill", "decode"}
      PROVE  p \notin Active(n) /\ phase[s] \notin Active(n) /\ p # Arriving(n)
  BY <1>3 DEF Active, Arriving
<1>6. NodeInv("prefill")' /\ NodeInv("decode")'
  BY <1>1, <1>2, <1>3, <1>5, SameNode
<1>7. p \in Phases
  BY DEF Phases
<1>8. Shape'
  BY <1>1, <1>2, <1>3, <1>7, ShapeKept DEF Shape
<1>9. ASSUME NEW t \in Seqs PROVE (PinOK(t) /\ ReserveOK(t) /\ SentOK(t))'
  <2>1. PinOK(t) /\ ReserveOK(t) /\ SentOK(t)
    BY <1>1 DEF TransferInv
  <2>2. /\ phase'[t] \in Pinning <=> phase[t] \in Pinning
        /\ phase'[t] \in Reserving <=> phase[t] \in Reserving
        /\ phase'[t] \in {"Reserved", "Pushing"} => phase'[t] = phase[t]
        /\ phase[t] \in Sent => phase'[t] \in Sent
    BY <1>3, <1>4 DEF Pinning, Reserving, Sent
  <2>3. PinOK(t)'
    BY <1>2, <2>1, <2>2 DEF PinOK
  <2>4. ReserveOK(t)'
    BY <1>2, <2>1, <2>2 DEF ReserveOK
  <2>5. SentOK(t)'
    BY <1>2, <2>1, <2>2 DEF SentOK
  <2> QED BY <2>3, <2>4, <2>5
<1> QED BY <1>6, <1>8, <1>9 DEF IInv, TransferInv

\* trigger_request: the region is given up, and s holds what the cache has.
LEMMA TriggerStep ==
  ASSUME IInv, NEW s \in Seqs, TriggerRequest(s)
  PROVE  IInv'
<1> DEFINE x == m["decode"]
           N == NumOf["decode"]
           total == Total("decode", s)
           w == activate_reserved_blocks(x, s, success[s])
           y == update_prefix_cache_blocks(w, s, total)
           none == [r \in Ranks |-> 0]
           idle == [r \in Ranks |-> "none"]
<1>0. "prefill" \in Nodes /\ "decode" \in Nodes /\ N \in Nat /\ Regions = Seqs
      /\ Nodes = {"prefill", "decode"} /\ Tokens("decode") \in [Seqs -> 0..MaxLen]
      /\ Tokens("decode")[s] = total
  BY NodeFacts
<1>1. Shape /\ NodeInv("prefill") /\ NodeInv("decode") /\ TransferInv
  BY DEF IInv
<1>2. /\ phase[s] = "Pushed" /\ m' = [m EXCEPT !["decode"] = y] /\ Moves(s, "Triggered")
      /\ local' = [local EXCEPT ![s] = <<>>] /\ remote' = [remote EXCEPT ![s] = <<>>]
      /\ sent' = [sent EXCEPT ![s] = none] /\ state' = [state EXCEPT ![s] = idle]
      /\ suspect' = [suspect EXCEPT ![s] = {}] /\ UNCHANGED <<kv, doubt>>
  BY DEF TriggerRequest, Moves
<1>3. PinOK(s) /\ ReserveOK(s) /\ SentOK(s)
  BY <1>1 DEF TransferInv
<1>4. /\ Sound(x, N, Tokens("decode")) /\ x.resv \in [Seqs -> Seq(Blocks(N))]
      /\ MapOK(x, s, total) /\ ~x.map[s].live
  <2>1. /\ Sound(x, N, Tokens("decode")) /\ x.resv \in [Seqs -> Seq(Blocks(N))]
        /\ MapOK(x, s, total) /\ TaskOK(x, "decode", s, phase[s])
    BY <1>0, <1>1, ManagerFields DEF NodeInv, Sound
  <2> QED BY <1>2, <2>1 DEF TaskOK, Active
<1>w. w = activate_reserved_blocks(x, s, success[s])
      /\ y = update_prefix_cache_blocks(w, s, Tokens("decode")[s])
  BY <1>0
<1>n. OnRanks(none) /\ OnRanks(idle) /\ \A r \in Ranks : none[r] = 0
  BY DEF OnRanks
<1> HIDE DEF w, y, none, idle
<1>5. m'["decode"] = y /\ PerNode(m') /\ m'["prefill"] = m["prefill"]
  BY <1>0, <1>1, <1>2, OneManager
<1>6. Sound(w, N, Tokens("decode")) /\ OnlyRegion(x, w, s, <<>>)
  BY <1>0, <1>4, <1>w, ActivateSound
<1>7. AllCached(w, s)
  <2>1. w.map[s] = NoMap
    BY <1>4, <1>6 DEF OnlyRegion, MapOK
  <2>2. Len(<<>>) = 0 /\ BlockSize * 0 = 0
    BY SizeAssumption
  <2> QED BY <2>1, <2>2 DEF AllCached, NoMap
<1>8. /\ Sound(y, N, Tokens("decode")) /\ OnlyMap(w, y, s) /\ AllCached(y, s) /\ y.map[s].live
  BY <1>0, <1>6, <1>7, <1>w, UpdateSound
<1>9. /\ y.hash = x.hash /\ \A t \in Seqs : t # s => y.map[t] = x.map[t]
      /\ y.resv = [x.resv EXCEPT ![s] = <<>>]
  BY ONLY <1>6, <1>8 DEF OnlyRegion, OnlyMap
<1>10. y.resv[s] = <<>> /\ \A t \in Seqs : t # s => y.resv[t] = x.resv[t]
  BY ONLY <1>4, <1>9, s \in Seqs
<1>11. \A q \in Seqs : Elems(y.resv[q]) \subseteq Elems(x.resv[q])
  BY <1>10 DEF Elems
<1>12. NodeInv("decode")'
  <2>1. OnlyHits(x, y, s)
    BY <1>0, <1>9, <1>11 DEF OnlyHits
  <2>2. Moves(s, Arriving("decode"))
    BY <1>2 DEF Arriving
  <2> QED BY <1>0, <1>1, <1>2, <1>5, <1>8, <2>1, <2>2, ArrivesNode
<1>13. NodeInv("prefill")'
  <2>1. /\ "Triggered" \notin Active("prefill") /\ phase[s] \notin Active("prefill")
        /\ "Triggered" # Arriving("prefill")
    BY <1>2 DEF Active, Arriving
  <2> QED BY <1>1, <1>2, <1>5, <2>1, SameNode
<1>14. phase'[s] = "Triggered" /\ \A t \in Seqs : t # s => phase'[t] = phase[t]
  BY <1>1, <1>2, MovesPhase
<1>15. /\ \A t \in Seqs : t # s => /\ local'[t] = local[t] /\ remote'[t] = remote[t]
                                   /\ suspect'[t] = suspect[t]
       /\ PerSeq(local') /\ PerSeq(remote') /\ PerSeq(suspect')
  BY <1>1, <1>2 DEF Shape, PerSeq
<1>16. /\ sent'[s] = none /\ PerRank(sent') /\ \A t \in Seqs : t # s => sent'[t] = sent[t]
  <2>1. PerRank(sent) /\ Assigned(sent, sent', s, none)
    BY <1>1, <1>2 DEF Shape, Assigned
  <2> QED BY ONLY <1>n, <2>1, RankChange, s \in Seqs
<1>17. /\ PerRank(state') /\ \A t \in Seqs : t # s => state'[t] = state[t]
  <2>1. PerRank(state) /\ Assigned(state, state', s, idle)
    BY <1>1, <1>2 DEF Shape, Assigned
  <2> QED BY ONLY <1>n, <2>1, RankChange, s \in Seqs
<1>18. Apart(y)
  <2>1. Apart(x)
    BY <1>1 DEF TransferInv, ReserveOK, Apart
  <2> HIDE DEF x
  <2> QED BY ONLY <1>11, <2>1 DEF Apart
<1>19. \A t \in Seqs : t # s => (PinOK(t) /\ ReserveOK(t) /\ SentOK(t))'
  <2>1. \A n \in Nodes : \A t \in Seqs : t # s => m'[n].resv[t] = m[n].resv[t]
    BY <1>0, <1>5, <1>10
  <2>2. Elsewhere(s)
    BY <1>2, <1>14, <1>15, <1>16, <1>17, <2>1 DEF Elsewhere
  <2>3. \A n \in Nodes : m'[n].hash = m[n].hash
    BY <1>0, <1>5, <1>9
  <2> QED BY <1>1, <1>5, <1>18, <2>2, <2>3, OthersKept
<1>20. (PinOK(s) /\ ReserveOK(s) /\ SentOK(s))'
  <2>1. PinOK(s)'
    BY <1>2, <1>3, <1>5, <1>14 DEF PinOK, Pinning
  <2>2. Len(<<>>) = 0 /\ 0 <= NumFull /\ Labelled(y, s, 0, <<>>)
    BY DivBounds, SizeAssumption DEF NumFull, Labelled
  <2>3. \A t \in Seqs : t # s => Elems(y.resv[s]) \cap Elems(y.resv[t]) = {}
    BY <1>18 DEF Apart
  <2>4. ReserveOK(s)'
    BY <1>5, <1>10, <1>14, <2>2, <2>3 DEF ReserveOK, Reserving
  <2>5. SentOK(s)'
    BY <1>14, <1>16, <1>n DEF SentOK, Sent
  <2> QED BY <2>1, <2>4, <2>5
<1>21. Shape'
  <2>1. "Triggered" \in Phases
    BY DEF Phases
  <2> QED BY <1>1, <1>2, <1>5, <1>15, <1>16, <1>17, <2>1, ShapeKept DEF Shape
<1> QED BY <1>12, <1>13, <1>19, <1>20, <1>21 DEF IInv, TransferInv

-----------------------------------------------------------------------------
(* The invariant *)

\* The invariant holds of two empty caches.
LEMMA InitIInv == Init => IInv
<1> SUFFICES ASSUME Init PROVE IInv
  OBVIOUS
<1>0. /\ Nodes = {"prefill", "decode"} /\ Regions = Seqs
      /\ \A n \in Nodes : NumOf[n] \in Nat /\ Tokens(n) \in [Seqs -> 0..MaxLen]
  BY NodeFacts
<1>1. phase = [s \in Seqs |-> "New"]
  BY DEF Init
<1>2. Shape
  <2>1. phase \in [Seqs -> Phases]
    BY <1>1 DEF Phases
  <2>2. PerNode(m) /\ PerNode(doubt) /\ PerNode(kv)
    BY DEF Init, PerNode
  <2>3. PerSeq(local) /\ PerSeq(remote) /\ PerSeq(suspect)
    BY DEF Init, PerSeq
  <2>4. PerRank(sent) /\ PerRank(state)
    BY DEF Init, PerRank
  <2>5. \A n \in Nodes : PerBlock(kv[n], n)
    BY DEF Init, PerBlock, Blocks
  <2> QED BY <2>1, <2>2, <2>3, <2>4, <2>5 DEF Shape
<1>3. \A n \in Nodes : m[n] = NewManager(NumOf[n]) /\ doubt[n] = {}
  BY DEF Init
<1>4. ASSUME NEW n \in Nodes
      PROVE  /\ m[n].map = [s \in Seqs |-> NoMap] /\ m[n].resv = [s \in Seqs |-> <<>>]
             /\ m[n].hash = [b \in Blocks(NumOf[n]) |-> NoHash]
  <2> DEFINE N == NumOf[n]
             x == m[n]
  <2>1. x = NewManager(N)
    BY <1>3
  <2> HIDE DEF N, x
  <2>2. /\ x.map = [s \in Seqs |-> NoMap] /\ x.resv = [s \in Regions |-> <<>>]
        /\ x.hash = [b \in Blocks(N) |-> NoHash]
    BY ONLY <2>1 DEF NewManager, Blocks
  <2> QED BY <1>0, <2>2 DEF N, x
<1>5. ASSUME NEW n \in Nodes PROVE NodeInv(n)
  <2>1. Sound(m[n], NumOf[n], Tokens(n))
    BY <1>0, <1>3, NewSound
  <2>2. \A s \in Seqs : m[n].map[s] = NoMap
    BY <1>4
  <2>3. ASSUME NEW s \in Seqs PROVE Own(m[n], s) = {} /\ TaskOK(m[n], n, s, phase[s])
    <3>1. /\ Own(m[n], s) = {} /\ ~m[n].map[s].live
          /\ (m[n].map[s].filled \div BlockSize) * BlockSize = m[n].map[s].filled
          /\ m[n].map[s].slots = BlockSize * Len(m[n].map[s].ids)
      BY <2>2, NoMapOwns DEF NoMap
    <3>2. phase[s] \notin Active(n) /\ phase[s] # Arriving(n)
      BY <1>1 DEF Active, Arriving
    <3> QED BY <3>1, <3>2 DEF TaskOK
  <2>4. OwnOK(m[n], n, doubt[n])
    BY <2>3 DEF OwnOK
  <2>5. Truth(m[n], n, kv[n], doubt[n])
    BY <1>4 DEF Truth
  <2> QED BY <2>1, <2>3, <2>4, <2>5 DEF NodeInv
<1>6. ASSUME NEW s \in Seqs PROVE PinOK(s) /\ ReserveOK(s) /\ SentOK(s)
  <2>1. /\ m["prefill"].resv[s] = <<>> /\ m["decode"].resv[s] = <<>> /\ phase[s] = "New"
        /\ \A t \in Seqs : m["decode"].resv[t] = <<>>
    BY <1>0, <1>1, <1>4
  <2>2. Len(<<>>) = 0 /\ 0 <= NumFull /\ Elems(<<>>) = {} /\ Labelled(m["decode"], s, 0, <<>>)
    BY DivBounds, SizeAssumption DEF NumFull, Labelled, Elems
  <2>3. \A r \in Ranks : sent[s][r] = 0
    BY DEF Init
  <2>4. PinOK(s)
    BY <2>1 DEF PinOK, Pinning
  <2>5. ReserveOK(s)
    BY <2>1, <2>2 DEF ReserveOK, Reserving
  <2>6. SentOK(s)
    BY <2>1, <2>3 DEF SentOK, Sent
  <2> QED BY <2>4, <2>5, <2>6
<1> QED BY <1>0, <1>2, <1>5, <1>6 DEF IInv, TransferInv

\* Every step keeps it.
LEMMA NextIInv == IInv /\ [Next]_vars => IInv'
<1> SUFFICES ASSUME IInv, [Next]_vars PROVE IInv'
  OBVIOUS
<1>0. "prefill" \in Nodes /\ "decode" \in Nodes
  BY NodeFacts
<1>1. CASE UNCHANGED vars
  <2>1. UNCHANGED <<m, kv, doubt, suspect, phase, local, remote, sent, state>>
    BY <1>1 DEF vars, history, transfer
  <2>2. Shape'
    BY <2>1 DEF IInv, Shape
  <2>3. NodeInv("prefill")' /\ NodeInv("decode")'
    BY <2>1 DEF IInv, NodeInv
  <2>4. TransferInv'
    BY <2>1 DEF IInv, TransferInv, PinOK, Pinning, ReserveOK, SentOK, Sent
  <2> QED BY <2>2, <2>3, <2>4 DEF IInv
<1>2. ASSUME NEW s \in Seqs, AddRequest(s) PROVE IInv'
  BY <1>2, AddStep
<1>3. ASSUME NEW s \in Seqs, Prefill(s) PROVE IInv'
  <2>1. /\ phase[s] = Arriving("prefill") /\ Admit("prefill", s) /\ Moves(s, "Prefilling")
        /\ "Prefilling" \in Active("prefill") /\ "Prefilling" # Arriving("prefill")
    BY <1>3 DEF Prefill, Arriving, Active, Moves
  <2> QED BY <1>0, <2>1, AdmitStep
<1>4. ASSUME NEW s \in Seqs, Prefilled(s) PROVE IInv'
  <2>1. phase[s] \in Active("prefill") /\ Finish("prefill", s) /\ Moves(s, "Prefilled")
    BY <1>4 DEF Prefilled, Active, Moves
  <2> QED BY <1>0, <2>1, FinishStep
<1>5. ASSUME NEW s \in Seqs, ReserveRequest(s) PROVE IInv'
  BY <1>5, ReserveStep
<1>6. ASSUME NEW s \in Seqs, PinBlocks(s) PROVE IInv'
  BY <1>6, PinStep
<1>7. ASSUME NEW s \in Seqs, UnpinBlocks(s) PROVE IInv'
  BY <1>7, UnpinStep
<1>8. ASSUME NEW s \in Seqs, TriggerRequest(s) PROVE IInv'
  BY <1>8, TriggerStep
<1>9. ASSUME NEW s \in Seqs, Decode(s) PROVE IInv'
  <2>1. /\ phase[s] = Arriving("decode") /\ Admit("decode", s) /\ Moves(s, "Decoding")
        /\ "Decoding" \in Active("decode") /\ "Decoding" # Arriving("decode")
    BY <1>9 DEF Decode, Arriving, Active, Moves
  <2> QED BY <1>0, <2>1, AdmitStep
<1>10. ASSUME NEW s \in Seqs, Decoded(s) PROVE IInv'
  <2>1. phase[s] \in Active("decode") /\ Finish("decode", s) /\ Moves(s, "Done")
    BY <1>10 DEF Decoded, Active, Moves
  <2> QED BY <1>0, <2>1, FinishStep
<1>11. ASSUME NEW s \in Seqs, NEW r \in Ranks, Transfer(s, r) PROVE IInv'
  BY <1>11, PushStep, FailStep DEF Transfer
<1>12. ASSUME NEW s \in Seqs, ForwardFails(s) \/ PushPanics(s) PROVE IInv'
  BY <1>12, GiveUpStep
<1> QED
  BY <1>1, <1>2, <1>3, <1>4, <1>5, <1>6, <1>7, <1>8, <1>9, <1>10, <1>11, <1>12 DEF Next, Step

\* IInv holds in every reachable state.
THEOREM Inductive == Spec => []IInv
BY InitIInv, NextIInv, PTL DEF Spec

-----------------------------------------------------------------------------
(* What it implies *)

\* The invariant implies the properties.
LEMMA IInvImplies == IInv => NothingHeld /\ ServedSound
<1> SUFFICES ASSUME IInv PROVE NothingHeld /\ ServedSound
  OBVIOUS
<1>0. /\ Nodes = {"prefill", "decode"} /\ Regions = Seqs
      /\ \A n \in Nodes : NumOf[n] \in Nat /\ Tokens(n) \in [Seqs -> 0..MaxLen]
  BY NodeFacts
<1>1. TransferInv /\ \A n \in Nodes : NodeInv(n)
  BY <1>0 DEF IInv
<1>2. NothingHeld
  <2> SUFFICES ASSUME \A s \in Seqs : Over(s), NEW n \in Nodes
               PROVE  Elems(m[n].free)
                        = (0..(NumOf[n] - 1)) \ (m[n].lost \union LeftBehind(n))
    BY DEF NothingHeld
  <2>1. NodeInv(n) /\ Sound(m[n], NumOf[n], Tokens(n))
    BY <1>1 DEF NodeInv
  <2>2. ASSUME NEW s \in Seqs PROVE m[n].map[s].ids = <<>>
    <3>1. phase[s] \notin Active(n)
      BY DEF Over, Ends, Active
    <3>2. ~m[n].map[s].live
      BY <2>1, <3>1 DEF NodeInv, TaskOK
    <3>3. m[n].map[s] = NoMap
      BY <2>1, <3>2 DEF Sound, MapOK
    <3> QED BY <3>3 DEF NoMap
  <2>3. ASSUME NEW s \in Seqs, phase[s] \notin GivenUp(n) PROVE m[n].resv[s] = <<>>
    <3>1. PinOK(s) /\ ReserveOK(s) /\ Over(s)
      BY <1>1 DEF TransferInv
    <3>2. CASE n = "prefill"
      BY <2>3, <3>1, <3>2 DEF PinOK, Pinning, Over, Ends, GivenUp
    <3>3. CASE n = "decode"
      BY <2>3, <3>1, <3>3 DEF ReserveOK, Reserving, Over, Ends, GivenUp
    <3> QED BY <1>0, <3>2, <3>3
  <2>4. LeftBehind(n) = UNION {Elems(m[n].resv[s]) : s \in Regions}
    <3>1. Elems(<<>>) = {}
      BY DEF Elems
    <3> QED BY <1>0, <2>3, <3>1 DEF LeftBehind
  <2>5. Elems(m[n].free)
           = Blocks(NumOf[n]) \ (m[n].lost \union UNION {Elems(m[n].resv[s]) : s \in Regions})
    <3> DEFINE x == m[n]
               N == NumOf[n]
               tl == Tokens(n)
    <3>1. N \in Nat /\ Sound(x, N, tl) /\ \A s \in Seqs : x.map[s].ids = <<>>
      BY <1>0, <2>1, <2>2
    <3> HIDE DEF x, N, tl
    <3>2. Elems(x.free) = Blocks(N) \ (x.lost \union UNION {Elems(x.resv[s]) : s \in Regions})
      BY ONLY <3>1, OnlyRegions
    <3> QED BY ONLY <3>2 DEF x, N
  <2> QED BY ONLY <2>4, <2>5 DEF Blocks
<1>3. ServedSound
  <2> SUFFICES ASSUME NEW n \in Nodes
               PROVE  /\ \A h \in Hashes :
                            \/ lookup_block_id(m[n], h) \in {NoBlock} \union doubt[n]
                            \/ Holds(n, lookup_block_id(m[n], h), h)
                      /\ \A s \in Seqs : \A i \in 1..(m[n].map[s].filled \div BlockSize) :
                            \/ m[n].map[s].ids[i] \in doubt[n]
                            \/ Holds(n, m[n].map[s].ids[i], BlockHash[s][i])
    BY DEF ServedSound
  <2>1. /\ Sound(m[n], NumOf[n], Tokens(n)) /\ Truth(m[n], n, kv[n], doubt[n])
        /\ NumOf[n] \in Nat /\ m[n] \in Manager(NumOf[n])
    BY <1>0, <1>1 DEF NodeInv, Sound
  <2>2. ASSUME NEW h \in Hashes, lookup_block_id(m[n], h) # NoBlock,
               lookup_block_id(m[n], h) \notin doubt[n]
        PROVE  Holds(n, lookup_block_id(m[n], h), h)
    <3>1. /\ lookup_block_id(m[n], h) \in Blocks(NumOf[n])
          /\ m[n].hash[lookup_block_id(m[n], h)] = h
      BY <2>1, <2>2, Lookup
    <3>2. h # NoHash
      BY HashAssumption DEF NoHash
    <3> QED BY <2>1, <2>2, <3>1, <3>2 DEF Truth, Holds
  <2>3. ASSUME NEW s \in Seqs, NEW i \in 1..(m[n].map[s].filled \div BlockSize),
               m[n].map[s].ids[i] \notin doubt[n]
        PROVE  Holds(n, m[n].map[s].ids[i], BlockHash[s][i])
    <3> DEFINE bm == m[n].map[s]
               f == bm.filled
               L == Len(bm.ids)
    <3>1. /\ f \in 0..MaxLen /\ bm.slots \in 0..MaxLen /\ L \in Nat
          /\ \A j \in 1..L : bm.ids[j] \in Blocks(NumOf[n])
      BY <2>1, MapFields
    <3>2. f \in Nat /\ bm.slots \in Nat /\ i \in Nat /\ i <= f \div BlockSize
      <4>1. f \in Nat /\ bm.slots \in Nat
        BY <3>1, SizeAssumption
      <4>2. f \div BlockSize \in Nat
        BY <4>1, DivBounds
      <4> QED BY <4>1, <4>2
    <3>3. MapOK(m[n], s, Tokens(n)[s])
      BY <2>1 DEF Sound
    <3>4. f <= bm.slots /\ L = CeilDiv(bm.slots, BlockSize) /\ \A j \in 1..L : BlockOK(m[n], s, j)
      BY <3>3 DEF MapOK
    <3> HIDE DEF f, L
    <3>5. i * BlockSize <= f /\ i * BlockSize \in Nat
      BY <3>2, FullBlocks, SizeAssumption
    <3>6. i * BlockSize <= bm.slots
      BY ONLY <3>2, <3>4, <3>5
    <3>7. i \in 1..L
      <4>1. bm.slots <= L * BlockSize
        BY <3>2, <3>4, CeilBounds
      <4>2. L < i => L * BlockSize + BlockSize <= i * BlockSize
        BY <3>1, <3>2, MulMono
      <4>3. L * BlockSize \in Nat
        BY ONLY <3>1, SizeAssumption
      <4>4. i >= 1
        OBVIOUS
      <4> QED BY ONLY <3>1, <3>2, <3>5, <3>6, <4>1, <4>2, <4>3, <4>4, SizeAssumption
    <3>8. m[n].hash[bm.ids[i]] = BlockHash[s][i]
      BY <3>4, <3>6, <3>7 DEF BlockOK
    <3>9. BlockHash[s][i] # NoHash
      <4>1. i <= NumFull /\ NumFull \in Nat
        <5>1. f <= MaxLen /\ MaxLen \in Nat
          BY <3>1, SizeAssumption DEF f
        <5>2. f \div BlockSize <= MaxLen \div BlockSize
          BY <3>2, <5>1, DivMono
        <5>3. f \div BlockSize \in Nat /\ MaxLen \div BlockSize \in Nat
          BY <3>2, <5>1, DivBounds
        <5> QED BY <3>2, <5>2, <5>3 DEF NumFull
      <4>2. BlockHash[s][i] \in Hashes
        BY <4>1, HashAssumption
      <4> QED BY <4>2, HashAssumption DEF NoHash
    <3>10. bm.ids[i] \in Blocks(NumOf[n])
      BY <3>1, <3>7
    <3> QED BY <2>1, <2>3, <3>8, <3>9, <3>10 DEF Truth, Holds
  <2> QED BY <2>2, <2>3
<1> QED BY <1>2, <1>3

\* Whatever has failed: once every request is over, the blocks of either node
\* are free (unpin_blocks, activate_reserved_blocks, free) but for the pins of
\* requests whose push_kv panicked, the reservations of those whose forward
\* failed, and the blocks lost to the panic of reserve_request.
THEOREM NothingIsHeld == Spec => []NothingHeld
BY Inductive, IInvImplies, PTL

\* A host cache serves what its labels say on every rank, except for blocks
\* that were labelled before their KV has come: no order in which the ranks
\* write, requests reserve, pin and are triggered, and blocks are evicted and
\* used again makes push_kv or trigger_request expose other KV.
THEOREM ServedIsSound == Spec => []ServedSound
BY Inductive, IInvImplies, PTL
=============================================================================
