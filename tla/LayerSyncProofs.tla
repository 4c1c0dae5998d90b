-------------------------- MODULE LayerSyncProofs --------------------------
(***************************************************************************)
(* The two workers keep the layer order of LayerOrder.tla, for every       *)
(* number of layers, of block mappings and of iterations, and leave        *)
(* nothing in a queue or on a stream between two iterations.               *)
(*                                                                         *)
(* The invariant describes a stream by the set of operations on it, which  *)
(* are sorted by layer and, in a layer, by rank: the head of the stream is *)
(* then the least of them, so that what was enqueued and comes before the  *)
(* head has been executed.                                                 *)
(***************************************************************************)
EXTENDS LayerSync, SequenceTheorems, TLAPS

-----------------------------------------------------------------------------
(* Sorted streams *)

OpsOf(q) == {q[i] : i \in 1..Len(q)}

\* Where an operation is in its layer: wait, then the attention or the copies,
\* then record.
Rank(o) ==
    IF o.op = "wait" THEN 0
    ELSE IF o.op = "attend" THEN 1
    ELSE IF o.op = "copy" THEN o.k
    ELSE NumMaps + 1
Before(o, p) == o.l < p.l \/ (o.l = p.l /\ Rank(o) < Rank(p))
Sorted(q) == \A i, j \in 1..Len(q) : i < j => Before(q[i], q[j])

\* The rank is a number.
LEMMA RankType == \A o \in Ops : Rank(o) \in Nat
  BY LayerAssumption DEF Rank, Ops

\* Before is irreflexive and transitive.
LEMMA BeforeOrder ==
    \A o, p, q \in Ops : ~Before(o, o) /\ (Before(o, p) /\ Before(p, q) => Before(o, q))
<1> SUFFICES ASSUME NEW o \in Ops, NEW p \in Ops, NEW q \in Ops
             PROVE  ~Before(o, o) /\ (Before(o, p) /\ Before(p, q) => Before(o, q))
  OBVIOUS
<1>1. Rank(o) \in Nat /\ Rank(p) \in Nat /\ Rank(q) \in Nat
  BY RankType
<1>2. o.l \in Nat /\ p.l \in Nat /\ q.l \in Nat
  BY LayerAssumption DEF Ops, Layers
<1> QED
  BY <1>1, <1>2 DEF Before

\* Enqueueing an operation that comes after all the others.
LEMMA Enqueue ==
    ASSUME NEW q \in Seq(Ops), NEW o \in Ops, Sorted(q), \A p \in OpsOf(q) : Before(p, o)
    PROVE  /\ Append(q, o) \in Seq(Ops)
           /\ Sorted(Append(q, o))
           /\ OpsOf(Append(q, o)) = OpsOf(q) \union {o}
<1> DEFINE n == Len(q)
           t == Append(q, o)
<1>1. /\ n \in Nat /\ t \in Seq(Ops) /\ Len(t) = n + 1
      /\ \A i \in 1..n : t[i] = q[i]
      /\ t[n + 1] = o
  BY AppendProperties, LenProperties
<1>2. \A i : i \in 1..(n + 1) <=> i \in 1..n \/ i = n + 1
  BY <1>1
<1>3. \A i \in 1..n : q[i] \in OpsOf(q)
  BY DEF OpsOf
<1>4. OpsOf(q) = {q[i] : i \in 1..n} /\ OpsOf(t) = {t[i] : i \in 1..(n + 1)}
  BY <1>1 DEF OpsOf
<1>5. \A i, j \in 1..n : i < j => Before(q[i], q[j])
  BY DEF Sorted
<1> HIDE DEF n, t
<1>6. OpsOf(t) = OpsOf(q) \union {o}
  BY <1>1, <1>2, <1>4, Zenon
<1>7. \A i, j \in 1..(n + 1) : i < j => Before(t[i], t[j])
  <2> SUFFICES ASSUME NEW i \in 1..(n + 1), NEW j \in 1..(n + 1), i < j
               PROVE  Before(t[i], t[j])
    OBVIOUS
  <2>1. i \in 1..n
    BY <1>1
  <2>2. CASE j \in 1..n
    BY <2>1, <2>2, <1>1, <1>5
  <2>3. CASE j = n + 1
    BY <2>1, <2>3, <1>1, <1>3
  <2> QED
    BY <2>2, <2>3, <1>2
<1> QED
  BY <1>1, <1>6, <1>7 DEF Sorted, t

\* The head of a sorted stream comes before the rest.
LEMMA Dequeue ==
    ASSUME NEW q \in Seq(Ops), Sorted(q), q # <<>>
    PROVE  /\ Head(q) \in OpsOf(q) /\ Head(q) \in Ops
           /\ Tail(q) \in Seq(Ops)
           /\ Sorted(Tail(q))
           /\ OpsOf(Tail(q)) = OpsOf(q) \ {Head(q)}
           /\ \A p \in OpsOf(q) : p = Head(q) \/ Before(Head(q), p)
           /\ \A p \in OpsOf(q) : ~Before(p, Head(q))
<1> DEFINE n == Len(q)
           t == Tail(q)
<1>1. /\ n \in Nat \ {0} /\ t \in Seq(Ops) /\ Len(t) = n - 1
      /\ \A i \in 1..(n - 1) : t[i] = q[i + 1]
      /\ Head(q) = q[1]
      /\ \A i \in 1..n : q[i] \in Ops
  BY EmptySeq, HeadTailProperties, ElementOfSeq
<1>2. OpsOf(q) = {q[i] : i \in 1..n} /\ OpsOf(t) = {t[i] : i \in 1..(n - 1)}
  BY <1>1 DEF OpsOf
<1>3. \A i, j \in 1..n : i < j => Before(q[i], q[j])
  BY DEF Sorted
<1> HIDE DEF n, t
<1>4. 1 \in 1..n /\ \A i \in 1..n : i = 1 \/ (1 < i /\ i - 1 \in 1..(n - 1) /\ (i - 1) + 1 = i)
  BY <1>1
<1>5. \A i \in 1..(n - 1) : i + 1 \in 1..n /\ 1 < i + 1
  BY <1>1
<1>6. \A i \in 1..n : i # 1 => Before(q[1], q[i])
  BY <1>3, <1>4
<1>7. \A p \in OpsOf(q) : p = q[1] \/ Before(q[1], p)
  BY <1>2, <1>6
<1>8. \A p \in OpsOf(q) : ~Before(p, q[1])
  <2> SUFFICES ASSUME NEW p \in OpsOf(q), Before(p, q[1]) PROVE FALSE
    OBVIOUS
  <2>1. p \in Ops /\ q[1] \in Ops
    BY <1>1, <1>2, <1>4
  <2>2. CASE p = q[1]
    BY <2>1, <2>2, BeforeOrder
  <2>3. CASE Before(q[1], p)
    BY <2>1, <2>3, BeforeOrder
  <2> QED
    BY <2>2, <2>3, <1>7
<1>9. OpsOf(t) = OpsOf(q) \ {q[1]}
  <2>1. ASSUME NEW i \in 1..(n - 1) PROVE t[i] \in OpsOf(q) \ {q[1]}
    <3>1. t[i] = q[i + 1] /\ i + 1 \in 1..n /\ Before(q[1], q[i + 1])
      BY <1>1, <1>3, <1>4, <1>5
    <3> QED
      BY <3>1, <1>1, <1>2, <1>4, BeforeOrder
  <2>2. ASSUME NEW i \in 1..n, q[i] # q[1] PROVE \E j \in 1..(n - 1) : q[i] = t[j]
    BY <2>2, <1>1, <1>4
  <2> QED
    BY <2>1, <2>2, <1>2
<1>10. \A i, j \in 1..(n - 1) : i < j => Before(t[i], t[j])
  <2> SUFFICES ASSUME NEW i \in 1..(n - 1), NEW j \in 1..(n - 1), i < j
               PROVE  Before(t[i], t[j])
    OBVIOUS
  <2>1. i + 1 \in 1..n /\ j + 1 \in 1..n /\ i + 1 < j + 1
    BY <1>1
  <2> QED
    BY <2>1, <1>1, <1>3
<1> QED
  BY <1>1, <1>2, <1>4, <1>7, <1>8, <1>9, <1>10 DEF Sorted, t

-----------------------------------------------------------------------------
(* The invariant *)

On(s) == OpsOf(stream[s])

\* The operations of this iteration.
W(ev, l) == Op("wait", ev, l, 0, iter)
R(ev, l) == Record(ev, l)

\* The layers whose pre event the KV worker has recorded, and whose value the
\* model worker has taken from model_queue.
PrePut == IF ~fetching THEN 0 ELSE IF lpc \in {"copy", "record"} THEN llayer - 1 ELSE NumLayers
PreTaken ==
    IF ~fetching THEN 0
    ELSE IF mpc = "pre" THEN mlayer - 1
    ELSE IF mpc = "post" THEN mlayer
    ELSE NumLayers

\* The layers whose post event the model worker has recorded, and whose value
\* the KV worker has taken from kv_queue.
PostPut == IF ~saving THEN 0 ELSE IF mpc \in {"pre", "post"} THEN mlayer - 1 ELSE NumLayers
PostTaken ==
    IF ~saving THEN 0
    ELSE IF spc = "get" THEN slayer - 1
    ELSE IF spc = "copy" THEN slayer
    ELSE NumLayers

\* What has been enqueued: the attention of layer l, mapping k of layer l.
Attends(l) == mpc \in {"drain", "done"} \/ l < mlayer \/ (l = mlayer /\ mpc = "post")
Loads(l, k) ==
    \/ lpc \in {"drain", "done"}
    \/ l < llayer
    \/ l = llayer /\ (lpc = "record" \/ k < lmap)
Saves(l, k) ==
    \/ spc \in {"drain", "done"}
    \/ l < slayer
    \/ l = slayer /\ spc = "copy" /\ k < smap

\* A value in a queue stands for an event that has been recorded in this
\* iteration: there are as many as layers recorded and not yet taken.
QueueInv ==
    /\ mq = PrePut - PreTaken /\ PreTaken <= PrePut
    /\ kq = PostPut - PostTaken /\ PostTaken <= PostPut
    /\ \A l \in Layers : l <= PrePut => called["pre"][l] = iter
    /\ \A l \in Layers : l <= PostPut => called["post"][l] = iter

\* The stream of the model worker.
ModelInv ==
    /\ Sorted(stream["model"])
    /\ mpc = "done" => stream["model"] = <<>>
    /\ \A o \in On("model") :
          /\ \/ fetching /\ o = W("pre", o.l)
             \/ o = Attention(o.l)
             \/ saving /\ o = R("post", o.l)
          /\ mpc = "pre" => o.l < mlayer
          /\ mpc = "post" => o.l < mlayer \/ (o.l = mlayer /\ o.op # "record")
    /\ \A l \in Layers :
          /\ Attends(l) => l \in attended \/ Attention(l) \in On("model")
          /\ l \in attended => Attends(l)
          /\ Attention(l) \in On("model") =>
                /\ \A m \in attended : m < l
                /\ fetching => reached["pre"][l] = iter \/ W("pre", l) \in On("model")
          /\ R("post", l) \in On("model") => l \in attended \/ Attention(l) \in On("model")
          /\ reached["post"][l] = iter => l \in attended

\* The stream of load_kv_blocks_from_host.
LoadInv ==
    /\ Sorted(stream["htod"])
    /\ lpc = "done" => stream["htod"] = <<>>
    /\ lpc # "done" => fetching
    /\ lpc = "record" => lmap = 1
    /\ \A o \in On("htod") :
          /\ (o = Copy(o.l, o.k) /\ o.k \in Maps) \/ o = R("pre", o.l)
          /\ lpc = "copy" => o.l < llayer \/ (o.l = llayer /\ o.op = "copy" /\ o.k < lmap)
          /\ lpc = "record" => o.l < llayer \/ (o.l = llayer /\ o.op = "copy")
    /\ \A l \in Layers, k \in Maps :
          /\ fetching /\ Loads(l, k) => <<l, k>> \in fetched \/ Copy(l, k) \in On("htod")
          /\ reached["pre"][l] = iter => <<l, k>> \in fetched

\* The stream of save_kv_blocks_to_host.
SaveInv ==
    /\ Sorted(stream["dtoh"])
    /\ spc = "done" => stream["dtoh"] = <<>>
    /\ spc # "done" => saving
    /\ spc = "get" => smap = 1
    /\ \A o \in On("dtoh") :
          /\ (o = Copy(o.l, o.k) /\ o.k \in Maps) \/ o = W("post", o.l)
          /\ spc = "get" => o.l < slayer
          /\ spc = "copy" => o.l < slayer \/ (o.l = slayer /\ (o.op = "wait" \/ o.k < smap))
          /\ o.op = "copy" => reached["post"][o.l] = iter \/ W("post", o.l) \in On("dtoh")
    /\ spc = "copy" => reached["post"][slayer] = iter \/ W("post", slayer) \in On("dtoh")
    /\ \A l \in Layers, k \in Maps :
          saving /\ Saves(l, k) => <<l, k>> \in saved \/ Copy(l, k) \in On("dtoh")

\* An iteration runs until the three calls are done; no event is of a later
\* iteration.
CallInv ==
    /\ ~running => mpc = "done" /\ lpc = "done" /\ spc = "done"
    /\ \A e \in Events, l \in Layers : reached[e][l] <= iter

IInv ==
    /\ TypeOK
    /\ CallInv
    /\ running => QueueInv /\ ModelInv /\ LoadInv /\ SaveInv
    /\ NothingLeft

-----------------------------------------------------------------------------
(* What a step leaves alone *)

\* What is on a stream is an operation.
LEMMA OnTypes ==
    ASSUME TypeOK, NEW s \in Streams, NEW o \in On(s)
    PROVE  o \in Ops /\ o.l \in Layers /\ o.l \in Nat /\ o.k \in 0..NumMaps
<1>1. stream[s] \in Seq(Ops)
  BY DEF TypeOK
<1>2. PICK i \in 1..Len(stream[s]) : o = stream[s][i]
  BY DEF On, OpsOf
<1>3. o \in Ops
  BY <1>1, <1>2, ElementOfSeq
<1> QED
  BY <1>3, LayerAssumption DEF Ops, Layers

\* The stream of the model worker, if no event but a pre event is reached.
LEMMA SameModel ==
    ASSUME ModelInv, UNCHANGED <<mpc, mlayer, fetching, saving, iter, attended>>,
           stream'["model"] = stream["model"],
           \A l \in Layers : /\ reached["pre"][l] = iter => reached'["pre"][l] = iter
                             /\ reached'["post"][l] = reached["post"][l]
    PROVE  ModelInv'
  BY DEF ModelInv, On, W, R, Record, Attends, Attention, Op

\* The stream of load_kv_blocks_from_host, if no pre event is reached.
LEMMA SameLoad ==
    ASSUME LoadInv, UNCHANGED <<lpc, llayer, lmap, fetching, iter, fetched>>,
           stream'["htod"] = stream["htod"],
           \A l \in Layers : reached'["pre"][l] = reached["pre"][l]
    PROVE  LoadInv'
  BY DEF LoadInv, On, R, Record, Loads, Copy, Op

\* The stream of save_kv_blocks_to_host, whatever is reached.
LEMMA SameSave ==
    ASSUME TypeOK, SaveInv, UNCHANGED <<spc, slayer, smap, saving, iter, saved>>,
           stream'["dtoh"] = stream["dtoh"],
           \A l \in Layers : reached["post"][l] = iter => reached'["post"][l] = iter
    PROVE  SaveInv'
<1>1. \A o \in On("dtoh") : o.l \in Layers
  BY OnTypes DEF Streams
<1> QED
  BY <1>1 DEF SaveInv, On, W, Saves, Copy, Op, TypeOK

\* The operations are what their names say.
LEMMA OpTypes ==
    ASSUME TypeOK, NEW l \in Layers
    PROVE  /\ \A ev \in Events : W(ev, l) \in Ops /\ R(ev, l) \in Ops
           /\ Attention(l) \in Ops
           /\ \A k \in Maps : Copy(l, k) \in Ops
  BY LayerAssumption DEF TypeOK, W, R, Record, Attention, Copy, Op, Ops, Events, Maps

-----------------------------------------------------------------------------
(* The model worker *)

\* The value that pre_hook_fn takes stands for the event of its own layer.
LEMMA PreHookStep ==
    ASSUME TypeOK, QueueInv, ModelInv, PreHook
    PROVE  TypeOK' /\ QueueInv' /\ ModelInv'
<1> DEFINE q == stream["model"]
           w == W("pre", mlayer)
           c == Attention(mlayer)
           p == IF fetching THEN Append(q, w) ELSE q
<1>t. /\ NumLayers \in Nat \ {0} /\ mlayer \in 1..NumLayers /\ llayer \in 1..NumLayers
      /\ slayer \in 1..NumLayers /\ "model" \in Streams /\ "pre" \in Events
  BY LayerAssumption DEF TypeOK, Layers, Streams, Events
<1>1. mpc = "pre" /\ mpc' = "post"
  BY DEF PreHook
<1>2. fetching => Wait("pre", mlayer) = w
  <2> SUFFICES ASSUME fetching PROVE called["pre"][mlayer] = iter
    BY DEF Wait, W
  <2>1. mq > 0
    BY DEF PreHook
  <2>2. mlayer <= PrePut
    BY <2>1, <1>1, <1>t DEF QueueInv, PreTaken, PrePut
  <2> QED
    BY <2>2 DEF QueueInv, TypeOK
<1>3. q \in Seq(Ops) /\ w \in Ops /\ c \in Ops
  BY <1>t, OpTypes DEF TypeOK
<1>4. \A o \in OpsOf(q) : o.l < mlayer
  BY <1>1 DEF ModelInv, On
<1>5. /\ w.l = mlayer /\ w.op = "wait" /\ c.l = mlayer /\ c.op = "attend"
      /\ Rank(w) = 0 /\ Rank(c) = 1
  BY DEF W, Attention, Op, Rank
<1>6. /\ p \in Seq(Ops) /\ Sorted(p)
      /\ OpsOf(p) = OpsOf(q) \union (IF fetching THEN {w} ELSE {})
  <2>1. \A o \in OpsOf(q) : Before(o, w)
    BY <1>4, <1>5 DEF Before
  <2> QED
    BY <2>1, <1>3, Enqueue DEF ModelInv
<1>7. /\ Append(p, c) \in Seq(Ops) /\ Sorted(Append(p, c))
      /\ OpsOf(Append(p, c)) = OpsOf(p) \union {c}
  <2>1. \A o \in OpsOf(p) : Before(o, c)
    BY <1>4, <1>5, <1>6 DEF Before
  <2> QED
    BY <2>1, <1>3, <1>6, Enqueue
<1>8. stream' = [stream EXCEPT !["model"] = Append(p, c)]
  <2>1. stream' = [stream EXCEPT !["model"] = p \o <<c>>]
    BY <1>2 DEF PreHook
  <2> QED
    BY <2>1, <1>3, <1>6, AppendIsConcat
<1>9. stream'["model"] = Append(p, c)
  BY <1>8, <1>t DEF TypeOK
<1>10. On("model")' = On("model") \union {c} \union (IF fetching THEN {w} ELSE {})
  BY <1>6, <1>7, <1>9 DEF On
<1>11. QueueInv'
  BY <1>1, <1>t DEF PreHook, QueueInv, PrePut, PreTaken, PostPut, PostTaken, TypeOK, flags, load, save
<1>12. mq' \in 0..NumLayers
  BY <1>1, <1>11, <1>t DEF PreHook, QueueInv, PrePut, PreTaken, TypeOK, load, flags
<1>13. TypeOK'
  BY <1>1, <1>7, <1>8, <1>12 DEF PreHook, TypeOK, flags, load, save, gpu
<1>14. ModelInv'
  <2> USE DEF PreHook, flags, gpu
  <2>1. Sorted(stream'["model"])
    BY <1>7, <1>9
  <2>2. \A o \in On("model")' :
          /\ \/ fetching' /\ o = W("pre", o.l)'
             \/ o = Attention(o.l)
             \/ saving' /\ o = R("post", o.l)'
          /\ mpc' = "pre" => o.l < mlayer'
          /\ mpc' = "post" => o.l < mlayer' \/ (o.l = mlayer' /\ o.op # "record")
    BY <1>1, <1>4, <1>5, <1>10 DEF ModelInv, On, W, R, Record, Attention
  <2>3. ASSUME NEW l \in Layers
        PROVE  /\ Attends(l)' => l \in attended' \/ Attention(l) \in On("model")'
               /\ l \in attended' => Attends(l)'
    BY <1>1, <1>10 DEF ModelInv, Attends
  <2>4. ASSUME NEW l \in Layers, Attention(l) \in On("model")'
        PROVE  /\ \A m \in attended' : m < l
               /\ fetching' => reached'["pre"][l] = iter' \/ W("pre", l)' \in On("model")'
    <3>1. CASE Attention(l) \in On("model")
      BY <3>1, <1>10 DEF ModelInv, W
    <3>2. CASE Attention(l) \notin On("model")
      <4>1. l = mlayer
        BY <3>2, <2>4, <1>10 DEF Attention, W, Op
      <4>2. \A m \in attended : m < mlayer
        BY <1>1 DEF ModelInv, Attends, TypeOK
      <4> QED
        BY <4>1, <4>2, <1>10 DEF W
    <3> QED
      BY <3>1, <3>2
  <2>5. ASSUME NEW l \in Layers
        PROVE  /\ R("post", l)' \in On("model")' => l \in attended' \/ Attention(l) \in On("model")'
               /\ reached'["post"][l] = iter' => l \in attended'
    <3>1. R("post", l)' = R("post", l) /\ R("post", l).op = "record"
      BY DEF R, Record, Op
    <3>2. R("post", l) \in On("model")' => R("post", l) \in On("model")
      BY <3>1, <1>5, <1>10
    <3> QED
      BY <3>1, <3>2, <1>10 DEF ModelInv
  <2> QED
    BY <2>1, <2>2, <2>3, <2>4, <2>5, <1>1 DEF ModelInv
<1> QED
  BY <1>11, <1>13, <1>14

\* post_hook_fn records its layer's event before it puts the value.
LEMMA PostHookStep ==
    ASSUME TypeOK, QueueInv, ModelInv, PostHook
    PROVE  TypeOK' /\ QueueInv' /\ ModelInv'
<1> DEFINE q == stream["model"]
           e == R("post", mlayer)
           p == IF saving THEN Append(q, e) ELSE q
<1>t. /\ NumLayers \in Nat \ {0} /\ mlayer \in 1..NumLayers /\ llayer \in 1..NumLayers
      /\ slayer \in 1..NumLayers /\ "model" \in Streams /\ "post" \in Events
      /\ \A l \in Layers : l \in 1..NumLayers
  BY LayerAssumption DEF TypeOK, Layers, Streams, Events
<1>1. /\ mpc = "post"
      /\ \/ mlayer = NumLayers /\ mpc' = "drain" /\ mlayer' = mlayer
         \/ mlayer < NumLayers /\ mpc' = "pre" /\ mlayer' = mlayer + 1
  BY <1>t DEF PostHook, NextLayer, Following
<1>3. q \in Seq(Ops) /\ e \in Ops
  BY <1>t, OpTypes DEF TypeOK
<1>4. \A o \in OpsOf(q) : o \in Ops /\ (o.l < mlayer \/ (o.l = mlayer /\ o.op # "record"))
  BY <1>1, <1>t, OnTypes DEF ModelInv, On
<1>5. e.l = mlayer /\ e.op = "record" /\ Rank(e) = NumMaps + 1
  BY DEF R, Record, Op, Rank
<1>6. /\ p \in Seq(Ops) /\ Sorted(p)
      /\ OpsOf(p) = OpsOf(q) \union (IF saving THEN {e} ELSE {})
  <2>1. ASSUME NEW o \in OpsOf(q) PROVE Before(o, e)
    <3>1. CASE o.op = "record"
      BY <3>1, <1>4, <1>5 DEF Before
    <3>2. CASE o.op # "record"
      <4>1. Rank(o) < NumMaps + 1
        BY <3>2, <1>4, LayerAssumption DEF Rank, Ops
      <4> QED
        BY <4>1, <1>4, <1>5 DEF Before
    <3> QED
      BY <3>1, <3>2
  <2> QED
    BY <2>1, <1>3, Enqueue DEF ModelInv
<1>8. stream' = [stream EXCEPT !["model"] = p]
  BY DEF PostHook, R
<1>9. stream'["model"] = p
  BY <1>8, <1>t DEF TypeOK
<1>10. On("model")' = On("model") \union (IF saving THEN {e} ELSE {})
  BY <1>6, <1>9 DEF On
<1>11. called' = IF saving THEN [called EXCEPT !["post"][mlayer] = iter] ELSE called
  BY DEF PostHook
<1>12. /\ called' \in [Events -> [Layers -> 0..MaxIters]]
       /\ \A l \in Layers : /\ called'["pre"][l] = called["pre"][l]
                            /\ saving /\ l = mlayer => called'["post"][l] = iter
                            /\ l # mlayer => called'["post"][l] = called["post"][l]
  BY <1>11 DEF TypeOK, Events
<1>13. QueueInv'
  <2>1. PrePut' = PrePut /\ PreTaken' = PreTaken /\ PostTaken' = PostTaken
    BY <1>1, <1>t DEF PostHook, PrePut, PreTaken, PostTaken, flags, load, save
  <2>2. PostPut' = IF saving THEN PostPut + 1 ELSE PostPut
    BY <1>1, <1>t DEF PostHook, PostPut, flags
  <2>3. PostPut = IF saving THEN mlayer - 1 ELSE 0
    BY <1>1 DEF PostPut
  <2>4. \A l \in Layers : l <= PostPut' => called'["post"][l] = iter
    <3> SUFFICES ASSUME NEW l \in Layers, l <= PostPut'
                 PROVE  called'["post"][l] = iter
      OBVIOUS
    <3>1. saving /\ l <= mlayer
      BY <2>2, <2>3, <1>t
    <3>2. CASE l = mlayer
      BY <3>1, <3>2, <1>12
    <3>3. CASE l # mlayer
      <4>1. l <= PostPut
        BY <3>1, <3>3, <2>3, <1>t
      <4> QED
        BY <4>1, <3>3, <1>12 DEF QueueInv
    <3> QED
      BY <3>2, <3>3
  <2>5. PostTaken \in Nat /\ kq = PostPut - PostTaken /\ PostTaken <= PostPut
    BY <1>t DEF PostTaken, QueueInv
  <2>6. kq' = PostPut' - PostTaken' /\ PostTaken' <= PostPut'
    BY <2>1, <2>2, <2>3, <2>5, <1>t DEF PostHook
  <2>7. mq' = PrePut' - PreTaken' /\ PreTaken' <= PrePut'
    BY <2>1 DEF PostHook, QueueInv
  <2>8. \A l \in Layers : l <= PrePut' => called'["pre"][l] = iter
    BY <2>1, <1>12 DEF QueueInv
  <2>9. iter' = iter
    BY DEF PostHook, flags
  <2> QED
    BY <2>4, <2>6, <2>7, <2>8, <2>9 DEF QueueInv
<1>14. kq' \in 0..NumLayers
  BY <1>1, <1>13, <1>t DEF PostHook, QueueInv, PostPut, PostTaken, TypeOK, save, flags
<1>15. TypeOK'
  <2>1. mpc' \in {"pre", "post", "drain", "done"} /\ mlayer' \in Layers
    BY <1>1, <1>t DEF Layers
  <2> QED
    BY <2>1, <1>6, <1>8, <1>12, <1>14 DEF PostHook, TypeOK, flags, load, save, gpu
<1>16. ModelInv'
  <2> USE DEF PostHook, flags, gpu
  <2>1. Sorted(stream'["model"])
    BY <1>6, <1>9
  <2>2. ASSUME NEW o \in On("model")'
        PROVE  /\ \/ fetching' /\ o = W("pre", o.l)'
                  \/ o = Attention(o.l)
                  \/ saving' /\ o = R("post", o.l)'
               /\ mpc' = "pre" => o.l < mlayer'
               /\ mpc' # "post"
    <3>1. o \in OpsOf(q) \/ (saving /\ o = e)
      BY <1>10 DEF On
    <3>2. CASE o \in OpsOf(q)
      <4>1. o.l \in Nat
        BY <3>2, <1>t, OnTypes DEF On
      <4> QED
        BY <3>2, <4>1, <1>1, <1>4, <1>t DEF ModelInv, On, W, R, Record
    <3>3. CASE saving /\ o = e
      BY <3>3, <1>1, <1>5, <1>t DEF R, Record
    <3> QED
      BY <3>1, <3>2, <3>3
  <2>3. ASSUME NEW l \in Layers
        PROVE  /\ Attends(l)' => l \in attended' \/ Attention(l) \in On("model")'
               /\ l \in attended' => Attends(l)'
    <3>1. Attends(l)' <=> Attends(l)
      BY <1>1, <1>t DEF Attends
    <3> QED
      BY <3>1, <1>10 DEF ModelInv
  <2>4. ASSUME NEW l \in Layers, Attention(l) \in On("model")'
        PROVE  /\ \A m \in attended' : m < l
               /\ fetching' => reached'["pre"][l] = iter' \/ W("pre", l)' \in On("model")'
    <3>1. Attention(l) \in On("model")
      BY <2>4, <1>10, <1>5 DEF Attention, Op
    <3> QED
      BY <3>1, <1>10 DEF ModelInv, W
  <2>5. ASSUME NEW l \in Layers
        PROVE  /\ R("post", l)' \in On("model")' => l \in attended' \/ Attention(l) \in On("model")'
               /\ reached'["post"][l] = iter' => l \in attended'
    <3>1. R("post", l)' = R("post", l) /\ R("post", l).l = l
      BY DEF R, Record, Op
    <3>2. R("post", l) \in On("model")' => R("post", l) \in On("model") \/ l = mlayer
      BY <3>1, <1>5, <1>10
    <3>3. mlayer \in attended \/ Attention(mlayer) \in On("model")
      BY <1>1, <1>t DEF ModelInv, Attends, Layers
    <3> QED
      BY <3>1, <3>2, <3>3, <1>10 DEF ModelInv
  <2> QED
    BY <2>1, <2>2, <2>3, <2>4, <2>5, <1>1 DEF ModelInv
<1> QED
  BY <1>13, <1>15, <1>16

-----------------------------------------------------------------------------
(* The KV worker *)

\* A mapping of the layer is enqueued for the GPU.
LEMMA LoadCopyStep ==
    ASSUME TypeOK, QueueInv, LoadInv, LoadCopy
    PROVE  TypeOK' /\ QueueInv' /\ LoadInv'
<1> DEFINE q == stream["htod"]
           c == Copy(llayer, lmap)
<1>t. /\ NumMaps \in Nat \ {0} /\ NumLayers \in Nat \ {0}
      /\ llayer \in 1..NumLayers /\ llayer \in Layers /\ lmap \in 1..NumMaps /\ lmap \in Maps
      /\ "htod" \in Streams
      /\ \A l \in Layers : l \in 1..NumLayers
      /\ \A k \in Maps : k \in 1..NumMaps
  BY LayerAssumption DEF TypeOK, Layers, Maps, Streams
<1>1. /\ lpc = "copy" /\ fetching
      /\ \/ lmap = NumMaps /\ lpc' = "record" /\ lmap' = 1
         \/ lmap < NumMaps /\ lpc' = "copy" /\ lmap' = lmap + 1
  BY <1>t DEF LoadCopy, LoadInv
<1>2. q \in Seq(Ops) /\ c \in Ops
  BY <1>t, OpTypes DEF TypeOK
<1>3. \A o \in OpsOf(q) :
         /\ o \in Ops
         /\ o.l < llayer \/ (o.l = llayer /\ o.op = "copy" /\ o.k < lmap)
  BY <1>1, <1>t, OnTypes DEF LoadInv, On
<1>4. c.l = llayer /\ c.op = "copy" /\ c.k = lmap /\ Rank(c) = lmap
  BY DEF Copy, Op, Rank
<1>5. \A o \in OpsOf(q) : Before(o, c)
  BY <1>3, <1>4 DEF Before, Rank
<1>6. /\ Append(q, c) \in Seq(Ops) /\ Sorted(Append(q, c))
      /\ OpsOf(Append(q, c)) = OpsOf(q) \union {c}
  BY <1>2, <1>5, Enqueue DEF LoadInv
<1>7. stream' = [stream EXCEPT !["htod"] = Append(q, c)]
  BY DEF LoadCopy
<1>8. stream'["htod"] = Append(q, c)
  BY <1>7, <1>t DEF TypeOK
<1>9. On("htod")' = On("htod") \union {c}
  BY <1>6, <1>8 DEF On
<1>10. QueueInv'
  BY <1>1 DEF LoadCopy, QueueInv, PrePut, PreTaken, PostPut, PostTaken, flags, model, save
<1>11. TypeOK'
  <2>1. lpc' \in {"copy", "record", "drain", "done"} /\ lmap' \in Maps
    BY <1>1, <1>t DEF Maps
  <2> QED
    BY <2>1, <1>6, <1>7 DEF LoadCopy, TypeOK, flags, model, save, gpu
<1>12. LoadInv'
  <2> USE DEF LoadCopy, flags, gpu
  <2>2. ASSUME NEW o \in On("htod")'
        PROVE  /\ (o = Copy(o.l, o.k) /\ o.k \in Maps) \/ o = R("pre", o.l)'
               /\ lpc' = "copy" => o.l < llayer \/ (o.l = llayer /\ o.op = "copy" /\ o.k < lmap')
               /\ lpc' = "record" => o.l < llayer \/ (o.l = llayer /\ o.op = "copy")
    <3>1. CASE o = c
      BY <3>1, <1>1, <1>4, <1>t
    <3>2. CASE o \in OpsOf(q)
      <4>1. o.k \in Nat
        BY <3>2, <1>t, OnTypes DEF On
      <4> QED
        BY <3>2, <4>1, <1>1, <1>3, <1>t DEF LoadInv, On, R, Record
    <3> QED
      BY <3>1, <3>2, <1>9 DEF On
  <2>3. ASSUME NEW l \in Layers, NEW k \in Maps
        PROVE  /\ fetching' /\ Loads(l, k)' => <<l, k>> \in fetched' \/ Copy(l, k) \in On("htod")'
               /\ reached'["pre"][l] = iter' => <<l, k>> \in fetched'
    <3>1. Loads(l, k)' => Loads(l, k) \/ (l = llayer /\ k = lmap)
      BY <1>1, <1>t DEF Loads
    <3> QED
      BY <3>1, <1>9 DEF LoadInv
  <2> QED
    BY <2>2, <2>3, <1>1, <1>6, <1>8 DEF LoadInv
<1> QED
  BY <1>10, <1>11, <1>12

\* The event of the layer is recorded after its last mapping, and before the
\* value is put into model_queue.
LEMMA LoadRecordStep ==
    ASSUME TypeOK, QueueInv, LoadInv, LoadRecord
    PROVE  TypeOK' /\ QueueInv' /\ LoadInv'
<1> DEFINE q == stream["htod"]
           e == R("pre", llayer)
<1>t. /\ NumMaps \in Nat \ {0} /\ NumLayers \in Nat \ {0}
      /\ llayer \in 1..NumLayers /\ llayer \in Layers
      /\ mlayer \in 1..NumLayers /\ slayer \in 1..NumLayers
      /\ "htod" \in Streams /\ "pre" \in Events
      /\ \A l \in Layers : l \in 1..NumLayers
  BY LayerAssumption DEF TypeOK, Layers, Streams, Events
<1>1. /\ lpc = "record" /\ fetching
      /\ \/ llayer = NumLayers /\ lpc' = "drain" /\ llayer' = llayer
         \/ llayer < NumLayers /\ lpc' = "copy" /\ llayer' = llayer + 1
  BY <1>t DEF LoadRecord, LoadInv, NextLayer, Following
<1>2. q \in Seq(Ops) /\ e \in Ops
  BY <1>t, OpTypes DEF TypeOK
<1>3. \A o \in OpsOf(q) : /\ o \in Ops
                          /\ o.l < llayer \/ (o.l = llayer /\ o.op = "copy")
  BY <1>1, <1>t, OnTypes DEF LoadInv, On
<1>4. e.l = llayer /\ e.op = "record" /\ Rank(e) = NumMaps + 1
  BY DEF R, Record, Op, Rank
<1>5. \A o \in OpsOf(q) : Before(o, e)
  <2> SUFFICES ASSUME NEW o \in OpsOf(q) PROVE Before(o, e)
    OBVIOUS
  <2>1. CASE o.op = "copy"
    <3>1. Rank(o) < NumMaps + 1
      BY <2>1, <1>3, <1>t DEF Rank, Ops
    <3> QED
      BY <3>1, <1>3, <1>4 DEF Before
  <2>2. CASE o.op # "copy"
    BY <2>2, <1>3, <1>4 DEF Before
  <2> QED
    BY <2>1, <2>2
<1>6. /\ Append(q, e) \in Seq(Ops) /\ Sorted(Append(q, e))
      /\ OpsOf(Append(q, e)) = OpsOf(q) \union {e}
  BY <1>2, <1>5, Enqueue DEF LoadInv
<1>7. stream' = [stream EXCEPT !["htod"] = Append(q, e)]
  BY DEF LoadRecord, R
<1>8. stream'["htod"] = Append(q, e)
  BY <1>7, <1>t DEF TypeOK
<1>9. On("htod")' = On("htod") \union {e}
  BY <1>6, <1>8 DEF On
<1>10. called' = [called EXCEPT !["pre"][llayer] = iter]
  BY DEF LoadRecord
<1>11. /\ called' \in [Events -> [Layers -> 0..MaxIters]]
       /\ \A l \in Layers : /\ called'["post"][l] = called["post"][l]
                            /\ l = llayer => called'["pre"][l] = iter
                            /\ l # llayer => called'["pre"][l] = called["pre"][l]
  BY <1>10, <1>t DEF TypeOK, Events
<1>12. QueueInv'
  <2>1. PostPut' = PostPut /\ PreTaken' = PreTaken /\ PostTaken' = PostTaken
    BY DEF LoadRecord, PostPut, PreTaken, PostTaken, flags, model, save
  <2>2. PrePut' = llayer /\ PrePut = llayer - 1
    BY <1>1, <1>t DEF LoadRecord, PrePut, flags
  <2>4. \A l \in Layers : l <= PrePut' => called'["pre"][l] = iter
    <3> SUFFICES ASSUME NEW l \in Layers, l <= PrePut'
                 PROVE  called'["pre"][l] = iter
      OBVIOUS
    <3>1. CASE l = llayer
      BY <3>1, <1>11
    <3>2. CASE l # llayer
      <4>1. l <= PrePut
        BY <3>2, <2>2, <1>t
      <4> QED
        BY <4>1, <3>2, <1>11 DEF QueueInv
    <3> QED
      BY <3>1, <3>2
  <2>5. PreTaken \in Nat /\ mq = PrePut - PreTaken /\ PreTaken <= PrePut
    BY <1>t DEF PreTaken, QueueInv
  <2>6. mq' = PrePut' - PreTaken' /\ PreTaken' <= PrePut'
    BY <2>1, <2>2, <2>5, <1>t DEF LoadRecord
  <2>7. kq' = PostPut' - PostTaken' /\ PostTaken' <= PostPut'
    BY <2>1 DEF LoadRecord, QueueInv
  <2>8. \A l \in Layers : l <= PostPut' => called'["post"][l] = iter
    BY <2>1, <1>11 DEF QueueInv
  <2>9. iter' = iter
    BY DEF LoadRecord, flags
  <2> QED
    BY <2>4, <2>6, <2>7, <2>8, <2>9 DEF QueueInv
<1>13. mq' \in 0..NumLayers
  BY <1>1, <1>12, <1>t DEF LoadRecord, QueueInv, PrePut, PreTaken, TypeOK, model, flags
<1>14. TypeOK'
  <2>1. lpc' \in {"copy", "record", "drain", "done"} /\ llayer' \in Layers
    BY <1>1, <1>t DEF Layers
  <2> QED
    BY <2>1, <1>6, <1>7, <1>11, <1>13 DEF LoadRecord, TypeOK, flags, model, save, gpu
<1>15. LoadInv'
  <2> USE DEF LoadRecord, flags, gpu
  <2>2. ASSUME NEW o \in On("htod")'
        PROVE  /\ (o = Copy(o.l, o.k) /\ o.k \in Maps) \/ o = R("pre", o.l)'
               /\ lpc' = "copy" => o.l < llayer'
    <3>1. CASE o = e
      BY <3>1, <1>1, <1>4, <1>t DEF R, Record
    <3>2. CASE o \in OpsOf(q)
      <4>1. o.l \in Nat
        BY <3>2, <1>t, OnTypes DEF On
      <4> QED
        BY <3>2, <4>1, <1>1, <1>3, <1>t DEF LoadInv, On, R, Record
    <3> QED
      BY <3>1, <3>2, <1>9 DEF On
  <2>3. ASSUME NEW l \in Layers, NEW k \in Maps
        PROVE  /\ fetching' /\ Loads(l, k)' => <<l, k>> \in fetched' \/ Copy(l, k) \in On("htod")'
               /\ reached'["pre"][l] = iter' => <<l, k>> \in fetched'
    <3>1. lmap' = 1 /\ k >= 1
      BY <1>1 DEF LoadInv, Maps
    <3>2. Loads(l, k)' => Loads(l, k)
      BY <3>1, <1>1, <1>t DEF Loads, Maps
    <3> QED
      BY <3>2, <1>9 DEF LoadInv
  <2> QED
    BY <2>2, <2>3, <1>1, <1>6, <1>8 DEF LoadInv
<1> QED
  BY <1>12, <1>14, <1>15

\* The value that save_kv_blocks_to_host takes stands for the event of its own
\* layer.
LEMMA SaveGetStep ==
    ASSUME TypeOK, QueueInv, SaveInv, SaveGet
    PROVE  TypeOK' /\ QueueInv' /\ SaveInv'
<1> DEFINE q == stream["dtoh"]
           w == W("post", slayer)
<1>t. /\ NumMaps \in Nat \ {0} /\ NumLayers \in Nat \ {0}
      /\ slayer \in 1..NumLayers /\ slayer \in Layers /\ mlayer \in 1..NumLayers
      /\ "dtoh" \in Streams /\ "post" \in Events
      /\ \A l \in Layers : l \in 1..NumLayers
      /\ \A k \in Maps : k \in 1..NumMaps
  BY LayerAssumption DEF TypeOK, Layers, Maps, Streams, Events
<1>1. spc = "get" /\ spc' = "copy" /\ saving /\ smap = 1 /\ smap' = 1
  BY DEF SaveGet, SaveInv
<1>2. Wait("post", slayer) = w
  <2>1. slayer <= PostPut
    BY <1>1, <1>t DEF SaveGet, QueueInv, PostPut, PostTaken
  <2> QED
    BY <2>1, <1>t DEF QueueInv, Wait, W
<1>3. q \in Seq(Ops) /\ w \in Ops
  BY <1>t, OpTypes DEF TypeOK
<1>4. \A o \in OpsOf(q) : o \in Ops /\ o.l < slayer
  BY <1>1, <1>t, OnTypes DEF SaveInv, On
<1>5. w.l = slayer /\ w.op = "wait"
  BY DEF W, Op
<1>6. /\ Append(q, w) \in Seq(Ops) /\ Sorted(Append(q, w))
      /\ OpsOf(Append(q, w)) = OpsOf(q) \union {w}
  <2>1. \A o \in OpsOf(q) : Before(o, w)
    BY <1>4, <1>5 DEF Before
  <2> QED
    BY <2>1, <1>3, Enqueue DEF SaveInv
<1>7. stream' = [stream EXCEPT !["dtoh"] = Append(q, w)]
  BY <1>2 DEF SaveGet
<1>8. stream'["dtoh"] = Append(q, w)
  BY <1>7, <1>t DEF TypeOK
<1>9. On("dtoh")' = On("dtoh") \union {w}
  BY <1>6, <1>8 DEF On
<1>10. QueueInv'
  BY <1>1, <1>t DEF SaveGet, QueueInv, PrePut, PreTaken, PostPut, PostTaken, TypeOK, flags, model, load
<1>11. kq' \in 0..NumLayers
  BY <1>1, <1>10, <1>t DEF SaveGet, QueueInv, PostPut, PostTaken, TypeOK, model, flags
<1>12. TypeOK'
  BY <1>6, <1>7, <1>11 DEF SaveGet, TypeOK, flags, model, load, gpu
<1>13. SaveInv'
  <2> USE DEF SaveGet, flags, gpu
  <2>1. ASSUME NEW o \in On("dtoh")'
        PROVE  /\ (o = Copy(o.l, o.k) /\ o.k \in Maps) \/ o = W("post", o.l)'
               /\ o.l < slayer \/ (o.l = slayer /\ o.op = "wait")
               /\ o.op = "copy" => reached'["post"][o.l] = iter' \/ W("post", o.l)' \in On("dtoh")'
    <3>1. CASE o = w
      BY <3>1, <1>1, <1>5, <1>t DEF W
    <3>2. CASE o \in OpsOf(q)
      BY <3>2, <1>4, <1>9 DEF SaveInv, On, W
    <3> QED
      BY <3>1, <3>2, <1>9 DEF On
  <2>2. ASSUME NEW l \in Layers, NEW k \in Maps, saving', Saves(l, k)'
        PROVE  <<l, k>> \in saved' \/ Copy(l, k) \in On("dtoh")'
    <3>1. Saves(l, k)
      BY <2>2, <1>1, <1>t DEF Saves
    <3> QED
      BY <2>2, <3>1, <1>9 DEF SaveInv
  <2>3. W("post", slayer)' \in On("dtoh")'
    BY <1>9 DEF W
  <2> QED
    BY <2>1, <2>2, <2>3, <1>1, <1>6, <1>8 DEF SaveInv
<1> QED
  BY <1>10, <1>12, <1>13

\* A mapping of the layer is enqueued for the host, behind the wait.
LEMMA SaveCopyStep ==
    ASSUME TypeOK, QueueInv, SaveInv, SaveCopy
    PROVE  TypeOK' /\ QueueInv' /\ SaveInv'
<1> DEFINE q == stream["dtoh"]
           c == Copy(slayer, smap)
<1>t. /\ NumMaps \in Nat \ {0} /\ NumLayers \in Nat \ {0}
      /\ slayer \in 1..NumLayers /\ slayer \in Layers /\ smap \in 1..NumMaps /\ smap \in Maps
      /\ "dtoh" \in Streams
      /\ \A l \in Layers : l \in 1..NumLayers
      /\ \A k \in Maps : k \in 1..NumMaps
  BY LayerAssumption DEF TypeOK, Layers, Maps, Streams
<1>1. /\ spc = "copy" /\ saving
      /\ \/ /\ smap < NumMaps
            /\ spc' = "copy" /\ smap' = smap + 1 /\ slayer' = slayer
         \/ /\ smap = NumMaps /\ slayer < NumLayers
            /\ spc' = "get" /\ smap' = 1 /\ slayer' = slayer + 1
         \/ /\ smap = NumMaps /\ slayer = NumLayers
            /\ spc' = "drain" /\ smap' = 1 /\ slayer' = slayer
  BY <1>t DEF SaveCopy, SaveInv, NextLayer, Following
<1>2. q \in Seq(Ops) /\ c \in Ops
  BY <1>t, OpTypes DEF TypeOK
<1>3. \A o \in OpsOf(q) :
         /\ o \in Ops /\ o.l \in Nat /\ o.k \in Nat
         /\ o.l < slayer \/ (o.l = slayer /\ (o.op = "wait" \/ o.k < smap))
         /\ o.op \in {"wait", "copy"}
  <2> SUFFICES ASSUME NEW o \in On("dtoh")
               PROVE  /\ o \in Ops /\ o.l \in Nat /\ o.k \in Nat
                      /\ o.l < slayer \/ (o.l = slayer /\ (o.op = "wait" \/ o.k < smap))
                      /\ o.op \in {"wait", "copy"}
    BY DEF On
  <2>1. o \in Ops /\ o.l \in Nat /\ o.k \in Nat
    BY <1>t, OnTypes
  <2>2. o.op \in {"wait", "copy"}
    <3>1. Copy(o.l, o.k).op = "copy" /\ W("post", o.l).op = "wait"
      BY DEF Copy, W, Op
    <3> QED
      BY <3>1 DEF SaveInv
  <2> QED
    BY <2>1, <2>2, <1>1 DEF SaveInv
<1>4. c.l = slayer /\ c.op = "copy" /\ c.k = smap /\ Rank(c) = smap
  BY DEF Copy, Op, Rank
<1>5. \A o \in OpsOf(q) : Before(o, c)
  BY <1>3, <1>4, <1>t DEF Before, Rank
<1>6. /\ Append(q, c) \in Seq(Ops) /\ Sorted(Append(q, c))
      /\ OpsOf(Append(q, c)) = OpsOf(q) \union {c}
  BY <1>2, <1>5, Enqueue DEF SaveInv
<1>7. stream' = [stream EXCEPT !["dtoh"] = Append(q, c)]
  BY DEF SaveCopy
<1>8. stream'["dtoh"] = Append(q, c)
  BY <1>7, <1>t DEF TypeOK
<1>9. On("dtoh")' = On("dtoh") \union {c}
  BY <1>6, <1>8 DEF On
<1>10. QueueInv'
  <2>1. PostTaken' = PostTaken
    BY <1>1, <1>t DEF SaveCopy, PostTaken, flags
  <2> QED
    BY <2>1 DEF SaveCopy, QueueInv, PrePut, PreTaken, PostPut, flags, model, load
<1>11. TypeOK'
  <2>1. spc' \in {"get", "copy", "drain", "done"} /\ smap' \in Maps /\ slayer' \in Layers
    BY <1>1, <1>t DEF Maps, Layers
  <2> QED
    BY <2>1, <1>6, <1>7 DEF SaveCopy, TypeOK, flags, model, load, gpu
<1>12. SaveInv'
  <2> USE DEF SaveCopy, flags, gpu
  <2>1. ASSUME NEW o \in On("dtoh")'
        PROVE  /\ (o = Copy(o.l, o.k) /\ o.k \in Maps) \/ o = W("post", o.l)'
               /\ spc' = "get" => o.l < slayer'
               /\ spc' = "copy" => o.l < slayer' \/ (o.l = slayer' /\ (o.op = "wait" \/ o.k < smap'))
               /\ o.op = "copy" => reached'["post"][o.l] = iter' \/ W("post", o.l)' \in On("dtoh")'
    <3>1. CASE o = c
      BY <3>1, <1>1, <1>4, <1>9, <1>t DEF SaveInv, W
    <3>2. CASE o \in OpsOf(q)
      <4>1. /\ spc' = "get" => o.l < slayer'
            /\ spc' = "copy" => o.l < slayer' \/ (o.l = slayer' /\ (o.op = "wait" \/ o.k < smap'))
        BY <3>2, <1>1, <1>3, <1>t
      <4> QED
        BY <3>2, <4>1, <1>9 DEF SaveInv, On, W
    <3> QED
      BY <3>1, <3>2, <1>9 DEF On
  <2>2. ASSUME NEW l \in Layers, NEW k \in Maps, saving', Saves(l, k)'
        PROVE  <<l, k>> \in saved' \/ Copy(l, k) \in On("dtoh")'
    <3>1. Saves(l, k) \/ (l = slayer /\ k = smap)
      BY <2>2, <1>1, <1>t DEF Saves
    <3> QED
      BY <2>2, <3>1, <1>9 DEF SaveInv
  <2>3. spc' = "copy" => reached'["post"][slayer'] = iter' \/ W("post", slayer)' \in On("dtoh")'
    BY <1>1, <1>9, <1>t DEF SaveInv, W
  <2> QED
    BY <2>1, <2>2, <2>3, <1>1, <1>6, <1>8 DEF SaveInv
<1> QED
  BY <1>10, <1>11, <1>12

-----------------------------------------------------------------------------
(* The GPU *)

\* What executing the head of a stream means for the streams.
LEMMA ExecuteStream ==
    ASSUME TypeOK, NEW s \in Streams, Sorted(stream[s]), Execute(s)
    PROVE  /\ Head(stream[s]) \in On(s) /\ Head(stream[s]) \in Ops
           /\ stream' \in [Streams -> Seq(Ops)]
           /\ Sorted(stream'[s])
           /\ On(s)' = On(s) \ {Head(stream[s])}
           /\ \A o \in On(s) : ~Before(o, Head(stream[s]))
           /\ \A o \in On(s)' : Before(Head(stream[s]), o)
           /\ \A t \in Streams \ {s} : stream'[t] = stream[t]
<1>1. stream[s] \in Seq(Ops) /\ stream[s] # <<>>
  BY DEF TypeOK, Execute
<1>2. stream' = [stream EXCEPT ![s] = Tail(stream[s])]
  BY DEF Execute
<1>3. stream'[s] = Tail(stream[s])
  BY <1>2 DEF TypeOK
<1>4. /\ Head(stream[s]) \in OpsOf(stream[s]) /\ Head(stream[s]) \in Ops
      /\ Tail(stream[s]) \in Seq(Ops)
      /\ Sorted(Tail(stream[s]))
      /\ OpsOf(Tail(stream[s])) = OpsOf(stream[s]) \ {Head(stream[s])}
      /\ \A p \in OpsOf(stream[s]) : p = Head(stream[s]) \/ Before(Head(stream[s]), p)
      /\ \A p \in OpsOf(stream[s]) : ~Before(p, Head(stream[s]))
  BY <1>1, Dequeue
<1>5. stream' \in [Streams -> Seq(Ops)] /\ \A t \in Streams \ {s} : stream'[t] = stream[t]
  BY <1>2, <1>4 DEF TypeOK
<1>6. On(s)' = OpsOf(stream[s]) \ {Head(stream[s])}
  BY <1>3, <1>4 DEF On
<1> QED
  BY <1>3, <1>4, <1>5, <1>6 DEF On

\* The model worker's stream: the attention of a layer runs after that of the
\* layers before it, and after the layer's pre event.
LEMMA ExecuteModel ==
    ASSUME TypeOK, CallInv, QueueInv, ModelInv, LoadInv, SaveInv, Execute("model")
    PROVE  /\ TypeOK' /\ CallInv' /\ QueueInv' /\ ModelInv' /\ LoadInv' /\ SaveInv'
           /\ UNCHANGED <<fetched, saved>>
           /\ \/ attended' = attended
              \/ \E l \in Layers : /\ attended = 1..(l - 1)
                                   /\ fetching => \A k \in Maps : <<l, k>> \in fetched
                                   /\ attended' = attended \union {l}
<1> DEFINE h == Head(stream["model"])
           l == h.l
<1>t. /\ NumLayers \in Nat \ {0} /\ mlayer \in 1..NumLayers /\ "model" \in Streams
      /\ "pre" \in Events /\ "post" \in Events /\ iter \in Nat
      /\ Layers = 1..NumLayers
  BY LayerAssumption DEF TypeOK, Layers, Streams, Events
<1>1. /\ h \in On("model") /\ h \in Ops
      /\ stream' \in [Streams -> Seq(Ops)]
      /\ Sorted(stream'["model"])
      /\ On("model")' = On("model") \ {h}
      /\ \A o \in On("model") : ~Before(o, h)
      /\ \A o \in On("model")' : Before(h, o)
      /\ stream'["htod"] = stream["htod"] /\ stream'["dtoh"] = stream["dtoh"]
  BY <1>t, ExecuteStream DEF ModelInv, Streams
<1>2. h.l \in Layers /\ h.l \in Nat
  BY <1>1, <1>t, OnTypes
<1>3. mpc # "done"
  BY DEF ModelInv, Execute
<1>4. /\ UNCHANGED <<flags, mpc, mlayer, lpc, llayer, lmap, spc, slayer, smap, mq, kq, called>>
      /\ UNCHANGED <<running, fetching, saving, iter, fetched, saved>>
  BY DEF Execute, flags, model, load, save
<1>5. \/ fetching /\ h = W("pre", h.l)
      \/ h = Attention(h.l)
      \/ saving /\ h = R("post", h.l)
  BY <1>1 DEF ModelInv
<1>6. QueueInv'
  BY <1>4 DEF QueueInv, PrePut, PreTaken, PostPut, PostTaken
<1>7. CASE fetching /\ h = W("pre", h.l)
  <2>1. h.op = "wait" /\ h.ev = "pre" /\ h.ver = iter
    BY <1>7 DEF W, Op
  <2>2. reached["pre"][h.l] >= iter /\ reached' = reached /\ attended' = attended
    BY <2>1 DEF Execute
  <2>3. reached["pre"][h.l] = iter
    <3>1. reached["pre"][h.l] \in Nat
      <4>1. reached["pre"][h.l] \in 0..MaxIters
        BY <1>2, <1>t DEF TypeOK
      <4> QED
        BY <4>1, LayerAssumption
    <3>2. reached["pre"][h.l] <= iter
      BY <1>2, <1>t DEF CallInv
    <3> QED
      BY <3>1, <3>2, <2>2, <1>t
  <2>4. TypeOK' /\ CallInv'
    BY <1>1, <1>4, <2>2 DEF TypeOK, CallInv
  <2>5. ModelInv'
    <3>1. \A m \in Layers : Attention(m) # h /\ R("post", m) # h
      BY <2>1 DEF Attention, R, Record, Op
    <3>2. \A m \in Layers : W("pre", m) = h => reached["pre"][m] = iter
      BY <2>3 DEF W, Op
    <3>3. \A m \in Layers : /\ Attention(m) \in On("model")' <=> Attention(m) \in On("model")
                            /\ R("post", m)' \in On("model")' <=> R("post", m) \in On("model")
                            /\ W("pre", m) \in On("model") => W("pre", m)' \in On("model")' \/ W("pre", m) = h
      BY <3>1, <1>1, <1>4 DEF R, Record, W
    <3>4. \A o \in On("model")' :
          /\ \/ fetching' /\ o = W("pre", o.l)'
             \/ o = Attention(o.l)
             \/ saving' /\ o = R("post", o.l)'
          /\ mpc' = "pre" => o.l < mlayer'
          /\ mpc' = "post" => o.l < mlayer' \/ (o.l = mlayer' /\ o.op # "record")
      BY <1>1, <1>4 DEF ModelInv, R, Record, W
    <3>5. ASSUME NEW m \in Layers
          PROVE  /\ Attends(m)' => m \in attended' \/ Attention(m) \in On("model")'
                 /\ m \in attended' => Attends(m)'
                 /\ Attention(m) \in On("model")' =>
                    /\ \A j \in attended' : j < m
                    /\ fetching' => reached'["pre"][m] = iter' \/ W("pre", m)' \in On("model")'
                 /\ R("post", m)' \in On("model")' => m \in attended' \/ Attention(m) \in On("model")'
                 /\ reached'["post"][m] = iter' => m \in attended'
      BY <3>2, <3>3, <1>4, <2>2 DEF ModelInv, Attends
    <3> QED
      BY <3>4, <3>5, <1>1, <1>3, <1>4 DEF ModelInv
  <2>6. LoadInv' /\ SaveInv'
    BY <1>1, <1>4, <2>2, SameLoad, SameSave
  <2> QED
    BY <1>4, <1>6, <2>2, <2>4, <2>5, <2>6
<1>8. CASE h = Attention(h.l)
  <2>1. h.op = "attend"
    BY <1>8 DEF Attention, Op
  <2>2. reached' = reached /\ attended' = attended \union {l}
    BY <2>1 DEF Execute
  <2>3. \A m \in attended : m < l
    BY <1>1, <1>2, <1>8 DEF ModelInv
  <2>4. ASSUME NEW m \in Layers, m < l
        PROVE  m \in attended
    <3>1. Attends(l)
      <4>1. mpc = "pre" => l < mlayer
        BY <1>1 DEF ModelInv
      <4>2. mpc = "post" => l < mlayer \/ l = mlayer
        BY <1>1 DEF ModelInv
      <4> QED
        BY <4>1, <4>2 DEF Attends, TypeOK
    <3>2. Attends(m)
      BY <3>1, <2>4, <1>2, <1>t DEF Attends
    <3>3. Attention(m) \notin On("model")
      <4>1. Before(Attention(m), h)
        BY <2>4 DEF Before, Attention, Op
      <4> QED
        BY <4>1, <1>1
    <3> QED
      BY <3>2, <3>3 DEF ModelInv
  <2>5. attended = 1..(l - 1)
    <3>1. \A m \in attended : m \in 1..(l - 1)
      <4>1. \A m \in attended : m \in 1..NumLayers /\ m < l
        BY <2>3, <1>t DEF TypeOK
      <4> QED
        BY <4>1, <1>2
    <3>2. \A m \in 1..(l - 1) : m \in Layers /\ m < l
      BY <1>2, <1>t
    <3> QED
      BY <3>1, <3>2, <2>4
  <2>6. fetching => \A k \in Maps : <<l, k>> \in fetched
    <3>1. W("pre", l) \notin On("model")
      <4>1. W("pre", l).l = l /\ Rank(W("pre", l)) = 0 /\ Rank(h) = 1
        BY <2>1 DEF W, Op, Rank
      <4>2. Before(W("pre", l), h)
        BY <4>1 DEF Before
      <4> QED
        BY <4>2, <1>1
    <3>2. fetching => reached["pre"][l] = iter
      BY <3>1, <1>1, <1>2, <1>8 DEF ModelInv
    <3> QED
      BY <3>2, <1>2 DEF LoadInv
  <2>7. TypeOK' /\ CallInv'
    BY <1>1, <1>2, <1>4, <2>2 DEF TypeOK, CallInv
  <2>8. ModelInv'
    <3>1. \A m \in Layers : W("pre", m) # h /\ R("post", m) # h /\ (Attention(m) = h => m = l)
      BY <2>1 DEF Attention, W, R, Record, Op
    <3>2. \A m \in Layers : /\ Attention(m) \in On("model") => Attention(m) \in On("model")' \/ m = l
                            /\ Attention(m) \in On("model")' => Attention(m) \in On("model")
                            /\ R("post", m)' \in On("model")' => R("post", m) \in On("model")
                            /\ W("pre", m) \in On("model") => W("pre", m)' \in On("model")'
      BY <3>1, <1>1, <1>4 DEF R, Record, W
    <3>3. \A o \in On("model")' :
          /\ \/ fetching' /\ o = W("pre", o.l)'
             \/ o = Attention(o.l)
             \/ saving' /\ o = R("post", o.l)'
          /\ mpc' = "pre" => o.l < mlayer'
          /\ mpc' = "post" => o.l < mlayer' \/ (o.l = mlayer' /\ o.op # "record")
      BY <1>1, <1>4 DEF ModelInv, R, Record, W
    <3>4. Attends(l)
      <4>1. mpc = "pre" => l < mlayer
        BY <1>1 DEF ModelInv
      <4>2. mpc = "post" => l < mlayer \/ l = mlayer
        BY <1>1 DEF ModelInv
      <4> QED
        BY <4>1, <4>2 DEF Attends, TypeOK
    <3>5. ASSUME NEW m \in Layers, Attention(m) \in On("model")'
          PROVE  l < m
      <4>1. Before(h, Attention(m))
        BY <3>5, <1>1
      <4>2. Attention(m).l = m /\ Rank(Attention(m)) = 1 /\ Rank(h) = 1
        BY <2>1 DEF Attention, Op, Rank
      <4> QED
        BY <4>1, <4>2 DEF Before
    <3>6. ASSUME NEW m \in Layers
          PROVE  /\ Attends(m)' => m \in attended' \/ Attention(m) \in On("model")'
                 /\ m \in attended' => Attends(m)'
                 /\ R("post", m)' \in On("model")' => m \in attended' \/ Attention(m) \in On("model")'
                 /\ reached'["post"][m] = iter' => m \in attended'
      BY <3>2, <3>4, <1>4, <2>2 DEF ModelInv, Attends
    <3>7. ASSUME NEW m \in Layers, Attention(m) \in On("model")'
          PROVE  /\ \A j \in attended' : j < m
                 /\ fetching' => reached'["pre"][m] = iter' \/ W("pre", m)' \in On("model")'
      BY <3>2, <3>5, <3>7, <1>4, <2>2 DEF ModelInv
    <3> QED
      BY <3>3, <3>6, <3>7, <1>1, <1>3, <1>4 DEF ModelInv
  <2>9. LoadInv' /\ SaveInv'
    BY <1>1, <1>4, <2>2, SameLoad, SameSave
  <2> QED
    BY <1>2, <1>4, <1>6, <2>2, <2>5, <2>6, <2>7, <2>8, <2>9
<1>9. CASE saving /\ h = R("post", h.l)
  <2>1. h.op = "record" /\ h.ev = "post" /\ h.ver = iter
    BY <1>9 DEF R, Record, Op
  <2>2. reached' = [reached EXCEPT !["post"][l] = iter] /\ attended' = attended
    BY <2>1 DEF Execute
  <2>3. /\ reached' \in [Events -> [Layers -> 0..MaxIters]]
        /\ \A m \in Layers : /\ reached'["pre"][m] = reached["pre"][m]
                             /\ m # l => reached'["post"][m] = reached["post"][m]
                             /\ m = l => reached'["post"][m] = iter
    BY <2>2, <1>2 DEF TypeOK, Events
  <2>4. TypeOK' /\ CallInv'
    <3>1. ASSUME NEW e \in Events, NEW m \in Layers PROVE reached'[e][m] <= iter
      <4>1. reached[e][m] <= iter
        BY DEF CallInv
      <4>2. reached'[e][m] = reached[e][m] \/ reached'[e][m] = iter
        BY <2>3 DEF Events
      <4> QED
        BY <4>1, <4>2, <1>t
    <3>2. CallInv'
      BY <3>1, <1>4 DEF CallInv
    <3> QED
      BY <3>2, <1>1, <1>4, <2>2, <2>3 DEF TypeOK
  <2>5. l \in attended
    <3>1. Attention(l) \notin On("model")
      <4>1. Attention(l).l = l /\ Rank(Attention(l)) = 1 /\ Rank(h) = NumMaps + 1
        BY <2>1 DEF Attention, Op, Rank
      <4>2. Before(Attention(l), h)
        BY <4>1, LayerAssumption DEF Before
      <4> QED
        BY <4>2, <1>1
    <3> QED
      BY <3>1, <1>1, <1>2, <1>9 DEF ModelInv
  <2>6. ModelInv'
    <3>1. \A m \in Layers : Attention(m) # h /\ W("pre", m) # h
      BY <2>1 DEF Attention, W, Op
    <3>3. \A m \in Layers : /\ Attention(m) \in On("model")' <=> Attention(m) \in On("model")
                            /\ R("post", m)' \in On("model")' => R("post", m) \in On("model")
                            /\ W("pre", m) \in On("model") => W("pre", m)' \in On("model")'
      BY <3>1, <1>1, <1>4 DEF R, Record, W
    <3>4. \A o \in On("model")' :
          /\ \/ fetching' /\ o = W("pre", o.l)'
             \/ o = Attention(o.l)
             \/ saving' /\ o = R("post", o.l)'
          /\ mpc' = "pre" => o.l < mlayer'
          /\ mpc' = "post" => o.l < mlayer' \/ (o.l = mlayer' /\ o.op # "record")
      BY <1>1, <1>4 DEF ModelInv, R, Record, W
    <3>5. ASSUME NEW m \in Layers
          PROVE  /\ Attends(m)' => m \in attended' \/ Attention(m) \in On("model")'
                 /\ m \in attended' => Attends(m)'
                 /\ Attention(m) \in On("model")' =>
                    /\ \A j \in attended' : j < m
                    /\ fetching' => reached'["pre"][m] = iter' \/ W("pre", m)' \in On("model")'
                 /\ R("post", m)' \in On("model")' => m \in attended' \/ Attention(m) \in On("model")'
                 /\ reached'["post"][m] = iter' => m \in attended'
      BY <3>3, <1>4, <2>2, <2>3, <2>5 DEF ModelInv, Attends
    <3> QED
      BY <3>4, <3>5, <1>1, <1>3, <1>4 DEF ModelInv
  <2>7. LoadInv' /\ SaveInv'
    BY <1>1, <1>4, <2>3, SameLoad, SameSave
  <2> QED
    BY <1>4, <1>6, <2>2, <2>4, <2>6, <2>7
<1> QED
  BY <1>5, <1>7, <1>8, <1>9

\* The stream of load_kv_blocks_from_host: the pre event of a layer is reached
\* when all of its mappings are on the GPU.
LEMMA ExecuteLoad ==
    ASSUME TypeOK, CallInv, QueueInv, ModelInv, LoadInv, SaveInv, Execute("htod")
    PROVE  /\ TypeOK' /\ CallInv' /\ QueueInv' /\ ModelInv' /\ LoadInv' /\ SaveInv'
           /\ UNCHANGED <<attended, saved>>
           /\ \/ fetched' = fetched
              \/ /\ fetching
                 /\ \E l \in Layers, k \in Maps : fetched' = fetched \union {<<l, k>>}
<1> DEFINE h == Head(stream["htod"])
           l == h.l
<1>t. /\ NumLayers \in Nat \ {0} /\ NumMaps \in Nat \ {0} /\ llayer \in 1..NumLayers
      /\ "htod" \in Streams /\ "pre" \in Events /\ "post" \in Events /\ iter \in Nat
      /\ Layers = 1..NumLayers /\ Maps = 1..NumMaps
  BY LayerAssumption DEF TypeOK, Layers, Maps, Streams, Events
<1>1. /\ h \in On("htod") /\ h \in Ops
      /\ stream' \in [Streams -> Seq(Ops)]
      /\ Sorted(stream'["htod"])
      /\ On("htod")' = On("htod") \ {h}
      /\ \A o \in On("htod") : ~Before(o, h)
      /\ stream'["model"] = stream["model"] /\ stream'["dtoh"] = stream["dtoh"]
  BY <1>t, ExecuteStream DEF LoadInv, Streams
<1>2. h.l \in Layers /\ h.l \in Nat
  BY <1>1, <1>t, OnTypes
<1>3. lpc # "done" /\ fetching
  BY DEF LoadInv, Execute
<1>4. /\ UNCHANGED <<flags, mpc, mlayer, lpc, llayer, lmap, spc, slayer, smap, mq, kq, called>>
      /\ UNCHANGED <<running, fetching, saving, iter>>
  BY DEF Execute, flags, model, load, save
<1>5. (h = Copy(h.l, h.k) /\ h.k \in Maps) \/ h = R("pre", h.l)
  BY <1>1 DEF LoadInv
<1>6. QueueInv'
  BY <1>4 DEF QueueInv, PrePut, PreTaken, PostPut, PostTaken
<1>7. \A o \in On("htod")' :
        /\ (o = Copy(o.l, o.k) /\ o.k \in Maps) \/ o = R("pre", o.l)'
        /\ lpc' = "copy" => o.l < llayer' \/ (o.l = llayer' /\ o.op = "copy" /\ o.k < lmap')
        /\ lpc' = "record" => o.l < llayer' \/ (o.l = llayer' /\ o.op = "copy")
  BY <1>1, <1>4 DEF LoadInv, R, Record
<1>8. CASE h = Copy(h.l, h.k) /\ h.k \in Maps
  <2>1. h.op = "copy"
    BY <1>8 DEF Copy, Op
  <2>2. /\ reached' = reached /\ attended' = attended /\ saved' = saved
        /\ fetched' = fetched \union {<<h.l, h.k>>}
    BY <2>1 DEF Execute
  <2>3. TypeOK' /\ CallInv'
    BY <1>1, <1>2, <1>4, <1>8, <2>2 DEF TypeOK, CallInv
  <2>4. ASSUME NEW m \in Layers, NEW k \in Maps
        PROVE  /\ fetching' /\ Loads(m, k)' => <<m, k>> \in fetched' \/ Copy(m, k) \in On("htod")'
               /\ reached'["pre"][m] = iter' => <<m, k>> \in fetched'
    <3>1. Copy(m, k) = h => m = h.l /\ k = h.k
      BY DEF Copy, Op
    <3>2. Loads(m, k)' <=> Loads(m, k)
      BY <1>4 DEF Loads
    <3>3. Loads(m, k) => <<m, k>> \in fetched \/ Copy(m, k) \in On("htod")
      BY <1>3 DEF LoadInv
    <3>4. reached["pre"][m] = iter => <<m, k>> \in fetched
      BY DEF LoadInv
    <3> QED
      BY <3>1, <3>2, <3>3, <3>4, <1>1, <1>4, <2>2
  <2>5. LoadInv'
    BY <1>1, <1>3, <1>4, <1>7, <2>4 DEF LoadInv
  <2>6. ModelInv' /\ SaveInv'
    BY <1>1, <1>4, <2>2, SameModel, SameSave
  <2> QED
    BY <1>2, <1>3, <1>6, <1>8, <2>2, <2>3, <2>5, <2>6
<1>9. CASE h = R("pre", h.l)
  <2>1. h.op = "record" /\ h.ev = "pre" /\ h.ver = iter
    BY <1>9 DEF R, Record, Op
  <2>2. /\ reached' = [reached EXCEPT !["pre"][l] = iter]
        /\ attended' = attended /\ saved' = saved /\ fetched' = fetched
    BY <2>1 DEF Execute
  <2>3. /\ reached' \in [Events -> [Layers -> 0..MaxIters]]
        /\ \A m \in Layers : /\ reached'["post"][m] = reached["post"][m]
                             /\ m # l => reached'["pre"][m] = reached["pre"][m]
                             /\ m = l => reached'["pre"][m] = iter
    BY <2>2, <1>2 DEF TypeOK, Events
  <2>4. TypeOK' /\ CallInv'
    <3>1. ASSUME NEW e \in Events, NEW m \in Layers PROVE reached'[e][m] <= iter
      <4>1. reached[e][m] <= iter
        BY DEF CallInv
      <4>2. reached'[e][m] = reached[e][m] \/ reached'[e][m] = iter
        BY <2>3 DEF Events
      <4> QED
        BY <4>1, <4>2, <1>t
    <3>2. CallInv'
      BY <3>1, <1>4 DEF CallInv
    <3> QED
      BY <3>2, <1>1, <1>4, <2>2, <2>3 DEF TypeOK
  <2>5. ASSUME NEW k \in Maps PROVE <<l, k>> \in fetched
    <3>1. Loads(l, k)
      <4>1. lpc = "copy" => l < llayer
        BY <1>1, <2>1 DEF LoadInv
      <4>2. lpc = "record" => l < llayer
        BY <1>1, <2>1 DEF LoadInv
      <4> QED
        BY <4>1, <4>2 DEF Loads, TypeOK
    <3>2. Copy(l, k) \notin On("htod")
      <4>1. Copy(l, k).l = l /\ Rank(Copy(l, k)) = k /\ Rank(h) = NumMaps + 1
        BY <2>1 DEF Copy, Op, Rank
      <4>2. Before(Copy(l, k), h)
        BY <4>1, <1>t DEF Before
      <4> QED
        BY <4>2, <1>1
    <3> QED
      BY <3>1, <3>2, <1>2, <1>3 DEF LoadInv
  <2>6. ASSUME NEW m \in Layers, NEW k \in Maps
        PROVE  /\ fetching' /\ Loads(m, k)' => <<m, k>> \in fetched' \/ Copy(m, k) \in On("htod")'
               /\ reached'["pre"][m] = iter' => <<m, k>> \in fetched'
    <3>1. Copy(m, k) # h
      BY <2>1 DEF Copy, Op
    <3>2. Loads(m, k)' <=> Loads(m, k)
      BY <1>4 DEF Loads
    <3>3. Loads(m, k) => <<m, k>> \in fetched \/ Copy(m, k) \in On("htod")
      BY <1>3 DEF LoadInv
    <3>4. reached["pre"][m] = iter => <<m, k>> \in fetched
      BY DEF LoadInv
    <3> QED
      BY <3>1, <3>2, <3>3, <3>4, <1>1, <1>4, <2>2, <2>3, <2>5
  <2>7. LoadInv'
    BY <1>1, <1>3, <1>4, <1>7, <2>6 DEF LoadInv
  <2>8. ModelInv' /\ SaveInv'
    BY <1>1, <1>4, <2>2, <2>3, SameModel, SameSave
  <2> QED
    BY <1>6, <2>2, <2>4, <2>7, <2>8
<1> QED
  BY <1>5, <1>8, <1>9

\* The stream of save_kv_blocks_to_host: a mapping goes to the host after the
\* layer's post event, so after its attention.
LEMMA ExecuteSave ==
    ASSUME TypeOK, CallInv, QueueInv, ModelInv, LoadInv, SaveInv, Execute("dtoh")
    PROVE  /\ TypeOK' /\ CallInv' /\ QueueInv' /\ ModelInv' /\ LoadInv' /\ SaveInv'
           /\ UNCHANGED <<attended, fetched>>
           /\ \/ saved' = saved
              \/ /\ saving
                 /\ \E l \in Layers, k \in Maps : l \in attended /\ saved' = saved \union {<<l, k>>}
<1> DEFINE h == Head(stream["dtoh"])
           l == h.l
<1>t. /\ NumLayers \in Nat \ {0} /\ NumMaps \in Nat \ {0}
      /\ "dtoh" \in Streams /\ "pre" \in Events /\ "post" \in Events /\ iter \in Nat
      /\ Layers = 1..NumLayers /\ Maps = 1..NumMaps
  BY LayerAssumption DEF TypeOK, Layers, Maps, Streams, Events
<1>1. /\ h \in On("dtoh") /\ h \in Ops
      /\ stream' \in [Streams -> Seq(Ops)]
      /\ Sorted(stream'["dtoh"])
      /\ On("dtoh")' = On("dtoh") \ {h}
      /\ \A o \in On("dtoh") : ~Before(o, h)
      /\ stream'["model"] = stream["model"] /\ stream'["htod"] = stream["htod"]
  BY <1>t, ExecuteStream DEF SaveInv, Streams
<1>2. h.l \in Layers /\ h.l \in Nat
  BY <1>1, <1>t, OnTypes
<1>3. spc # "done" /\ saving
  BY DEF SaveInv, Execute
<1>4. /\ UNCHANGED <<flags, mpc, mlayer, lpc, llayer, lmap, spc, slayer, smap, mq, kq, called>>
      /\ UNCHANGED <<running, fetching, saving, iter>>
  BY DEF Execute, flags, model, load, save
<1>5. (h = Copy(h.l, h.k) /\ h.k \in Maps) \/ h = W("post", h.l)
  BY <1>1 DEF SaveInv
<1>6. QueueInv'
  BY <1>4 DEF QueueInv, PrePut, PreTaken, PostPut, PostTaken
<1>7. \A o \in On("dtoh")' :
        /\ (o = Copy(o.l, o.k) /\ o.k \in Maps) \/ o = W("post", o.l)'
        /\ spc' = "get" => o.l < slayer'
        /\ spc' = "copy" => o.l < slayer' \/ (o.l = slayer' /\ (o.op = "wait" \/ o.k < smap'))
  BY <1>1, <1>4 DEF SaveInv, W
<1>8. CASE h = Copy(h.l, h.k) /\ h.k \in Maps
  <2>1. h.op = "copy"
    BY <1>8 DEF Copy, Op
  <2>2. /\ reached' = reached /\ attended' = attended /\ fetched' = fetched
        /\ saved' = saved \union {<<h.l, h.k>>}
    BY <2>1 DEF Execute
  <2>3. TypeOK' /\ CallInv'
    BY <1>1, <1>2, <1>4, <1>8, <2>2 DEF TypeOK, CallInv
  <2>4. \A m \in Layers : W("post", m)' \in On("dtoh")' <=> W("post", m) \in On("dtoh")
    <3>1. \A m \in Layers : W("post", m) # h /\ W("post", m)' = W("post", m)
      BY <2>1, <1>4 DEF W, Op
    <3> QED
      BY <3>1, <1>1
  <2>5. ASSUME NEW m \in Layers, NEW k \in Maps, saving', Saves(m, k)'
        PROVE  <<m, k>> \in saved' \/ Copy(m, k) \in On("dtoh")'
    <3>1. Copy(m, k) = h => m = h.l /\ k = h.k
      BY DEF Copy, Op
    <3>2. Saves(m, k)
      BY <2>5, <1>4 DEF Saves
    <3>3. <<m, k>> \in saved \/ Copy(m, k) \in On("dtoh")
      BY <3>2, <1>3 DEF SaveInv
    <3> QED
      BY <3>1, <3>3, <1>1, <2>2
  <2>6. ASSUME NEW o \in On("dtoh")', o.op = "copy"
        PROVE  reached'["post"][o.l] = iter' \/ W("post", o.l)' \in On("dtoh")'
    <3>1. o \in On("dtoh") /\ o.l \in Layers
      BY <1>1, <1>t, OnTypes
    <3>2. reached["post"][o.l] = iter \/ W("post", o.l) \in On("dtoh")
      BY <3>1, <2>6 DEF SaveInv
    <3> QED
      BY <3>1, <3>2, <2>2, <2>4, <1>4
  <2>7. spc' = "copy" => reached'["post"][slayer'] = iter' \/ W("post", slayer)' \in On("dtoh")'
    BY <2>2, <2>4, <1>4 DEF SaveInv, TypeOK
  <2>8. SaveInv'
    BY <1>1, <1>3, <1>4, <1>7, <2>5, <2>6, <2>7 DEF SaveInv
  <2>9. ModelInv' /\ LoadInv'
    BY <1>1, <1>4, <2>2, SameModel, SameLoad
  <2>10. l \in attended
    <3>1. W("post", l) \notin On("dtoh")
      <4>1. W("post", l).l = l /\ Rank(W("post", l)) = 0 /\ Rank(h) = h.k
        BY <2>1 DEF W, Op, Rank
      <4>2. Before(W("post", l), h)
        BY <4>1, <1>8, <1>t DEF Before
      <4> QED
        BY <4>2, <1>1
    <3>2. reached["post"][l] = iter
      BY <3>1, <2>1, <1>1 DEF SaveInv
    <3> QED
      BY <3>2, <1>2 DEF ModelInv
  <2> QED
    BY <1>2, <1>3, <1>6, <1>8, <2>2, <2>3, <2>8, <2>9, <2>10
<1>9. CASE h = W("post", h.l)
  <2>1. h.op = "wait" /\ h.ev = "post" /\ h.ver = iter
    BY <1>9 DEF W, Op
  <2>2. /\ reached["post"][l] >= iter
        /\ reached' = reached /\ attended' = attended /\ saved' = saved /\ fetched' = fetched
    BY <2>1 DEF Execute
  <2>3. reached["post"][l] = iter
    <3>1. reached["post"][l] \in Nat
      <4>1. reached["post"][l] \in 0..MaxIters
        BY <1>2, <1>t DEF TypeOK
      <4> QED
        BY <4>1, LayerAssumption
    <3>2. reached["post"][l] <= iter
      BY <1>2, <1>t DEF CallInv
    <3> QED
      BY <3>1, <3>2, <2>2, <1>t
  <2>4. TypeOK' /\ CallInv'
    BY <1>1, <1>4, <2>2 DEF TypeOK, CallInv
  <2>5. \A m \in Layers : W("post", m) \in On("dtoh") => W("post", m)' \in On("dtoh")' \/ m = l
    <3>1. \A m \in Layers : (W("post", m) = h => m = l) /\ W("post", m)' = W("post", m)
      BY <1>4 DEF W, Op
    <3> QED
      BY <3>1, <1>1
  <2>6. ASSUME NEW m \in Layers, NEW k \in Maps, saving', Saves(m, k)'
        PROVE  <<m, k>> \in saved' \/ Copy(m, k) \in On("dtoh")'
    <3>1. Copy(m, k) # h
      BY <2>1 DEF Copy, Op
    <3>2. Saves(m, k)
      BY <2>6, <1>4 DEF Saves
    <3>3. <<m, k>> \in saved \/ Copy(m, k) \in On("dtoh")
      BY <3>2, <1>3 DEF SaveInv
    <3> QED
      BY <3>1, <3>3, <1>1, <2>2
  <2>7. ASSUME NEW o \in On("dtoh")', o.op = "copy"
        PROVE  reached'["post"][o.l] = iter' \/ W("post", o.l)' \in On("dtoh")'
    <3>1. o \in On("dtoh") /\ o.l \in Layers
      BY <1>1, <1>t, OnTypes
    <3>2. reached["post"][o.l] = iter \/ W("post", o.l) \in On("dtoh")
      BY <3>1, <2>7 DEF SaveInv
    <3> QED
      BY <3>1, <3>2, <2>2, <2>3, <2>5, <1>4
  <2>8. spc' = "copy" => reached'["post"][slayer'] = iter' \/ W("post", slayer)' \in On("dtoh")'
    BY <2>2, <2>3, <2>5, <1>4 DEF SaveInv, TypeOK
  <2>9. SaveInv'
    BY <1>1, <1>3, <1>4, <1>7, <2>6, <2>7, <2>8 DEF SaveInv
  <2>10. ModelInv' /\ LoadInv'
    BY <1>1, <1>4, <2>2, SameModel, SameLoad
  <2> QED
    BY <1>6, <2>2, <2>4, <2>9, <2>10
<1> QED
  BY <1>5, <1>8, <1>9

-----------------------------------------------------------------------------
(* The iteration *)

\* An empty stream has no operations, and is sorted.
LEMMA EmptyStream == OpsOf(<<>>) = {} /\ Sorted(<<>>)
<1>1. Len(<<>>) = 0
  BY EmptySeq
<1> QED
  BY <1>1 DEF OpsOf, Sorted

\* An iteration starts with empty queues and streams, and all the events are
\* of earlier iterations.
LEMMA StartStep ==
    ASSUME IInv, NEW f \in BOOLEAN, NEW s \in BOOLEAN, StartIter(f, s)
    PROVE  IInv'
<1> USE DEF StartIter, IInv
<1>t. /\ NumLayers \in Nat \ {0} /\ NumMaps \in Nat \ {0} /\ MaxIters \in Nat
      /\ "model" \in Streams /\ "htod" \in Streams /\ "dtoh" \in Streams
      /\ iter \in Nat /\ iter' = iter + 1 /\ iter + 1 \in 0..MaxIters
      /\ Layers = 1..NumLayers /\ Maps = 1..NumMaps
  BY LayerAssumption DEF TypeOK, Layers, Maps, Streams
<1>1. \A t \in Streams : stream[t] = <<>> /\ stream'[t] = <<>> /\ On(t)' = {}
  BY EmptyStream DEF NothingLeft, On
<1>2. mq' = 0 /\ kq' = 0
  BY DEF NothingLeft
<1>3. \A e \in Events, l \in Layers : reached'[e][l] < iter'
  <2> SUFFICES ASSUME NEW e \in Events, NEW l \in Layers PROVE reached[e][l] < iter + 1
    BY <1>t
  <2>1. reached[e][l] <= iter
    BY DEF CallInv
  <2>2. reached[e][l] \in 0..MaxIters
    BY DEF TypeOK
  <2> QED
    BY <2>1, <2>2, <1>t
<1>4. TypeOK'
  BY <1>t, <1>2 DEF TypeOK
<1>5. \A e \in Events, l \in Layers : reached'[e][l] \in Nat /\ reached'[e][l] # iter'
  <2> SUFFICES ASSUME NEW e \in Events, NEW l \in Layers
               PROVE  reached'[e][l] \in Nat /\ reached'[e][l] # iter'
    OBVIOUS
  <2>1. reached'[e][l] \in 0..MaxIters
    BY DEF TypeOK
  <2> QED
    BY <2>1, <1>3, <1>t
<1>6. CallInv'
  BY <1>3, <1>5, <1>t DEF CallInv
<1>7. QueueInv'
  BY <1>2, <1>t DEF QueueInv, PrePut, PreTaken, PostPut, PostTaken
<1>8. "pre" \in Events /\ "post" \in Events
  BY DEF Events
<1>9. ModelInv'
  <2>1. \A l \in Layers : ~Attends(l)'
    BY <1>t DEF Attends
  <2> QED
    BY <2>1, <1>1, <1>5, <1>8, <1>t, EmptyStream DEF ModelInv
<1>10. LoadInv'
  <2>1. f => \A l \in Layers, k \in Maps : ~Loads(l, k)'
    BY <1>t DEF Loads
  <2> QED
    BY <2>1, <1>1, <1>5, <1>8, <1>t, EmptyStream DEF LoadInv
<1>11. SaveInv'
  <2>1. s => \A l \in Layers, k \in Maps : ~Saves(l, k)'
    BY <1>t DEF Saves
  <2> QED
    BY <2>1, <1>1, <1>5, <1>8, <1>t, EmptyStream DEF SaveInv
<1>12. NothingLeft'
  BY DEF NothingLeft
<1> QED
  BY <1>4, <1>6, <1>7, <1>9, <1>10, <1>11, <1>12

\* An iteration ends when all has been executed.
LEMMA JoinStep ==
    ASSUME IInv, JoinIter
    PROVE  /\ IInv'
           /\ attended = Layers
           /\ fetching => fetched = Layers \X Maps
           /\ saving => saved = Layers \X Maps
<1> USE DEF JoinIter, IInv
<1>t. /\ NumLayers \in Nat \ {0}
      /\ "model" \in Streams /\ "htod" \in Streams /\ "dtoh" \in Streams
  BY LayerAssumption DEF Streams
<1>1. running /\ QueueInv /\ ModelInv /\ LoadInv /\ SaveInv
  OBVIOUS
<1>2. stream["model"] = <<>> /\ stream["htod"] = <<>> /\ stream["dtoh"] = <<>>
  BY <1>1 DEF ModelInv, LoadInv, SaveInv
<1>3. On("model") = {} /\ On("htod") = {} /\ On("dtoh") = {}
  BY <1>2, EmptyStream DEF On
<1>4. mq = 0 /\ kq = 0
  BY <1>1, <1>t DEF QueueInv, PrePut, PreTaken, PostPut, PostTaken
<1>5. attended = Layers
  BY <1>1, <1>3 DEF ModelInv, Attends, TypeOK
<1>6. fetching => fetched = Layers \X Maps
  <2> SUFFICES ASSUME fetching PROVE fetched = Layers \X Maps
    OBVIOUS
  <2>1. \A l \in Layers, k \in Maps : <<l, k>> \in fetched
    BY <1>1, <1>3 DEF LoadInv, Loads
  <2> QED
    BY <2>1 DEF TypeOK
<1>7. saving => saved = Layers \X Maps
  <2> SUFFICES ASSUME saving PROVE saved = Layers \X Maps
    OBVIOUS
  <2>1. \A l \in Layers, k \in Maps : <<l, k>> \in saved
    BY <1>1, <1>3 DEF SaveInv, Saves
  <2> QED
    BY <2>1 DEF TypeOK
<1>8. TypeOK' /\ CallInv'
  BY DEF TypeOK, CallInv, model, load, save, gpu
<1>9. NothingLeft'
  BY <1>2, <1>4 DEF NothingLeft, Streams
<1> QED
  BY <1>5, <1>6, <1>7, <1>8, <1>9

\* The steps of the two workers keep the invariant.
LEMMA WorkerStep ==
    ASSUME IInv, ModelWorker \/ KvLoad \/ KvSave
    PROVE  IInv' /\ UNCHANGED Order!vars
<1> USE DEF flags, model, load, save, gpu
<1>s. "model" \in Streams /\ "htod" \in Streams /\ "dtoh" \in Streams
  BY DEF Streams
<1>1. running /\ TypeOK /\ CallInv /\ QueueInv /\ ModelInv /\ LoadInv /\ SaveInv
  BY DEF IInv, CallInv, ModelWorker, KvLoad, KvSave, PreHook, PostHook, ModelDone, LoadCopy,
         LoadRecord, LoadDone, SaveGet, SaveCopy, SaveDone
<1>2. UNCHANGED Order!vars
  BY DEF ModelWorker, KvLoad, KvSave, PreHook, PostHook, ModelDone, LoadCopy,
         LoadRecord, LoadDone, SaveGet, SaveCopy, SaveDone, Order!vars
<1>3. /\ UNCHANGED <<running, fetching, saving, iter, fetched, attended, saved, reached>>
      /\ running'
  BY <1>1 DEF ModelWorker, KvLoad, KvSave, PreHook, PostHook, ModelDone, LoadCopy,
         LoadRecord, LoadDone, SaveGet, SaveCopy, SaveDone
<1>4. CallInv' /\ NothingLeft'
  BY <1>1, <1>3 DEF CallInv, NothingLeft
<1>5. ASSUME UNCHANGED <<load, save>>, \A t \in {"htod", "dtoh"} : stream'[t] = stream[t]
      PROVE  LoadInv' /\ SaveInv'
  BY <1>1, <1>3, <1>5, SameLoad, SameSave
<1>6. ASSUME UNCHANGED <<model, save>>, \A t \in {"model", "dtoh"} : stream'[t] = stream[t]
      PROVE  ModelInv' /\ SaveInv'
  BY <1>1, <1>3, <1>6, SameModel, SameSave
<1>7. ASSUME UNCHANGED <<model, load>>, \A t \in {"model", "htod"} : stream'[t] = stream[t]
      PROVE  ModelInv' /\ LoadInv'
  BY <1>1, <1>3, <1>7, SameModel, SameLoad
<1>8. CASE PreHook
  BY <1>1, <1>2, <1>3, <1>4, <1>5, <1>8, PreHookStep DEF IInv, PreHook, TypeOK, Streams
<1>9. CASE PostHook
  BY <1>1, <1>2, <1>3, <1>4, <1>5, <1>9, PostHookStep DEF IInv, PostHook, TypeOK, Streams
<1>10. CASE LoadCopy
  BY <1>1, <1>2, <1>3, <1>4, <1>6, <1>10, LoadCopyStep DEF IInv, LoadCopy, TypeOK, Streams
<1>11. CASE LoadRecord
  BY <1>1, <1>2, <1>3, <1>4, <1>6, <1>11, LoadRecordStep DEF IInv, LoadRecord, TypeOK, Streams
<1>12. CASE SaveGet
  BY <1>1, <1>2, <1>3, <1>4, <1>7, <1>12, SaveGetStep DEF IInv, SaveGet, TypeOK, Streams
<1>13. CASE SaveCopy
  BY <1>1, <1>2, <1>3, <1>4, <1>7, <1>13, SaveCopyStep DEF IInv, SaveCopy, TypeOK, Streams
<1>14. CASE ModelDone
  <2>1. TypeOK' /\ QueueInv'
    BY <1>1, <1>14 DEF ModelDone, TypeOK, QueueInv, PrePut, PreTaken, PostPut, PostTaken
  <2>2. ModelInv'
    BY <1>1, <1>14 DEF ModelDone, ModelInv, On, W, R, Record, Attends
  <2> QED
    BY <2>1, <2>2, <1>2, <1>3, <1>4, <1>5, <1>14 DEF IInv, ModelDone
<1>15. CASE LoadDone
  <2>1. TypeOK' /\ QueueInv'
    BY <1>1, <1>15 DEF LoadDone, TypeOK, QueueInv, PrePut, PreTaken, PostPut, PostTaken
  <2>2. LoadInv'
    BY <1>1, <1>15 DEF LoadDone, LoadInv, On, R, Record, Loads
  <2> QED
    BY <2>1, <2>2, <1>2, <1>3, <1>4, <1>6, <1>15 DEF IInv, LoadDone
<1>16. CASE SaveDone
  <2>1. TypeOK' /\ QueueInv'
    BY <1>1, <1>16 DEF SaveDone, TypeOK, QueueInv, PrePut, PreTaken, PostPut, PostTaken
  <2>2. SaveInv'
    BY <1>1, <1>16 DEF SaveDone, SaveInv, On, W, Saves
  <2> QED
    BY <2>1, <2>2, <1>2, <1>3, <1>4, <1>7, <1>16 DEF IInv, SaveDone
<1> QED
  BY <1>8, <1>9, <1>10, <1>11, <1>12, <1>13, <1>14, <1>15, <1>16 DEF ModelWorker, KvLoad, KvSave

\* So does the GPU, and what it executes is a step of LayerOrder.
LEMMA ExecuteStep ==
    ASSUME IInv, NEW s \in Streams, Execute(s)
    PROVE  IInv' /\ [Order!Next]_Order!vars
<1>1. running
  BY DEF IInv, NothingLeft, Execute
<1>2. TypeOK /\ CallInv /\ QueueInv /\ ModelInv /\ LoadInv /\ SaveInv
  BY <1>1 DEF IInv
<1>3. UNCHANGED <<running, fetching, saving>>
  BY DEF Execute, flags
<1>4. NothingLeft'
  BY <1>1, <1>3 DEF NothingLeft
<1>5. CASE s = "model"
  <2>1. /\ TypeOK' /\ CallInv' /\ QueueInv' /\ ModelInv' /\ LoadInv' /\ SaveInv'
        /\ UNCHANGED <<fetched, saved>>
        /\ \/ attended' = attended
           \/ \E l \in Layers : /\ attended = 1..(l - 1)
                                /\ fetching => \A k \in Maps : <<l, k>> \in fetched
                                /\ attended' = attended \union {l}
    BY <1>2, <1>5, ExecuteModel
  <2>2. CASE attended' = attended
    BY <2>1, <2>2, <1>3, <1>4 DEF IInv, Order!vars
  <2>3. ASSUME NEW l \in Layers, attended = 1..(l - 1),
               fetching => \A k \in Maps : <<l, k>> \in fetched,
               attended' = attended \union {l}
        PROVE  Order!Next
    <3>1. Order!Attend(l)
      BY <2>1, <2>3, <1>1, <1>3 DEF Order!Attend, Order!Maps, Maps
    <3> QED
      BY <3>1 DEF Order!Next, Order!Layers, Layers
  <2> QED
    BY <2>1, <2>2, <2>3, <1>4 DEF IInv
<1>6. CASE s = "htod"
  <2>1. /\ TypeOK' /\ CallInv' /\ QueueInv' /\ ModelInv' /\ LoadInv' /\ SaveInv'
        /\ UNCHANGED <<attended, saved>>
        /\ \/ fetched' = fetched
           \/ /\ fetching
              /\ \E l \in Layers, k \in Maps : fetched' = fetched \union {<<l, k>>}
    BY <1>2, <1>6, ExecuteLoad
  <2>2. CASE fetched' = fetched
    BY <2>1, <2>2, <1>3, <1>4 DEF IInv, Order!vars
  <2>3. ASSUME NEW l \in Layers, NEW k \in Maps, fetching, fetched' = fetched \union {<<l, k>>}
        PROVE  Order!Next
    <3>1. Order!Fetch(l, k)
      BY <2>1, <2>3, <1>1, <1>3 DEF Order!Fetch
    <3> QED
      BY <3>1 DEF Order!Next, Order!Layers, Layers, Order!Maps, Maps
  <2> QED
    BY <2>1, <2>2, <2>3, <1>4 DEF IInv
<1>7. CASE s = "dtoh"
  <2>1. /\ TypeOK' /\ CallInv' /\ QueueInv' /\ ModelInv' /\ LoadInv' /\ SaveInv'
        /\ UNCHANGED <<attended, fetched>>
        /\ \/ saved' = saved
           \/ /\ saving
              /\ \E l \in Layers, k \in Maps : l \in attended /\ saved' = saved \union {<<l, k>>}
    BY <1>2, <1>7, ExecuteSave
  <2>2. CASE saved' = saved
    BY <2>1, <2>2, <1>3, <1>4 DEF IInv, Order!vars
  <2>3. ASSUME NEW l \in Layers, NEW k \in Maps, saving, l \in attended,
               saved' = saved \union {<<l, k>>}
        PROVE  Order!Next
    <3>1. Order!Save(l, k)
      BY <2>1, <2>3, <1>1, <1>3 DEF Order!Save
    <3> QED
      BY <3>1 DEF Order!Next, Order!Layers, Layers, Order!Maps, Maps
  <2> QED
    BY <2>1, <2>2, <2>3, <1>4 DEF IInv
<1> QED
  BY <1>5, <1>6, <1>7 DEF Streams

\* Every step keeps the invariant and is a step of LayerOrder or a stutter.
LEMMA NextStep ==
    ASSUME IInv, [Next]_vars
    PROVE  IInv' /\ [Order!Next]_Order!vars
<1>1. ASSUME NEW f \in BOOLEAN, NEW s \in BOOLEAN, StartIter(f, s)
      PROVE  IInv' /\ Order!Next
  <2>1. Order!Begin(f, s)
    BY <1>1 DEF StartIter, Order!Begin
  <2> QED
    BY <1>1, <2>1, StartStep DEF Order!Next
<1>2. CASE JoinIter
  <2>1. Order!End
    BY <1>2, JoinStep DEF JoinIter, gpu, Order!End, Order!Layers, Order!Maps, Layers, Maps
  <2> QED
    BY <1>2, <2>1, JoinStep DEF Order!Next
<1>3. CASE UNCHANGED vars
  <2> USE DEF vars, flags, model, load, save, gpu
  <2>1. TypeOK' /\ CallInv' /\ NothingLeft'
    BY <1>3 DEF IInv, TypeOK, CallInv, NothingLeft
  <2>2. ASSUME running PROVE QueueInv' /\ ModelInv' /\ LoadInv' /\ SaveInv'
    <3>1. QueueInv'
      BY <1>3, <2>2 DEF IInv, QueueInv, PrePut, PreTaken, PostPut, PostTaken
    <3> QED
      BY <1>3, <2>2, <3>1, SameModel, SameLoad, SameSave DEF IInv
  <2> QED
    BY <1>3, <2>1, <2>2 DEF IInv, Order!vars
<1> QED
  BY <1>1, <1>2, <1>3, WorkerStep, ExecuteStep DEF Next

\* Nothing runs initially.
LEMMA InitStep == Init => IInv /\ Order!Init
<1> SUFFICES ASSUME Init PROVE IInv /\ Order!Init
  OBVIOUS
<1>1. TypeOK
  <2>1. <<>> \in Seq(Ops)
    BY EmptySeq
  <2>2. stream \in [Streams -> Seq(Ops)]
    BY <2>1 DEF Init
  <2>3. 1 \in Layers /\ 1 \in Maps /\ 0 \in 0..MaxIters /\ 0 \in 0..NumLayers
    BY LayerAssumption DEF Layers, Maps
  <2>4. /\ called \in [Events -> [Layers -> 0..MaxIters]]
        /\ reached \in [Events -> [Layers -> 0..MaxIters]]
    BY <2>3 DEF Init
  <2> QED
    BY <2>2, <2>3, <2>4 DEF Init, TypeOK
<1>2. CallInv /\ NothingLeft
  BY DEF Init, CallInv, NothingLeft
<1> QED
  BY <1>1, <1>2 DEF Init, IInv, Order!Init

\* What TypeOK says of each variable is kept by every step: in particular a
\* queue never holds more values than the model has layers.
THEOREM TypeCorrect == Spec => []TypeOK
<1>1. IInv => TypeOK
  BY DEF IInv
<1> QED
  BY <1>1, InitStep, NextStep, PTL DEF Spec

\* No value and no operation is left between two iterations, whatever the
\* workers and the streams did.
THEOREM NothingIsLeft == Spec => []NothingLeft
<1>1. IInv => NothingLeft
  BY DEF IInv
<1> QED
  BY <1>1, InitStep, NextStep, PTL DEF Spec

\* The workers implement LayerOrder: in every layer fetch, attention and
\* write-through in this order, all of them done when the iteration is.
THEOREM LayerOrderKept == Spec => KeepsLayerOrder
  BY InitStep, NextStep, PTL DEF Spec, KeepsLayerOrder, Order!Spec
=============================================================================
