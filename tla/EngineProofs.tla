---------------------------- MODULE EngineProofs ----------------------------
(***************************************************************************)
(* Safety of Engine.tla for every set of requests.  With session ids of    *)
(* their own, run_engine never panics on a missing event and a handler     *)
(* returns the output of its own request; with any session ids, clear_cache *)
(* clears the caches only when nothing uses them.                          *)
(***************************************************************************)
EXTENDS Engine, SequenceTheorems, TLAPS

-----------------------------------------------------------------------------
(* Types *)

\* What the control part of TypeOK says of each variable is kept by every
\* step.
THEOREM TypeCorrect == Spec => []TypeOK
<1>e. <<>> \in Seq(Jobs)
  BY EmptySeq
<1>1. Init => TypeOK
  <2> SUFFICES ASSUME Init PROVE TypeOK
    OBVIOUS
  <2>1. bg \in Seq(Jobs)
    BY <1>e DEF Init
  <2> QED
    BY <2>1 DEF Init, TypeOK
<1>2. TypeOK /\ [Next]_vars => TypeOK'
  <2> SUFFICES ASSUME TypeOK, [Next]_vars
               PROVE  TypeOK'
    OBVIOUS
  <2> USE EngineAssumption DEF TypeOK
  <2>j. ASSUME NEW k \in {"in", "out", "sync"}, NEW r \in Reqs \union {NoReq}, submit(Job(k, r))
        PROVE  bg' \in Seq(Jobs)
    <3>1. Job(k, r) \in Jobs
      BY DEF Job, Jobs
    <3> QED
      BY <2>j, <3>1, AppendProperties DEF submit
  <2>s. ASSUME NEW r \in Reqs PROVE Session[r] \in Sessions
    BY DEF Sessions
  <2>1. ASSUME NEW r \in Reqs, Handler(r) PROVE TypeOK'
    <3>1. CASE Generate(r)
      BY <3>1, <2>s DEF Generate, sched, loop, back, clear
    <3>2. CASE AddTask(r)
      BY <3>2 DEF AddTask, tables, loop, back, clear
    <3>3. CASE StageTask(r)
      <4>1. bg' \in Seq(Jobs)
        BY <3>3, <2>j DEF StageTask
      <4> QED
        BY <3>3, <4>1 DEF StageTask, pend, SamePending, tables, loop, clear
    <3>4. CASE Listen(r)
      BY <3>4 DEF Listen, tables, sched, loop, back, clear
    <3>5. CASE PublishFails(r)
      BY <3>5 DEF PublishFails, tables, sched, loop, back, clear
    <3>6. CASE TakeOutput(r)
      BY <3>6, <2>s DEF TakeOutput, sched, loop, back, clear
    <3>7. CASE ReserveBlocks(r)
      BY <3>7 DEF ReserveBlocks, tables, sched, loop, back, clear
    <3>8. CASE PendTask(r)
      BY <3>8 DEF PendTask, pend, SamePending, tables, loop, back, clear
    <3>9. CASE Trigger(r)
      BY <3>9, <2>s DEF Trigger, sched, loop, back, clear
    <3>10. CASE TriggerTask(r)
      BY <3>10 DEF TriggerTask, SamePending, tables, loop, back, clear
    <3> QED
      BY <2>1, <3>1, <3>2, <3>3, <3>4, <3>5, <3>6, <3>7, <3>8, <3>9, <3>10 DEF Handler
  <2>2. ASSUME Loop PROVE TypeOK'
    <3>1. ASSUME NEW tasks \in SUBSET queue, Schedule(tasks) PROVE TypeOK'
      BY <3>1 DEF Schedule, tables, sched, back, clear
    <3>2. ASSUME NEW done \in SUBSET batch, Update(done) PROVE TypeOK'
      BY <3>2 DEF Update, tables, back, clear
    <3>3. ASSUME NEW r \in Reqs, FinishTask(r) PROVE TypeOK'
      <4>1. bg' \in Seq(Jobs)
        BY <3>3, <2>j DEF FinishTask
      <4> QED
        BY <3>3, <4>1 DEF FinishTask, tables, sched, clear
    <3>4. ASSUME NEW r \in Reqs, StoreOutput(r) PROVE TypeOK'
      BY <3>4, <2>s DEF StoreOutput, sched, back, clear
    <3>5. CASE Notify
      BY <3>5, <2>s DEF Notify, notify_waiters, sched, back, clear
    <3>6. CASE ExecuteFails
      BY <3>6 DEF ExecuteFails, tables, sched, back, clear
    <3> QED
      BY <2>2, <3>1, <3>2, <3>3, <3>4, <3>5, <3>6 DEF Loop
  <2>3. ASSUME Background PROVE TypeOK'
    <3>1. CASE BgCopy
      <4>1. bg' \in Seq(Jobs)
        <5>1. bg[1] \in Jobs /\ 1 \in 1..Len(bg)
          BY <3>1, EmptySeq, ElementOfSeq DEF BgCopy
        <5>2. [bg[1] EXCEPT !.copied = TRUE] \in Jobs
          BY <5>1 DEF Jobs
        <5> QED
          BY <3>1, <5>1, <5>2, ExceptSeq DEF BgCopy
      <4> QED
        BY <3>1, <4>1 DEF BgCopy, tables, sched, loop, clear
    <3>2. CASE BgPanic
      BY <3>2, <1>e DEF BgPanic, tables, sched, loop, clear
    <3>3. CASE BgSync
      BY <3>3, HeadTailProperties DEF BgSync, tables, sched, loop
    <3>4. CASE BgStaged
      BY <3>4, <1>e, HeadTailProperties DEF BgStaged, SamePending, tables, loop, clear
    <3>5. CASE BgSaved
      BY <3>5, HeadTailProperties DEF BgSaved, tables, sched, loop, clear
    <3> QED
      BY <2>3, <3>1, <3>2, <3>3, <3>4, <3>5 DEF Background
  <2>4. ASSUME Clear PROVE TypeOK'
    <3>1. CASE ClearCall
      BY <3>1 DEF ClearCall, tables, sched, loop, back
    <3>2. CASE ClearWait
      <4>1. bg' \in Seq(Jobs)
        BY <3>2, <2>j DEF ClearWait
      <4> QED
        BY <3>2, <4>1 DEF ClearWait, tables, sched, loop
    <3>3. CASE ClearDone
      BY <3>3 DEF ClearDone, tables, sched, loop, back
    <3> QED
      BY <2>4, <3>1, <3>2, <3>3 DEF Clear
  <2>5. CASE UNCHANGED vars
    BY <2>5 DEF vars, tables, sched, loop, back, clear
  <2> QED
    BY <2>1, <2>2, <2>3, <2>4, <2>5 DEF Next
<1> QED
  BY <1>1, <1>2, PTL DEF Spec

-----------------------------------------------------------------------------
(* Events and outputs *)

\* What api_server.rs gives when no client names a session twice.
DistinctSessions == \A r, t \in Reqs : Session[r] = Session[t] => r = t

\* The tasks that are past the pending state, and not yet delivered.
InFlight == (queue \union finishing) \union outgoing

\* A task is in one place, and its handler has not got past its wait.
PlaceInv ==
    /\ batch \subseteq queue
    /\ queue \intersect (finishing \union outgoing) = {}
    /\ finishing \intersect outgoing = {}
    /\ pending \intersect InFlight = {}
    /\ \A r \in InFlight : call[r] \in {"added", "waiting", "failed"}
    /\ \A r \in pending :
          call[r] \in IF r \in Decoded THEN {"reserved", "event"}
                     ELSE {"added", "waiting", "failed"}
    /\ \A r \in Reqs : call[r] \in {"reserving", "reserved"} => r \in Decoded

\* The event of a task that the loop may finish is registered.
EventInv ==
    /\ epc # "panicked"
    /\ \A r \in InFlight \union (pending \ Decoded) : events[Session[r]] = r
    /\ \A r \in Reqs : call[r] = "event" => events[Session[r]] = r
    /\ \A i \in 1..Len(bg) : bg[i].kind = "in" => bg[i].req \in Reqs \ Decoded

\* What is stored for a session is the output of its request.
OutputInv ==
    /\ storing # NoReq => storing \in outgoing /\ outputs[Session[storing]] = storing
    /\ \A r \in Reqs :
          /\ call[r] = "woken" => outputs[Session[r]] = r
          /\ call[r] = "done" => got[r] = r

SafeInv == PlaceInv /\ EventInv /\ OutputInv

\* A stage or backup job that is submitted keeps the jobs in order.
LEMMA SubmitKeeps ==
    ASSUME TypeOK, NEW k \in {"in", "out", "sync"}, NEW q \in Reqs \union {NoReq},
           submit(Job(k, q)),
           \A i \in 1..Len(bg) : bg[i].kind = "in" => bg[i].req \in Reqs \ Decoded,
           k = "in" => q \in Reqs \ Decoded
    PROVE  \A i \in 1..Len(bg') : bg'[i].kind = "in" => bg'[i].req \in Reqs \ Decoded
<1>1. Job(k, q) \in Jobs /\ Job(k, q).kind = k /\ Job(k, q).req = q
  BY DEF Job, Jobs
<1>2. bg \in Seq(Jobs)
  BY DEF TypeOK
<1>3. CASE ~bgUp
  BY <1>3 DEF submit
<1>4. CASE bgUp
  <2>1. bg' = Append(bg, Job(k, q))
    BY <1>4 DEF submit
  <2>2. /\ Len(bg') = Len(bg) + 1
        /\ \A i \in 1..Len(bg) : bg'[i] = bg[i]
        /\ bg'[Len(bg) + 1] = Job(k, q)
    BY <1>1, <1>2, <2>1, AppendProperties
  <2> QED
    BY <1>1, <1>2, <2>2, LenProperties
<1> QED
  BY <1>3, <1>4

\* With distinct session ids SafeInv is kept by every step.
LEMMA SafeStep ==
    ASSUME DistinctSessions, TypeOK, TypeOK', SafeInv, [Next]_vars
    PROVE  SafeInv'
<1> USE EngineAssumption DEF DistinctSessions, TypeOK, SafeInv, PlaceInv, EventInv, OutputInv,
                             InFlight
<1>s. ASSUME NEW r \in Reqs PROVE Session[r] \in Sessions
  BY DEF Sessions
<1>p. ASSUME NEW r \in Reqs PROVE SamePending(r) = pending \intersect {r}
  BY DEF SamePending
<1>1. ASSUME NEW r \in Reqs, Handler(r) PROVE SafeInv'
  <2>1. CASE Generate(r)
    <3>a. PlaceInv'
      BY <2>1, <1>s, <1>p DEF Generate, sched, loop, back, clear
    <3>b. EventInv'
      BY <2>1, <1>s, <1>p DEF Generate, sched, loop, back, clear
    <3>c. OutputInv'
      BY <2>1, <1>s, <1>p DEF Generate, sched, loop, back, clear
    <3> QED
      BY <3>a, <3>b, <3>c
  <2>2. CASE AddTask(r)
    <3>a. PlaceInv'
      BY <2>2, <1>s, <1>p DEF AddTask, tables, loop, back, clear
    <3>b. EventInv'
      BY <2>2, <1>s, <1>p DEF AddTask, tables, loop, back, clear
    <3>c. OutputInv'
      BY <2>2, <1>s, <1>p DEF AddTask, tables, loop, back, clear
    <3> QED
      BY <3>a, <3>b, <3>c
  <2>3. CASE StageTask(r)
    <3>1. r \notin pending
      BY <2>3 DEF StageTask
    <3>2. pending' = pending \union {r} /\ submit(Job("in", r))
      BY <2>3, <3>1, <1>p DEF StageTask, pend
    <3>3. \A i \in 1..Len(bg') : bg'[i].kind = "in" => bg'[i].req \in Reqs \ Decoded
      BY <2>3, <3>2, SubmitKeeps DEF StageTask
    <3>4. call' = [call EXCEPT ![r] = "added"]
      BY <2>3, <3>1, <1>p DEF StageTask
    <3>a. PlaceInv'
      BY <2>3, <3>1, <3>2, <3>3, <3>4, <1>s DEF StageTask, tables, loop, clear
    <3>b. EventInv'
      BY <2>3, <3>1, <3>2, <3>3, <3>4, <1>s DEF StageTask, tables, loop, clear
    <3>c. OutputInv'
      BY <2>3, <3>1, <3>2, <3>3, <3>4, <1>s DEF StageTask, tables, loop, clear
    <3> QED
      BY <3>a, <3>b, <3>c
  <2>4. CASE Listen(r)
    BY <2>4, <1>s, <1>p DEF Listen, tables, sched, loop, back, clear
  <2>5. CASE PublishFails(r)
    BY <2>5, <1>s, <1>p DEF PublishFails, tables, sched, loop, back, clear
  <2>6. CASE TakeOutput(r)
    <3>a. PlaceInv'
      BY <2>6, <1>s, <1>p DEF TakeOutput, sched, loop, back, clear
    <3>b. EventInv'
      BY <2>6, <1>s, <1>p DEF TakeOutput, sched, loop, back, clear
    <3>c. OutputInv'
      BY <2>6, <1>s, <1>p DEF TakeOutput, sched, loop, back, clear
    <3> QED
      BY <3>a, <3>b, <3>c
  <2>7. CASE ReserveBlocks(r)
    BY <2>7, <1>s, <1>p DEF ReserveBlocks, tables, sched, loop, back, clear
  <2>8. CASE PendTask(r)
    <3>1. r \notin pending /\ r \in Decoded
      BY <2>8 DEF PendTask
    <3>p. SamePending(r) = {}
      BY <3>1, <1>p
    <3>2. pending' = pending \union {r} /\ call' = [call EXCEPT ![r] = "reserved"]
      BY <2>8, <3>p DEF PendTask, pend
    <3>a. PlaceInv'
      BY <2>8, <3>1, <3>2 DEF PendTask, tables, loop, back, clear
    <3>b. EventInv'
      BY <2>8, <3>1, <3>2 DEF PendTask, tables, loop, back, clear
    <3>c. OutputInv'
      BY <2>8, <3>1, <3>2 DEF PendTask, tables, loop, back, clear
    <3> QED
      BY <3>a, <3>b, <3>c
  <2>9. CASE Trigger(r)
    <3>a. PlaceInv'
      BY <2>9, <1>s, <1>p DEF Trigger, sched, loop, back, clear
    <3>b. EventInv'
      BY <2>9, <1>s, <1>p DEF Trigger, sched, loop, back, clear
    <3>c. OutputInv'
      BY <2>9, <1>s, <1>p DEF Trigger, sched, loop, back, clear
    <3> QED
      BY <3>a, <3>b, <3>c
  <2>10. CASE TriggerTask(r)
    <3>a. PlaceInv'
      BY <2>10, <1>s, <1>p DEF TriggerTask, tables, loop, back, clear
    <3>b. EventInv'
      BY <2>10, <1>s, <1>p DEF TriggerTask, tables, loop, back, clear
    <3>c. OutputInv'
      BY <2>10, <1>s, <1>p DEF TriggerTask, tables, loop, back, clear
    <3> QED
      BY <3>a, <3>b, <3>c
  <2> QED
    BY <1>1, <2>1, <2>2, <2>3, <2>4, <2>5, <2>6, <2>7, <2>8, <2>9, <2>10 DEF Handler
<1>2. ASSUME Loop PROVE SafeInv'
  <2>1. ASSUME NEW tasks \in SUBSET queue, Schedule(tasks) PROVE SafeInv'
    BY <2>1 DEF Schedule, tables, sched, back, clear
  <2>2. ASSUME NEW done \in SUBSET batch, Update(done) PROVE SafeInv'
    <3>a. PlaceInv'
      BY <2>2 DEF Update, tables, back, clear
    <3>b. EventInv'
      BY <2>2 DEF Update, tables, back, clear
    <3>c. OutputInv'
      BY <2>2 DEF Update, tables, back, clear
    <3> QED
      BY <3>a, <3>b, <3>c
  <2>3. ASSUME NEW r \in Reqs, FinishTask(r) PROVE SafeInv'
    <3>1. \A i \in 1..Len(bg') : bg'[i].kind = "in" => bg'[i].req \in Reqs \ Decoded
      BY <2>3, SubmitKeeps DEF FinishTask
    <3>a. PlaceInv'
      BY <2>3, <3>1 DEF FinishTask, tables, sched, clear
    <3>b. EventInv'
      BY <2>3, <3>1 DEF FinishTask, tables, sched, clear
    <3>c. OutputInv'
      BY <2>3, <3>1 DEF FinishTask, tables, sched, clear
    <3> QED
      BY <3>a, <3>b, <3>c
  <2>4. ASSUME NEW r \in Reqs, StoreOutput(r) PROVE SafeInv'
    <3>a. PlaceInv'
      BY <2>4, <1>s DEF StoreOutput, sched, back, clear
    <3>b. EventInv'
      BY <2>4, <1>s DEF StoreOutput, sched, back, clear
    <3>c. OutputInv'
      BY <2>4, <1>s DEF StoreOutput, sched, back, clear
    <3> QED
      BY <3>a, <3>b, <3>c
  <2>5. CASE Notify
    <3>1. storing \in outgoing /\ events[Session[storing]] = storing /\ storing \in Reqs
      BY <2>5 DEF Notify
    <3>a. PlaceInv'
      BY <2>5, <3>1, <1>s DEF Notify, notify_waiters, sched, back, clear
    <3>b. EventInv'
      BY <2>5, <3>1, <1>s DEF Notify, notify_waiters, sched, back, clear
    <3>c. OutputInv'
      BY <2>5, <3>1, <1>s DEF Notify, notify_waiters, sched, back, clear
    <3> QED
      BY <3>a, <3>b, <3>c
  <2>6. CASE ExecuteFails
    BY <2>6 DEF ExecuteFails, tables, sched, back, clear
  <2> QED
    BY <1>2, <2>1, <2>2, <2>3, <2>4, <2>5, <2>6 DEF Loop
<1>3. ASSUME Background PROVE SafeInv'
  <2>t. ASSUME bg # <<>> PROVE /\ \A i \in 1..Len(Tail(bg)) : Tail(bg)[i] = bg[i + 1] /\ i + 1 \in 1..Len(bg)
                               /\ Head(bg) = bg[1] /\ 1 \in 1..Len(bg)
    BY <2>t, HeadTailProperties, EmptySeq, LenProperties
  <2>1. CASE BgCopy
    <3>1. bg[1] \in Jobs /\ 1 \in 1..Len(bg)
      BY <2>1, <2>t, ElementOfSeq DEF BgCopy
    <3>2. [bg[1] EXCEPT !.copied = TRUE] \in Jobs
      BY <3>1 DEF Jobs
    <3>3. \A i \in 1..Len(bg') : /\ bg'[i].kind = bg[i].kind /\ bg'[i].req = bg[i].req
                                /\ i \in 1..Len(bg)
      BY <2>1, <3>1, <3>2, ExceptSeq DEF BgCopy, Jobs
    <3> QED
      BY <2>1, <3>3 DEF BgCopy, tables, sched, loop, clear
  <2>2. CASE BgPanic
    BY <2>2 DEF BgPanic, tables, sched, loop, clear
  <2>3. CASE BgSync
    BY <2>3, <2>t DEF BgSync, tables, sched, loop
  <2>4. CASE BgStaged
    <3>1. Head(bg).req \in Reqs \ Decoded
      BY <2>4, <2>t DEF BgStaged
    <3>a. PlaceInv'
      BY <2>4, <2>t, <3>1, <1>p DEF BgStaged, tables, loop, clear
    <3>b. EventInv'
      BY <2>4, <2>t, <3>1, <1>p DEF BgStaged, tables, loop, clear
    <3>c. OutputInv'
      BY <2>4, <2>t, <3>1, <1>p DEF BgStaged, tables, loop, clear
    <3> QED
      BY <3>a, <3>b, <3>c
  <2>5. CASE BgSaved
    BY <2>5, <2>t DEF BgSaved, tables, sched, loop, clear
  <2> QED
    BY <1>3, <2>1, <2>2, <2>3, <2>4, <2>5 DEF Background
<1>4. ASSUME Clear PROVE SafeInv'
  <2>1. CASE ClearCall
    BY <2>1 DEF ClearCall, tables, sched, loop, back
  <2>2. CASE ClearWait
    <3>1. \A i \in 1..Len(bg') : bg'[i].kind = "in" => bg'[i].req \in Reqs \ Decoded
      BY <2>2, SubmitKeeps DEF ClearWait
    <3> QED
      BY <2>2, <3>1 DEF ClearWait, tables, sched, loop
  <2>3. CASE ClearDone
    BY <2>3 DEF ClearDone, tables, sched, loop, back
  <2> QED
    BY <1>4, <2>1, <2>2, <2>3 DEF Clear
<1>5. CASE UNCHANGED vars
  BY <1>5 DEF vars, tables, sched, loop, back, clear
<1> QED
  BY <1>1, <1>2, <1>3, <1>4, <1>5 DEF Next

\* If no two requests have the same session id, SafeInv always holds.
LEMMA SafeAlways ==
    ASSUME DistinctSessions
    PROVE  Spec => []SafeInv
<1>1. Init => SafeInv
  BY DEF Init, SafeInv, PlaceInv, EventInv, OutputInv, InFlight
<1>2. TypeOK /\ TypeOK' /\ SafeInv /\ [Next]_vars => SafeInv'
  BY SafeStep
<1> QED
  BY <1>1, <1>2, TypeCorrect, PTL DEF Spec

\* run_engine finds the event of every task it finishes, for any number of
\* requests of both kinds, any staging, and a background thread that may die.
THEOREM EventsFound ==
    ASSUME DistinctSessions
    PROVE  Spec => []EventFound
<1>1. SafeInv => EventFound
  BY DEF SafeInv, EventInv, EventFound
<1> QED
  BY <1>1, SafeAlways, PTL

\* generate and trigger return the output of their own request.
THEOREM OutputsOwned ==
    ASSUME DistinctSessions
    PROVE  Spec => []OwnOutput
<1>1. SafeInv => OwnOutput
  BY DEF SafeInv, OutputInv, OwnOutput
<1> QED
  BY <1>1, SafeAlways, PTL

-----------------------------------------------------------------------------
(* clear_cache *)

\* Between two clear_caches no sync job is in the channel; while one waits,
\* the mutex keeps the queues empty and its sync job the last in the channel.
QuietInv ==
    /\ cpc # "wait" => \A i \in 1..Len(bg) : bg[i].kind # "sync"
    /\ cpc = "wait" =>
          /\ queue = {} /\ pending = {}
          /\ synced => bg = <<>>
          /\ \A i \in 1..Len(bg) : bg[i].kind = "sync" => i = Len(bg)

\* QuietInv is kept by every step.
LEMMA QuietStep ==
    ASSUME TypeOK, TypeOK', QuietInv, [Next]_vars
    PROVE  QuietInv'
<1> USE EngineAssumption DEF TypeOK, QuietInv, LockFree
<1>j. ASSUME NEW k \in {"in", "out", "sync"}, NEW q \in Reqs \union {NoReq}, submit(Job(k, q))
      PROVE  \/ bg' = bg
             \/ /\ Len(bg) \in Nat
                /\ Len(bg') = Len(bg) + 1
                /\ \A i \in 1..Len(bg) : bg'[i] = bg[i]
                /\ bg'[Len(bg) + 1].kind = k
  <2>1. Job(k, q) \in Jobs /\ Job(k, q).kind = k
    BY DEF Job, Jobs
  <2> QED
    BY <1>j, <2>1, AppendProperties, LenProperties DEF submit
<1>t. ASSUME bg # <<>>
      PROVE  /\ \A i \in 1..Len(Tail(bg)) : Tail(bg)[i] = bg[i + 1] /\ i + 1 \in 1..Len(bg)
             /\ Head(bg) = bg[1] /\ 1 \in 1..Len(bg)
             /\ Len(Tail(bg)) = Len(bg) - 1 /\ Len(bg) \in Nat
  BY <1>t, HeadTailProperties, EmptySeq, LenProperties
<1>1. ASSUME NEW r \in Reqs, Handler(r) PROVE QuietInv'
  <2>1. CASE StageTask(r)
    BY <2>1, <1>j DEF StageTask, clear
  <2>2. CASE AddTask(r) \/ PendTask(r) \/ TriggerTask(r)
    BY <2>2 DEF AddTask, PendTask, TriggerTask, back, clear
  <2>3. CASE Generate(r) \/ Listen(r) \/ PublishFails(r) \/ TakeOutput(r)
             \/ ReserveBlocks(r) \/ Trigger(r)
    BY <2>3 DEF Generate, Listen, PublishFails, TakeOutput, ReserveBlocks, Trigger, sched, back,
                clear
  <2> QED
    BY <1>1, <2>1, <2>2, <2>3 DEF Handler
<1>2. ASSUME Loop PROVE QuietInv'
  <2>1. ASSUME NEW r \in Reqs, FinishTask(r) PROVE QuietInv'
    BY <2>1, <1>j DEF FinishTask, sched, clear
  <2>2. ASSUME NEW done \in SUBSET batch, Update(done) PROVE QuietInv'
    BY <2>2 DEF Update, back, clear
  <2>3. ASSUME \/ Notify
               \/ ExecuteFails
               \/ \E tasks \in SUBSET queue : Schedule(tasks)
               \/ \E r \in Reqs : StoreOutput(r)
        PROVE  QuietInv'
    BY <2>3 DEF Schedule, ExecuteFails, StoreOutput, Notify, sched, back, clear
  <2> QED
    BY <1>2, <2>1, <2>2, <2>3 DEF Loop
<1>3. ASSUME Background PROVE QuietInv'
  <2>1. CASE BgCopy
    <3>1. bg[1] \in Jobs /\ 1 \in 1..Len(bg)
      BY <2>1, <1>t, ElementOfSeq DEF BgCopy
    <3>2. [bg[1] EXCEPT !.copied = TRUE] \in Jobs
      BY <3>1 DEF Jobs
    <3>3. Len(bg') = Len(bg) /\ \A i \in 1..Len(bg) : bg'[i].kind = bg[i].kind
      BY <2>1, <3>1, <3>2, ExceptSeq DEF BgCopy, Jobs
    <3> QED
      BY <2>1, <1>t, <3>3 DEF BgCopy, sched, clear
  <2>2. CASE BgPanic
    <3>1. bg' = <<>> /\ Len(bg') = 0
      BY <2>2, EmptySeq DEF BgPanic
    <3> QED
      BY <2>2, <3>1 DEF BgPanic, sched, clear
  <2>3. CASE BgSync
    <3>1. cpc = "wait" /\ Len(bg) = 1
      BY <2>3, <1>t DEF BgSync
    <3>2. bg' = <<>> /\ Len(bg') = 0
      BY <2>3, <3>1, HeadTailProperties, EmptySeq DEF BgSync
    <3>3. cpc' = "wait" /\ queue' = {} /\ pending' = {}
      BY <2>3, <3>1 DEF BgSync, sched
    <3> QED
      BY <3>2, <3>3
  <2>4. CASE BgStaged
    <3>e. Len(<<>>) = 0
      BY EmptySeq
    <3>1. CASE bg' = <<>>
      BY <2>4, <3>1, <3>e DEF BgStaged, clear
    <3>2. CASE bg' = Tail(bg)
      BY <2>4, <3>2, <1>t DEF BgStaged, clear
    <3> QED
      BY <2>4, <3>1, <3>2 DEF BgStaged
  <2>5. CASE BgSaved
    <3>1. cpc # "wait" /\ cpc' = cpc /\ bg # <<>> /\ bg' = Tail(bg)
      BY <2>5 DEF BgSaved, clear
    <3>2. \A i \in 1..Len(bg) : bg[i].kind # "sync"
      BY <3>1
    <3>3. ASSUME NEW i \in 1..Len(bg') PROVE bg'[i].kind # "sync"
      <4>1. bg'[i] = bg[i + 1] /\ i + 1 \in 1..Len(bg)
        BY <3>1, <1>t
      <4> QED
        BY <3>2, <4>1
    <3> QED
      BY <3>1, <3>3
  <2> QED
    BY <1>3, <2>1, <2>2, <2>3, <2>4, <2>5 DEF Background
<1>4. ASSUME Clear PROVE QuietInv'
  <2>1. CASE ClearWait
    <3>1. cpc = "try" /\ cpc' = "wait" /\ ~synced' /\ queue' = {} /\ pending' = {}
      BY <2>1 DEF ClearWait, sched
    <3>2. \A i \in 1..Len(bg) : bg[i].kind # "sync"
      BY <3>1
    <3>3. submit(Job("sync", NoReq))
      BY <2>1 DEF ClearWait
    <3>4. \A i \in 1..Len(bg') : bg'[i].kind = "sync" => i = Len(bg')
      BY <3>2, <3>3, <1>j
    <3> QED
      BY <3>1, <3>4
  <2>2. CASE ClearCall
    BY <2>2 DEF ClearCall, sched, back
  <2>3. CASE ClearDone
    BY <2>3, EmptySeq DEF ClearDone, sched, back
  <2> QED
    BY <1>4, <2>1, <2>2, <2>3 DEF Clear
<1>5. CASE UNCHANGED vars
  BY <1>5 DEF vars, sched, back, clear
<1> QED
  BY <1>1, <1>2, <1>3, <1>4, <1>5 DEF Next

\* clear_cache clears the caches only when no task is queued or pending and no
\* copy is in the background channel, whatever the session ids are.
THEOREM ClearIsQuiescent == Spec => ClearsQuiescent
<1>1. Init => QuietInv
  BY EmptySeq DEF Init, QuietInv
<1>2. TypeOK /\ TypeOK' /\ QuietInv /\ [Next]_vars => QuietInv'
  BY QuietStep
<1>3. QuietInv /\ [Next]_vars =>
          [cpc = "wait" /\ cpc' # "wait" =>
              /\ queue = {} /\ pending = {}
              /\ \A i \in 1..Len(bg) : bg[i].kind = "sync"]_vars
  <2> SUFFICES ASSUME QuietInv, Next, cpc = "wait", cpc' # "wait"
               PROVE  /\ queue = {} /\ pending = {}
                      /\ \A i \in 1..Len(bg) : bg[i].kind = "sync"
    BY DEF vars
  <2>1. ClearDone
    BY DEF Next, Handler, Loop, Background, Clear, Generate, AddTask, StageTask, Listen,
           PublishFails, TakeOutput, ReserveBlocks, PendTask, Trigger, TriggerTask, Schedule,
           ExecuteFails, Update, FinishTask, StoreOutput, Notify, BgCopy, BgPanic, BgSync, BgStaged, BgSaved,
           ClearCall, ClearWait, clear
  <2> QED
    BY <2>1, EmptySeq DEF ClearDone, QuietInv
<1> QED
  BY <1>1, <1>2, <1>3, TypeCorrect, PTL DEF Spec, ClearsQuiescent
=============================================================================
