------------------------------- MODULE Engine -------------------------------
(***************************************************************************)
(* engine.rs: the request handlers of LLMEngineWrapper and LLMEngine, the  *)
(* engine loop run_engine and the background thread, as concurrent         *)
(* processes that share the scheduler (one async mutex), the request_events *)
(* and request_outputs maps and the background manager's channel.          *)
(*                                                                         *)
(* Scheduler.tla models what happens inside the scheduler; here it is the  *)
(* set of tasks it has (queue), those it has set aside (pending), and the  *)
(* freedom to run and to finish any of them.  What is modelled in full is  *)
(* what each process does between two awaits.                              *)
(***************************************************************************)
EXTENDS Naturals, Sequences, FiniteSets

CONSTANTS
    Reqs,       \* requests, one RPC (or a reserve/trigger pair) each
    Session,    \* the session_id of each request
    Decoded,    \* the requests that come in by reserve and trigger
    HasDisk,    \* is there a disk cache (num_blocks of the disk > 0)?
    WorkersFail \* may a call of the model or KV workers fail?

NoReq == "none"

ASSUME EngineAssumption ==
    /\ IsFiniteSet(Reqs) /\ NoReq \notin Reqs
    /\ DOMAIN Session = Reqs
    /\ Decoded \subseteq Reqs
    /\ HasDisk \in BOOLEAN /\ WorkersFail \in BOOLEAN

Sessions == {Session[r] : r \in Reqs}

VARIABLES
    call,       \* where the handler of each request is
    got,        \* the task each returned handler has answered with
    events,     \* request_events: the request whose Notify is registered
    outputs,    \* request_outputs: the task stored for a session
    queue,      \* the tasks in waiting or allocated
    pending,    \* the tasks in pending
    epc,        \* where the engine loop is
    batch,      \* the tasks being executed
    finishing,  \* finished tasks not yet removed from the scheduler
    outgoing,   \* finished tasks not yet delivered
    storing,    \* the task whose output is stored but not notified
    bg,         \* jobs in the background manager's channel, first one running
    bgUp,       \* is the background thread alive?
    cpc,        \* where the clear_cache handler is
    synced      \* the sync event of its wait() has been notified

tables == <<events, outputs>>
sched == <<queue, pending>>
loop == <<epc, batch, finishing, outgoing, storing>>
back == <<bg, bgUp>>
clear == <<cpc, synced>>
vars == <<call, got, tables, sched, loop, back, clear>>

Job(kind, r) == [kind |-> kind, req |-> r, copied |-> FALSE]
Jobs == [kind : {"in", "out", "sync"}, req : Reqs \union {NoReq}, copied : BOOLEAN]

Init ==
    /\ call = [r \in Reqs |-> "idle"]
    /\ got = [r \in Reqs |-> NoReq]
    /\ events = [s \in Sessions |-> NoReq]
    /\ outputs = [s \in Sessions |-> NoReq]
    /\ queue = {} /\ pending = {}
    /\ epc = "idle"
    /\ batch = {} /\ finishing = {} /\ outgoing = {} /\ storing = NoReq
    /\ bg = <<>> /\ bgUp = TRUE
    /\ cpc = "idle" /\ synced = FALSE

\* Everyone takes the scheduler mutex for one step only, but for clear_cache,
\* which holds it while it waits for the background manager.
LockFree == cpc # "wait"

\* BackgroundTaskManager::submit; the channel of a dead thread is closed.
submit(job) == bg' = IF bgUp THEN Append(bg, job) ELSE bg

-----------------------------------------------------------------------------
(* LLMEngineWrapper::generate *)

\* The Notify of the request is registered, over any older one.
Generate(r) ==
    /\ call[r] = "idle" /\ r \notin Decoded
    /\ events' = [events EXCEPT ![Session[r]] = r]
    /\ call' = [call EXCEPT ![r] = "event"]
    /\ UNCHANGED <<got, outputs, sched, loop, back, clear>>

\* add_request under the mutex: no stage planned.
AddTask(r) ==
    /\ call[r] = "event" /\ r \notin Decoded /\ LockFree
    /\ queue' = queue \union {r}
    /\ call' = [call EXCEPT ![r] = "added"]
    /\ UNCHANGED <<got, tables, pending, loop, back, clear>>

\* Scheduler::pend replaces the task of the session and panics if there was
\* one.
SamePending(r) == {t \in pending : Session[t] = Session[r]}
pend(r) == pending' = (pending \ SamePending(r)) \union {r}

\* add_request under the mutex: the task is set aside until its KV is on the
\* host.  plan_stage stages only behind waiting tasks.
StageTask(r) ==
    /\ call[r] = "event" /\ r \notin Decoded /\ LockFree
    /\ HasDisk /\ queue # {}
    /\ pend(r)
    /\ IF SamePending(r) = {}
       THEN /\ call' = [call EXCEPT ![r] = "added"]
            /\ submit(Job("in", r))
       ELSE /\ call' = [call EXCEPT ![r] = "failed"]
            /\ UNCHANGED bg
    /\ UNCHANGED <<got, tables, queue, loop, bgUp, clear>>

\* Only when publish_stats has returned does the handler create and await
\* the notified() future.
Listen(r) ==
    /\ call[r] = "added"
    /\ call' = [call EXCEPT ![r] = "waiting"]
    /\ UNCHANGED <<got, tables, sched, loop, back, clear>>

\* publish_stats fails: the error is returned, the task stays.
PublishFails(r) ==
    /\ call[r] = "added" /\ r \notin Decoded
    /\ call' = [call EXCEPT ![r] = "failed"]
    /\ UNCHANGED <<got, tables, sched, loop, back, clear>>

\* The output is removed from request_outputs (unwrap).
TakeOutput(r) ==
    /\ call[r] = "woken"
    /\ got' = [got EXCEPT ![r] = outputs[Session[r]]]
    /\ outputs' = [outputs EXCEPT ![Session[r]] = NoReq]
    /\ call' = [call EXCEPT ![r] = IF outputs[Session[r]] = NoReq THEN "failed" ELSE "done"]
    /\ UNCHANGED <<events, sched, loop, back, clear>>

(* LLMEngineWrapper::reserve and trigger *)

\* reserve_request takes the mutex for the blocks and again to pend the task.
ReserveBlocks(r) ==
    /\ call[r] = "idle" /\ r \in Decoded /\ LockFree
    /\ call' = [call EXCEPT ![r] = "reserving"]
    /\ UNCHANGED <<got, tables, sched, loop, back, clear>>

PendTask(r) ==
    /\ call[r] = "reserving" /\ LockFree
    /\ pend(r)
    /\ call' = [call EXCEPT ![r] = IF SamePending(r) = {} THEN "reserved" ELSE "failed"]
    /\ UNCHANGED <<got, tables, queue, loop, back, clear>>

\* Mutant: trigger registers no event.
Trigger_no_event(r) ==
    /\ call[r] = "reserved"
    /\ call' = [call EXCEPT ![r] = "event"]
    /\ UNCHANGED <<got, tables, sched, loop, back, clear>>

Trigger(r) ==
    /\ call[r] = "reserved"
    /\ events' = [events EXCEPT ![Session[r]] = r]
    /\ call' = [call EXCEPT ![r] = "event"]
    /\ UNCHANGED <<got, outputs, sched, loop, back, clear>>

\* trigger_request under the mutex; no pending task is a panic.
TriggerTask(r) ==
    /\ call[r] = "event" /\ r \in Decoded /\ LockFree
    /\ queue' = queue \union SamePending(r)
    /\ pending' = pending \ SamePending(r)
    /\ call' = [call EXCEPT ![r] = IF SamePending(r) = {} THEN "failed" ELSE "added"]
    /\ UNCHANGED <<got, tables, loop, back, clear>>

-----------------------------------------------------------------------------
(* run_engine *)

\* iter: schedule picks some of the tasks, or none and the loop goes round.
Schedule(tasks) ==
    /\ epc = "idle" /\ LockFree
    /\ tasks # {} /\ tasks \subseteq queue
    /\ batch' = tasks
    /\ epc' = "infer"
    /\ UNCHANGED <<call, got, tables, sched, finishing, outgoing, storing, back, clear>>

\* An infer, a fetch or a write that fails is a panic, which ends run_engine:
\* the tasks stay in the scheduler and nobody schedules them any more.
ExecuteFails ==
    /\ WorkersFail /\ epc = "infer"
    /\ epc' = "stopped"
    /\ batch' = {}
    /\ UNCHANGED <<call, got, tables, sched, finishing, outgoing, storing, back, clear>>

\* The workers are done; update removes the finished tasks from the queues.
Update(done) ==
    /\ epc = "infer" /\ LockFree
    /\ done \subseteq batch
    /\ queue' = queue \ done
    /\ finishing' = done
    /\ batch' = {}
    /\ epc' = IF done = {} THEN "idle" ELSE "finish"
    /\ UNCHANGED <<call, got, tables, pending, outgoing, storing, back, clear>>

\* One finished task: a backup is submitted or not, its blocks are freed.
FinishTask(r) ==
    /\ epc = "finish" /\ LockFree
    /\ r \in finishing
    /\ \/ HasDisk /\ submit(Job("out", r))
       \/ UNCHANGED bg
    /\ finishing' = finishing \ {r}
    /\ outgoing' = outgoing \union {r}
    /\ epc' = IF finishing = {r} THEN "deliver" ELSE "finish"
    /\ UNCHANGED <<call, got, tables, sched, batch, storing, bgUp, clear>>

StoreOutput(r) ==
    /\ epc = "deliver" /\ storing = NoReq
    /\ r \in outgoing
    /\ outputs' = [outputs EXCEPT ![Session[r]] = r]
    /\ storing' = r
    /\ UNCHANGED <<call, got, events, sched, epc, batch, finishing, outgoing, back, clear>>

\* Mutants: one Notify for all the handlers; no notification at all.
notify_waiters_all(w) ==
    [r \in Reqs |-> IF call[r] = "waiting" THEN "woken" ELSE call[r]]
notify_waiters_none(w) == call

\* notify_waiters wakes a handler that is waiting, and only that; a missing
\* event is a panic that ends run_engine.
notify_waiters(w) ==
    [call EXCEPT ![w] = IF call[w] = "waiting" THEN "woken" ELSE call[w]]

Notify ==
    /\ storing # NoReq
    /\ LET w == events[Session[storing]]
       IN  IF w = NoReq
           THEN /\ epc' = "panicked"
                /\ UNCHANGED <<call, events, outgoing>>
           ELSE /\ call' = notify_waiters(w)
                /\ events' = [events EXCEPT ![Session[storing]] = NoReq]
                /\ outgoing' = outgoing \ {storing}
                /\ epc' = IF outgoing = {storing} THEN "idle" ELSE "deliver"
    /\ storing' = NoReq
    /\ UNCHANGED <<got, outputs, sched, batch, finishing, back, clear>>

-----------------------------------------------------------------------------
(* The background thread (background_manager.rs::run_async): one job at a  *)
(* time, its future and then its callback.                                 *)

BgCopy ==
    /\ bgUp /\ bg # <<>>
    /\ Head(bg).kind # "sync" /\ ~Head(bg).copied
    /\ bg' = [bg EXCEPT ![1].copied = TRUE]
    /\ UNCHANGED <<call, got, tables, sched, loop, bgUp, clear>>

\* A worker that fails makes run_workers_gather panic: the thread ends.
BgPanic ==
    /\ WorkersFail /\ bgUp /\ bg # <<>>
    /\ Head(bg).kind # "sync" /\ ~Head(bg).copied
    /\ bgUp' = FALSE
    /\ bg' = <<>>
    /\ UNCHANGED <<call, got, tables, sched, loop, clear>>

\* Mutant: the event of wait is not set.
BgSync_silent ==
    /\ bgUp /\ bg # <<>>
    /\ Head(bg).kind = "sync"
    /\ bg' = Tail(bg)
    /\ UNCHANGED <<call, got, tables, sched, loop, bgUp, clear>>

BgSync ==
    /\ bgUp /\ bg # <<>>
    /\ Head(bg).kind = "sync"
    /\ synced' = TRUE
    /\ bg' = Tail(bg)
    /\ UNCHANGED <<call, got, tables, sched, loop, bgUp, cpc>>

\* Callback of a stage: trigger_pend_task, which panics without the task.
BgStaged ==
    /\ bgUp /\ bg # <<>> /\ LockFree
    /\ Head(bg).kind = "in" /\ Head(bg).copied
    /\ LET tasks == SamePending(Head(bg).req)
       IN  /\ queue' = queue \union tasks
           /\ pending' = pending \ tasks
           /\ bgUp' = (tasks # {})
           /\ bg' = IF tasks # {} THEN Tail(bg) ELSE <<>>
    /\ UNCHANGED <<call, got, tables, loop, clear>>

\* Callback of a backup: commit_reserved_blocks.
BgSaved ==
    /\ bgUp /\ bg # <<>> /\ LockFree
    /\ Head(bg).kind = "out" /\ Head(bg).copied
    /\ bg' = Tail(bg)
    /\ UNCHANGED <<call, got, tables, sched, loop, bgUp, clear>>

-----------------------------------------------------------------------------
(* clear_cache: retried every second until the queues are empty, then the  *)
(* mutex is kept until the background manager has come to its sync event.  *)

ClearCall ==
    /\ cpc = "idle"
    /\ cpc' = "try"
    /\ UNCHANGED <<call, got, tables, sched, loop, back, synced>>

ClearWait ==
    /\ cpc = "try"
    /\ queue = {} /\ pending = {}
    /\ submit(Job("sync", NoReq))
    /\ synced' = FALSE
    /\ cpc' = "wait"
    /\ UNCHANGED <<call, got, tables, sched, loop, bgUp>>

\* Mutant: the caches are cleared at once.
ClearDone_no_wait ==
    /\ cpc = "wait"
    /\ cpc' = "idle"
    /\ UNCHANGED <<call, got, tables, sched, loop, back, synced>>

ClearDone ==
    /\ cpc = "wait" /\ synced
    /\ cpc' = "idle"
    /\ UNCHANGED <<call, got, tables, sched, loop, back, synced>>

-----------------------------------------------------------------------------
Handler(r) ==
    \/ Generate(r) \/ AddTask(r) \/ StageTask(r)
    \/ Listen(r) \/ PublishFails(r) \/ TakeOutput(r)
    \/ ReserveBlocks(r) \/ PendTask(r) \/ Trigger(r) \/ TriggerTask(r)

Loop ==
    \/ \E tasks \in SUBSET queue : Schedule(tasks)
    \/ ExecuteFails
    \/ \E done \in SUBSET batch : Update(done)
    \/ \E r \in Reqs : FinishTask(r) \/ StoreOutput(r)
    \/ Notify

Background == BgCopy \/ BgPanic \/ BgSync \/ BgStaged \/ BgSaved

Clear == ClearCall \/ ClearWait \/ ClearDone

Next == (\E r \in Reqs : Handler(r)) \/ Loop \/ Background \/ Clear

Spec == Init /\ [][Next]_vars

\* Fairness: tokio polls every task that can go on, the background thread has
\* a runtime of its own, and a handler that has started goes on by itself (a
\* client may well never send a request, a trigger or a clear_cache).  The
\* engine loop and the background thread wait for the scheduler mutex in a
\* FIFO queue (tokio::sync::Mutex), so they get it although others take it
\* again and again: their fairness is strong.
FairSpec ==
    /\ Spec
    /\ SF_vars(Loop)
    /\ SF_vars(Background)
    /\ WF_vars(ClearDone)
    /\ \A r \in Reqs : WF_vars(Listen(r) \/ TakeOutput(r))

-----------------------------------------------------------------------------
(* Properties *)

TypeOK ==
    /\ call \in [Reqs -> {"idle", "event", "added", "waiting", "woken", "done", "failed",
                          "reserving", "reserved"}]
    /\ got \in [Reqs -> Reqs \union {NoReq}]
    /\ events \in [Sessions -> Reqs \union {NoReq}]
    /\ outputs \in [Sessions -> Reqs \union {NoReq}]
    /\ queue \subseteq Reqs /\ pending \subseteq Reqs
    /\ epc \in {"idle", "infer", "finish", "deliver", "panicked", "stopped"}
    /\ batch \subseteq Reqs /\ finishing \subseteq Reqs /\ outgoing \subseteq Reqs
    /\ storing \in Reqs \union {NoReq}
    /\ bg \in Seq(Jobs)
    /\ bgUp \in BOOLEAN
    /\ cpc \in {"idle", "try", "wait"}
    /\ synced \in BOOLEAN

\* run_engine finds the event of every task it finishes (its unwrap does not
\* panic), however the handlers, the stages and the triggers interleave.
EventFound == epc # "panicked"

\* A handler that returns has the output of its own request: it is woken only
\* when its output is stored, and nobody else takes it.
OwnOutput ==
    \A r \in Reqs :
        /\ call[r] = "woken" => outputs[Session[r]] = r
        /\ call[r] = "done" => got[r] = r

\* clear_cache clears the caches only while nothing uses them: no task is
\* queued or pending and no copy that was planned before is still to come.
ClearsQuiescent ==
    [][cpc = "wait" /\ cpc' # "wait" =>
          /\ queue = {} /\ pending = {}
          /\ \A i \in 1..Len(bg) : bg[i].kind = "sync"]_vars

\* A handler that is waiting when its task finishes is woken and returns,
\* whatever else stages, backs up, fails or clears; the one thing that can
\* stop it is a clear_cache that never gives the scheduler mutex back.
WaiterReturns ==
    []<>LockFree =>
        \A r \in Reqs :
            call[r] = "waiting" /\ r \in finishing \union outgoing ~> call[r] = "done"

\* generate and trigger return once their task has finished.
GenerateReturns ==
    \A r \in Reqs : r \in finishing ~> call[r] \in {"done", "failed"}

\* clear_cache returns once it has found the queues empty, if no stage or backup
\* is outstanding then: nothing can be submitted while it waits.  With a backup
\* outstanding it never does, as the callback of the backup waits for the
\* scheduler mutex that clear_cache holds; nor if the background thread is dead.
ClearReturns ==
    cpc = "wait" /\ bgUp /\ (\A i \in 1..Len(bg) : bg[i].kind = "sync") ~> cpc = "idle"
=============================================================================
