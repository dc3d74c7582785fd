------------------------------- MODULE Hosted -------------------------------
(***************************************************************************)
(* One scope of the hosted engine.  Requests carry an epoch; a tool call   *)
(* runs as a job of its own while the requests that open, close, quiesce   *)
(* or revoke the scope hold the scope's slot, across awaits, and wait for  *)
(* the jobs, for deferred dreams and for the scheduler's passes.           *)
(*                                                                         *)
(* Sources: loomem-server/src/hosted/{engine,state}.rs, hosted/engine/,    *)
(* handlers/ingest/write_phase.rs, deferred.rs; loomem-core/src/           *)
(* {apply_guard,dream,scheduler}.rs.                                       *)
(***************************************************************************)
EXTENDS Integers

CONSTANTS
    Ops,         \* actor and op_id of a job
    NoOp,        \* what is not a job has none
    None,        \* no runtime is open
    MaxTasks,    \* bound of the model: jobs and dreams started in one behaviour
    MaxPasses,   \* bound of the model: passes of a runtime's worker at a time
    MaxEpoch,    \* bound of the model: epochs asked for
    MaxRuntimes  \* bound of the model: runtimes opened

ASSUME HostedAssumption ==
    /\ NoOp \notin Ops
    /\ MaxTasks \in Nat /\ MaxPasses \in Nat /\ MaxEpoch \in Nat /\ MaxRuntimes \in Nat
    /\ None \notin [id : 1..MaxRuntimes, epoch : 0..MaxEpoch, accepting : BOOLEAN,
                    quiesced : BOOLEAN, closed : BOOLEAN, deferred : SUBSET (1..MaxTasks),
                    flag : BOOLEAN, told : BOOLEAN, sched : {"select", "spawn", "leave", "off"}]

VARIABLES
    epoch,      \* the scope's entry in epochs (-1: none)
    runtime,    \* the scope's ScopeRuntime: registry of deferred work, scheduler
    opened,     \* runtimes opened so far
    task,       \* every job and deferred dream started so far
    started,    \* how many those are; a job's number is its serial
    passes,     \* per runtime, passes of the scheduler's worker that are running
    jobs,       \* the engine's map of jobs, by serial
    awaited,    \* jobs whose outcome an await request has taken
    slot        \* who holds the scope's slot across an await, and where it is

vars == <<epoch, runtime, opened, task, started, passes, jobs, awaited, slot>>
engine == <<epoch, runtime, opened, passes, jobs, awaited, slot>>

Tasks == 1..MaxTasks
Epochs == 0..MaxEpoch
JobKinds == {"store", "dream", "other", "worker"}
Kinds == JobKinds \union {"auto"}  \* a dream that a store has deferred
Dreams == {"dream", "auto"}

Task == [kind : Kinds, op : Ops \union {NoOp}, epoch : Epochs, home : 1..MaxRuntimes,
         pc : {"run", "tail", "merge", "section", "spawn", "wait", "ended", "cancelled"},
         phase : {"pending", "applying", "durable", "revoked"},
         asked : BOOLEAN, aborted : BOOLEAN, half : BOOLEAN]
Runtime == [id : 1..MaxRuntimes, epoch : Epochs, accepting : BOOLEAN,
            quiesced : BOOLEAN, closed : BOOLEAN, deferred : SUBSET Tasks,
            flag : BOOLEAN, told : BOOLEAN, sched : {"select", "spawn", "leave", "off"}]
Slot == [op : {"open", "close", "quiesce", "revoke"}, epoch : Epochs,
         at : {"signal", "close", "join", "drain", "drained", "scheduler", "deferred",
               "flush", "remove", "open"},
         joining : SUBSET Tasks]
Free == [op |-> "free"]

Alive(t) == t <= started /\ task[t].pc \notin {"ended", "cancelled"}

TypeOK ==
    /\ epoch \in Epochs \union {-1}
    /\ runtime \in Runtime \union {None}
    /\ opened \in 0..MaxRuntimes
    /\ started \in 0..MaxTasks
    /\ task \in [1..started -> Task]
    /\ passes \in [1..MaxRuntimes -> 0..MaxPasses]
    /\ jobs \subseteq 1..started
    /\ \A i, j \in jobs : task[i].epoch = task[j].epoch /\ task[i].op = task[j].op => i = j
    /\ awaited \subseteq 1..started
    /\ slot \in Slot \union {Free}
    /\ slot # Free => slot.joining \subseteq 1..started
    /\ runtime # None => runtime.deferred \subseteq 1..started

Init ==
    /\ epoch = -1
    /\ runtime = None
    /\ opened = 0
    /\ task = [t \in {} |-> None]
    /\ started = 0
    /\ passes = [r \in 1..MaxRuntimes |-> 0]
    /\ jobs = {}
    /\ awaited = {}
    /\ slot = Free

-----------------------------------------------------------------------------
(* write_phase.rs *)

Revoked(r) == r.phase = "revoked" \/ r.asked

\* revoke: whether the task may be aborted.
\* (Wrong: an open section does not hold the abort back.)
NotDurable(r) == r.phase # "durable"
Abortable(r) == r.phase \in {"pending", "revoked"}

Signalled(r) ==
    IF Abortable(r) THEN [r EXCEPT !.phase = "revoked", !.aborted = TRUE]
    ELSE IF r.phase = "applying" THEN [r EXCEPT !.asked = TRUE]
    ELSE r

\* end_apply
\* (Wrong: a revocation during the section is forgotten.)
Reopened(r) == [r EXCEPT !.phase = "pending", !.asked = FALSE]
EndApply(r) == [r EXCEPT !.phase = IF r.asked THEN "revoked" ELSE "pending"]

-----------------------------------------------------------------------------
(* Tasks *)

New(kind, op, e, home) ==
    [kind |-> kind, op |-> op, epoch |-> e, home |-> home, pc |-> "run",
     phase |-> "pending", asked |-> FALSE, aborted |-> FALSE, half |-> FALSE]

Start(r) ==
    /\ started < MaxTasks
    /\ started' = started + 1
    /\ task' = [t \in 1..started + 1 |-> IF t <= started THEN task[t] ELSE r]

Go(t, pc) == task' = [task EXCEPT ![t].pc = pc]
End(t) == Go(t, "ended")
At(t, kinds, pc) == t <= started /\ task[t].kind \in kinds /\ task[t].pc = pc

\* A task that was aborted stops at any await, wherever that is in its work.
Cancel(t) ==
    /\ Alive(t)
    /\ task[t].aborted
    /\ task[t].pc # "spawn"
    /\ Go(t, "cancelled")
    /\ UNCHANGED <<started, engine>>

\* Some tools write without a guard (memory_delete), or not at all; any may
\* fail; a dream runs out of subjects.
Return(t) ==
    /\ At(t, {"other", "store", "dream", "auto"}, "run") \/ At(t, {"store"}, "tail")
    /\ End(t)
    /\ UNCHANGED <<started, engine>>

\* persist_chunk begins with enter_durable, ...
EnterDurable(t) ==
    /\ At(t, {"store"}, "run")
    /\ task' = [task EXCEPT ![t] =
                   IF Revoked(@) THEN [@ EXCEPT !.pc = "ended"]
                   ELSE [@ EXCEPT !.pc = "tail", !.phase = "durable"]]
    /\ UNCHANGED <<started, engine>>

Here(t) == runtime # None /\ runtime.id = task[t].home

\* ... and may end with an auto-dream, which a closed registry drops.
\* (Wrong: the registry does not close.)
NeverClosed == FALSE
Refusing == runtime.closed

Track(t) ==
    /\ At(t, {"store"}, "tail")
    /\ Here(t)
    /\ ~Refusing
    /\ Start(New("auto", NoOp, task[t].epoch, task[t].home))
    /\ runtime' = [runtime EXCEPT !.deferred = @ \union {started'}]
    /\ UNCHANGED <<epoch, opened, passes, jobs, awaited, slot>>

\* dream_run, subject by subject: a checkpoint ahead of the model's answer, ...
NextSubject(t) ==
    /\ At(t, Dreams, "run")
    /\ IF Revoked(task[t]) THEN End(t) ELSE Go(t, "merge")
    /\ UNCHANGED <<started, engine>>

\* ... which may be of no use, ...
NoAnswer(t) ==
    /\ At(t, Dreams, "merge")
    /\ Go(t, "run") \/ End(t)
    /\ UNCHANGED <<started, engine>>

\* ... then the apply section: the merged chunk, its sources, its vector.
BeginApply(t) ==
    /\ At(t, Dreams, "merge")
    /\ task' = [task EXCEPT ![t] =
                   IF Revoked(@) THEN [@ EXCEPT !.pc = "ended"]
                   ELSE [@ EXCEPT !.pc = "section", !.phase = "applying"]]
    /\ UNCHANGED <<started, engine>>

Persist(t) ==
    /\ At(t, Dreams, "section")
    /\ ~task[t].half
    /\ task' = [task EXCEPT ![t].half = TRUE]
    /\ UNCHANGED <<started, engine>>

Retire(t) ==
    /\ At(t, Dreams, "section")
    /\ task[t].half
    /\ task' = [task EXCEPT ![t] = [EndApply(@) EXCEPT !.pc = "run", !.half = FALSE]]
    /\ UNCHANGED <<started, engine>>

\* An error of a store inside the section ends the dream.
ApplyFails(t) ==
    /\ At(t, Dreams, "section")
    /\ task' = [task EXCEPT ![t] = [EndApply(@) EXCEPT !.pc = "ended"]]
    /\ UNCHANGED <<started, engine>>

-----------------------------------------------------------------------------
(* The scheduler, with one of its workers *)

\* The tick of a worker loads its running flag, and sets it in a second step.
Trigger(t) ==
    /\ At(t, {"worker"}, "run")
    /\ Here(t)
    /\ Go(t, IF runtime.flag THEN "wait" ELSE "spawn")
    /\ UNCHANGED <<started, engine>>

\* (At the bound two passes become one, which a spawn does not wait for.)
SpawnPass(sched) ==
    /\ passes' = [passes EXCEPT ![runtime.id] = IF @ < MaxPasses THEN @ + 1 ELSE @]
    /\ runtime' = [runtime EXCEPT !.flag = TRUE, !.sched = sched]
    /\ UNCHANGED <<started, epoch, opened, jobs, awaited, slot>>

TriggerSpawn(t) ==
    /\ At(t, {"worker"}, "spawn")
    /\ Here(t)
    /\ SpawnPass(runtime.sched)
    /\ Go(t, "wait")

\* wait_for_idle
Idle(t) ==
    /\ At(t, {"worker"}, "wait")
    /\ Here(t) => ~runtime.flag
    /\ End(t)
    /\ UNCHANGED <<started, engine>>

PassEnds(r) ==
    /\ passes[r] > 0
    /\ passes' = [passes EXCEPT ![r] = @ - 1]
    /\ runtime' = IF runtime # None /\ runtime.id = r
                  THEN [runtime EXCEPT !.flag = FALSE] ELSE runtime
    /\ UNCHANGED <<started, task, epoch, opened, jobs, awaited, slot>>

\* The loop of run.
Loop(from, to) ==
    /\ runtime # None
    /\ runtime.sched = from
    /\ runtime' = [runtime EXCEPT !.sched = to]
    /\ UNCHANGED <<started, task, epoch, opened, passes, jobs, awaited, slot>>

Tick == Loop("select", "spawn") /\ ~runtime.flag

TickSpawn ==
    /\ runtime # None
    /\ runtime.sched = "spawn"
    /\ SpawnPass("select")
    /\ UNCHANGED task

Leave == Loop("select", "leave") /\ runtime.told

\* wait_for_running_tasks_to_complete
Off == Loop("leave", "off") /\ ~runtime.flag

-----------------------------------------------------------------------------
(* Requests that hold the slot for one step *)

\* ensure_live
\* (Wrong: a runtime whose closing failed half-way takes jobs again.)
Unsealed == runtime # None /\ runtime.epoch = epoch /\ ~runtime.quiesced
Live == runtime # None /\ runtime.epoch = epoch /\ runtime.accepting /\ ~runtime.quiesced

\* ensure_job_available
\* (Wrong: a second job under the key.)
AnyOp(op) == TRUE
Unused(op) == \A j \in jobs : task[j].epoch = epoch => task[j].op # op

\* tool_async, worker_async, build_async
Submit(kind, op) ==
    /\ slot = Free
    /\ Live
    /\ Unused(op)
    /\ Start(New(kind, op, epoch, runtime.id))
    /\ jobs' = jobs \union {started'}
    /\ UNCHANGED <<epoch, runtime, opened, passes, awaited, slot>>

\* The outcome of a job is taken under the slot, waited for without it.
BeginAwait(s) ==
    /\ slot = Free
    /\ s \in jobs \ awaited
    /\ task[s].epoch = epoch
    /\ awaited' = awaited \union {s}
    /\ UNCHANGED <<epoch, runtime, opened, task, started, passes, jobs, slot>>

\* finish_await: another job may have the key by now.
\* (Wrong: that one is removed.)
SameKey(s) == {j \in jobs : task[j].epoch = task[s].epoch /\ task[j].op = task[s].op}
Entry(s) == jobs \intersect {s}

FinishAwait(s) ==
    /\ slot = Free
    /\ s \in awaited
    /\ ~Alive(s)
    /\ awaited' = awaited \ {s}
    /\ jobs' = jobs \ Entry(s)
    /\ UNCHANGED <<epoch, runtime, opened, task, started, passes, slot>>

-----------------------------------------------------------------------------
(* Requests that hold it across awaits *)

Hold(op, e, at) ==
    /\ slot = Free
    /\ slot' = [op |-> op, epoch |-> e, at |-> at, joining |-> {}]

\* open_scope and restore_scope of another generation.
Open(e) ==
    /\ Hold("open", e, "drain")
    /\ e >= epoch
    /\ UNCHANGED <<epoch, runtime, opened, task, started, passes, jobs, awaited>>

Close ==
    /\ Hold("close", epoch, "drain")
    /\ Live
    /\ UNCHANGED <<epoch, runtime, opened, task, started, passes, jobs, awaited>>

\* ScopeRuntime::quiesce begins: no more writes, and the scheduler is told.
Stopping == runtime' = [runtime EXCEPT !.accepting = FALSE, !.told = TRUE]

Quiesce ==
    /\ Hold("quiesce", epoch, "scheduler")
    /\ runtime # None
    /\ runtime.epoch = epoch
    /\ jobs = {}
    /\ ~runtime.quiesced
    /\ Stopping
    /\ UNCHANGED <<epoch, opened, task, started, passes, jobs, awaited>>

Revoke(e) ==
    /\ Hold("revoke", e, "signal")
    /\ e > epoch
    /\ UNCHANGED <<epoch, runtime, opened, task, started, passes, jobs, awaited>>

Reach(at, joining) == slot' = [slot EXCEPT !.at = at, !.joining = joining]
HoldingAt(at) == slot # Free /\ slot.at = at
Joined == \A t \in slot.joining : ~Alive(t)

SignalAll(S) ==
    task' = [t \in 1..started |-> IF t \in S THEN Signalled(task[t]) ELSE task[t]]

\* signal_jobs
SignalJobs ==
    /\ HoldingAt("signal")
    /\ SignalAll(jobs)
    /\ jobs' = {}
    /\ Reach("close", jobs)
    /\ UNCHANGED <<epoch, runtime, opened, started, passes, awaited>>

\* begin_abort
BeginAbort ==
    /\ HoldingAt("close")
    /\ IF runtime = None
       THEN UNCHANGED <<runtime, task>> /\ Reach("join", slot.joining)
       ELSE /\ SignalAll(runtime.deferred)
            /\ runtime' = [runtime EXCEPT !.closed = TRUE, !.deferred = {}]
            /\ Reach("join", slot.joining \union runtime.deferred)
    /\ UNCHANGED <<epoch, opened, started, passes, jobs, awaited>>

Joining ==
    /\ HoldingAt("join")
    /\ Joined
    /\ Reach("drain", {})
    /\ UNCHANGED <<epoch, runtime, opened, task, started, passes, jobs, awaited>>

\* replace_scope: drain_jobs, ...
DrainJobs ==
    /\ HoldingAt("drain")
    /\ jobs' = {}
    /\ Reach("drained", jobs)
    /\ UNCHANGED <<epoch, runtime, opened, task, started, passes, awaited>>

Drained ==
    /\ HoldingAt("drained")
    /\ Joined
    /\ IF runtime = None \/ (runtime # None /\ runtime.quiesced)
       THEN Reach("remove", {}) /\ UNCHANGED runtime
       ELSE Reach("scheduler", {}) /\ Stopping
    /\ UNCHANGED <<epoch, opened, task, started, passes, jobs, awaited>>

\* ... quiesce: the scheduler and its passes, the deferred dreams, ...
SchedulerStopped ==
    /\ HoldingAt("scheduler")
    /\ runtime.sched = "off"
    /\ ~runtime.flag
    /\ Reach("deferred", runtime.deferred)
    /\ runtime' = [runtime EXCEPT !.deferred = {}]
    /\ UNCHANGED <<epoch, opened, task, started, passes, jobs, awaited>>

DeferredDrained ==
    /\ HoldingAt("deferred")
    /\ Joined
    /\ Reach("flush", {})
    /\ UNCHANGED <<epoch, runtime, opened, task, started, passes, jobs, awaited>>

\* ... the queues and the stores; ...
Flush ==
    /\ HoldingAt("flush")
    /\ runtime' = [runtime EXCEPT !.quiesced = TRUE]
    /\ IF slot.op = "quiesce" THEN slot' = Free ELSE Reach("remove", {})
    /\ UNCHANGED <<epoch, opened, task, started, passes, jobs, awaited>>

\* ... an error leaves a scope that accepts nothing, at its old epoch.
FlushFails ==
    /\ HoldingAt("flush")
    /\ slot' = Free
    /\ UNCHANGED <<epoch, runtime, opened, task, started, passes, jobs, awaited>>

Remove ==
    /\ HoldingAt("remove")
    /\ runtime' = None
    /\ epoch' = IF slot.op = "revoke" THEN slot.epoch ELSE epoch
    /\ IF slot.op = "open" THEN Reach("open", {}) ELSE slot' = Free
    /\ UNCHANGED <<opened, task, started, passes, jobs, awaited>>

OpenRuntime ==
    /\ HoldingAt("open")
    /\ opened < MaxRuntimes
    /\ opened' = opened + 1
    /\ runtime' = [id |-> opened', epoch |-> slot.epoch, accepting |-> TRUE,
                   quiesced |-> FALSE, closed |-> FALSE, deferred |-> {},
                   flag |-> FALSE, told |-> FALSE, sched |-> "select"]
    /\ epoch' = slot.epoch
    /\ slot' = Free
    /\ UNCHANGED <<task, started, passes, jobs, awaited>>

OpenFails ==
    /\ HoldingAt("open")
    /\ slot' = Free
    /\ UNCHANGED <<epoch, runtime, opened, task, started, passes, jobs, awaited>>

-----------------------------------------------------------------------------
TaskStep(t) ==
    \/ Return(t) \/ EnterDurable(t) \/ Track(t)
    \/ NextSubject(t) \/ NoAnswer(t) \/ BeginApply(t)
    \/ Persist(t) \/ Retire(t) \/ ApplyFails(t)
    \/ Trigger(t) \/ TriggerSpawn(t) \/ Idle(t)

SchedulerStep == Tick \/ TickSpawn \/ Off

Quick ==
    \/ \E kind \in JobKinds, op \in Ops : Submit(kind, op)
    \/ \E s \in 1..started : BeginAwait(s) \/ FinishAwait(s)

Ask ==
    \/ \E e \in Epochs : Open(e) \/ Revoke(e)
    \/ Close
    \/ Quiesce

Proceed ==
    \/ SignalJobs \/ BeginAbort \/ Joining
    \/ DrainJobs \/ Drained
    \/ SchedulerStopped \/ DeferredDrained \/ Flush \/ FlushFails
    \/ Remove \/ OpenRuntime \/ OpenFails

Next ==
    \/ \E t \in Tasks : TaskStep(t) \/ Cancel(t)
    \/ \E r \in 1..MaxRuntimes : PassEnds(r)
    \/ SchedulerStep
    \/ Leave
    \/ Quick
    \/ Ask
    \/ Proceed

Spec == Init /\ [][Next]_vars

\* Every task runs, and an abort reaches it at its next await; model calls and
\* passes have timeouts; the select! of the scheduler does not pass over the
\* shutdown for ever.  That a dream runs out of subjects is not assumed.
FairSpec ==
    /\ Spec
    /\ \A t \in Tasks : WF_vars(TaskStep(t)) /\ WF_vars(Cancel(t))
    /\ \A r \in 1..MaxRuntimes : WF_vars(PassEnds(r))
    /\ WF_vars(SchedulerStep)
    /\ SF_vars(Leave)
    /\ WF_vars(Proceed)

-----------------------------------------------------------------------------
(* Properties *)

\* "The stale epoch can never publish into the next generation" (engine.rs):
\* a job or a dream that is not over runs in the runtime that is open, which is
\* not sealed, and at its epoch.  That covers jobs that came back after an
\* await, dreams that a job deferred while it was being joined, and requests
\* that failed half-way.
LiveIsCurrent ==
    \A t \in 1..started : Alive(t) =>
        /\ runtime # None
        /\ runtime.id = task[t].home
        /\ ~runtime.quiesced
        /\ task[t].epoch = runtime.epoch
        /\ epoch = runtime.epoch

\* "A subject is therefore either fully applied or untouched" (engine.rs): no
\* revocation cuts an apply section.
SubjectWhole == \A t \in 1..started : task[t].pc = "cancelled" => ~task[t].half

\* "revoke waits only for the section in progress" (engine.rs): it ends, even
\* if no dream ever would.
RevokeReturns == slot.op = "revoke" ~> slot = Free

\* "Stop every writer owned by this generation before Hosted accepts it"
\* (state.rs), of jobs and dreams: a runtime that has begun to stop takes no
\* more of them, is sealed when the last is gone, and only then replaced; one
\* whose closing failed never takes any again; and no request takes the scope
\* back to an earlier epoch, however long it has waited for the slot's work.
G == INSTANCE Generations WITH
    Writers <- Tasks,
    number <- opened,
    state <- IF runtime = None THEN "none"
             ELSE IF runtime.quiesced THEN "sealed"
             ELSE IF runtime.accepting THEN "open" ELSE "stopped",
    within <- [t \in {u \in 1..started : Alive(u)} |-> <<task[t].home, task[t].epoch>>],
    left <- {u \in 1..started : ~Alive(u)}

KeepsGenerations == G!Spec

\* "Stop every writer owned by this generation before Hosted accepts it"
\* (state.rs), of the scheduler's passes.
PassesStopped ==
    \A r \in 1..MaxRuntimes : passes[r] > 0 =>
        runtime # None /\ runtime.id = r /\ ~runtime.quiesced
=============================================================================
