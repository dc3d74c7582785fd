---------------------------- MODULE HostedProofs ----------------------------
(***************************************************************************)
(* Theorems about Hosted: types, the fencing of epochs, and the apply      *)
(* sections, for any number of jobs, epochs and runtimes.                  *)
(***************************************************************************)
EXTENDS Hosted, TLAPS

-----------------------------------------------------------------------------
(* The inductive invariant *)

\* Only a task that is outside its section is ever aborted.
PhaseOK(r) ==
    /\ r.aborted => r.phase = "revoked"
    /\ r.pc = "section" => r.phase = "applying"
    /\ r.half => r.pc \in {"section", "ended"}

Phases == \A t \in 1..started : PhaseOK(task[t])

Held == IF slot = Free THEN {} ELSE slot.joining

\* Whoever closes the runtime knows of the task.
Known(t) ==
    \/ t \in Held
    \/ task[t].kind = "auto" /\ t \in runtime.deferred
    \/ task[t].kind # "auto" /\ t \in jobs

Current(t) ==
    /\ runtime # None
    /\ runtime.id = task[t].home
    /\ ~runtime.quiesced
    /\ task[t].epoch = runtime.epoch

Located == \A t \in 1..started : Alive(t) => Current(t) /\ Known(t)

NoJobs == jobs = {} /\ \A t \in 1..started : Alive(t) => task[t].kind = "auto"

\* How far the closing of a runtime has come.
Stages ==
    /\ runtime # None => runtime.epoch = epoch
    /\ slot # Free =>
        /\ slot.at \in {"signal", "drain", "scheduler", "flush", "remove", "open"}
              => slot.joining = {}
        /\ slot.at = "drained" => jobs = {}
        /\ slot.at \in {"scheduler", "deferred", "flush"} => runtime # None /\ NoJobs
        /\ slot.at = "deferred" => runtime.deferred = {}
        /\ slot.at = "flush" => \A t \in 1..started : ~Alive(t)
        /\ slot.at = "remove" => runtime = None \/ runtime.quiesced
        /\ slot.at = "open" => runtime = None

IInv == TypeOK /\ Phases /\ Located /\ Stages

-----------------------------------------------------------------------------
(* Steps of one task *)

\* r is what t may become: the same task, and its phase in order.
Successor(t, r) ==
    /\ r \in Task
    /\ r.kind = task[t].kind /\ r.op = task[t].op
    /\ r.epoch = task[t].epoch /\ r.home = task[t].home
    /\ PhaseOK(r)

\* What a step leaves alone that neither opens, closes nor waits.
SameEngine == UNCHANGED <<epoch, opened, jobs, awaited, slot>>

SameRuntime ==
    /\ runtime' \in Runtime \union {None}
    /\ runtime = None <=> runtime' = None
    /\ runtime # None =>
        /\ runtime'.id = runtime.id /\ runtime'.epoch = runtime.epoch
        /\ runtime'.quiesced = runtime.quiesced
        /\ runtime'.deferred = runtime.deferred

\* No task comes to life or changes its place.
Quieter ==
    /\ started' = started
    /\ \A t \in 1..started :
        /\ task'[t].kind = task[t].kind /\ task'[t].op = task[t].op
        /\ task'[t].epoch = task[t].epoch /\ task'[t].home = task[t].home
        /\ Alive(t)' => Alive(t)

\* A step in which one task goes on keeps the tasks well formed.
LEMMA OneTask ==
    ASSUME TypeOK, Phases, NEW t, Alive(t), t \in 1..started, NEW r, Successor(t, r),
           task' = [task EXCEPT ![t] = r], started' = started
    PROVE  task' \in [1..started' -> Task] /\ Phases' /\ Quieter
<1>1. task \in [1..started -> Task] /\ started \in Nat
  BY DEF TypeOK
<1>2. task' \in [1..started' -> Task]
  BY <1>1 DEF Successor
<1>3. Phases'
  BY <1>1 DEF Phases, PhaseOK, Successor
<1>4. Quieter
  BY <1>1 DEF Quieter, Successor, Alive
<1> QED BY <1>2, <1>3, <1>4

\* Where the engine stands still and no task comes to life, everything stays
\* in its place.
LEMMA Still ==
    ASSUME IInv, Quieter, SameEngine, SameRuntime
    PROVE  Located' /\ Stages'
<1>1. runtime # None <=> runtime' # None
  BY DEF SameRuntime
<1>2. \A t \in 1..started : (Alive(t) => Current(t) /\ Known(t)) => (Alive(t)' => Current(t)' /\ Known(t)')
  BY <1>1 DEF Quieter, SameEngine, SameRuntime, Current, Known, Held
<1>3. Located'
  BY <1>2 DEF IInv, Located, Quieter
<1>4. NoJobs => NoJobs'
  BY DEF NoJobs, Quieter, SameEngine
<1>5. Stages'
  BY <1>1, <1>4 DEF IInv, Stages, Quieter, SameEngine, SameRuntime
<1> QED BY <1>3, <1>5

\* The types, where the engine stands still.
LEMMA StillTyped ==
    ASSUME TypeOK, Quieter, SameEngine, SameRuntime, task' \in [1..started' -> Task],
           passes' \in [1..MaxRuntimes -> 0..MaxPasses]
    PROVE  TypeOK'
<1>1. jobs' = jobs /\ started' = started
  BY DEF SameEngine, Quieter
<1>2. \A i, j \in jobs' : task'[i].epoch = task'[j].epoch /\ task'[i].op = task'[j].op => i = j
  BY <1>1 DEF TypeOK, Quieter
<1> QED BY <1>1, <1>2 DEF TypeOK, SameEngine, SameRuntime

LEMMA TaskMoves ==
    ASSUME IInv, NEW t, t \in 1..started, Alive(t), NEW r, Successor(t, r),
           task' = [task EXCEPT ![t] = r], started' = started,
           SameEngine, SameRuntime, passes' \in [1..MaxRuntimes -> 0..MaxPasses]
    PROVE  IInv'
<1>1. task' \in [1..started' -> Task] /\ Phases' /\ Quieter
  BY OneTask DEF IInv
<1>2. Located' /\ Stages'
  BY <1>1, Still
<1>3. TypeOK'
  BY <1>1, StillTyped DEF IInv
<1> QED BY <1>1, <1>2, <1>3 DEF IInv

\* The same, for a step that leaves the runtime and the passes alone.
LEMMA TaskAlone ==
    ASSUME IInv, NEW t, t \in 1..started, Alive(t), NEW r, Successor(t, r),
           task' = [task EXCEPT ![t] = r], UNCHANGED <<started, engine>>
    PROVE  IInv'
<1>1. SameEngine /\ SameRuntime /\ passes' \in [1..MaxRuntimes -> 0..MaxPasses]
  BY DEF SameEngine, SameRuntime, engine, IInv, TypeOK
<1> QED BY <1>1, TaskMoves

\* What a task that goes on to pc, and nothing else, must bring along.
LEMMA Goes ==
    ASSUME IInv, NEW t, t \in 1..started, Alive(t), NEW pc,
           pc \in {"run", "tail", "merge", "spawn", "wait", "ended", "cancelled"},
           task[t].half => pc = "ended",
           Go(t, pc), UNCHANGED <<started, engine>>
    PROVE  IInv'
<1> DEFINE r == [task[t] EXCEPT !.pc = pc]
<1>1. task[t] \in Task /\ PhaseOK(task[t])
  BY DEF IInv, TypeOK, Phases
<1>2. Successor(t, r)
  BY <1>1 DEF Successor, PhaseOK, Task
<1>3. task' = [task EXCEPT ![t] = r]
  BY DEF Go
<1> HIDE DEF r
<1> QED BY <1>2, <1>3, TaskAlone

\* A task that has begun is in the table, with its phase in order.
LEMMA Known_At ==
    ASSUME IInv, NEW t \in Tasks, NEW kinds, NEW pc, pc \notin {"ended", "cancelled"},
           At(t, kinds, pc)
    PROVE  t \in 1..started /\ Alive(t) /\ task[t] \in Task /\ PhaseOK(task[t])
BY DEF At, Alive, IInv, TypeOK, Phases, Tasks

LEMMA CancelStep == ASSUME IInv, NEW t \in Tasks, Cancel(t) PROVE IInv'
<1>1. t \in 1..started /\ Alive(t) /\ PhaseOK(task[t]) /\ task[t].aborted
  BY DEF Cancel, Alive, IInv, TypeOK, Phases, Tasks
<1>2. ~task[t].half
  BY <1>1 DEF PhaseOK, Alive
<1> QED BY <1>1, <1>2, Goes DEF Cancel

LEMMA ReturnStep == ASSUME IInv, NEW t \in Tasks, Return(t) PROVE IInv'
<1>1. t \in 1..started /\ Alive(t)
  BY Known_At DEF Return
<1> QED BY <1>1, Goes DEF Return, End

LEMMA EnterDurableStep == ASSUME IInv, NEW t \in Tasks, EnterDurable(t) PROVE IInv'
<1> DEFINE r == IF Revoked(task[t]) THEN [task[t] EXCEPT !.pc = "ended"]
                ELSE [task[t] EXCEPT !.pc = "tail", !.phase = "durable"]
<1>1. t \in 1..started /\ Alive(t) /\ task[t] \in Task /\ PhaseOK(task[t])
  BY Known_At DEF EnterDurable
<1>2. task[t].pc = "run"
  BY DEF EnterDurable, At
<1>3. Successor(t, r)
  BY <1>1, <1>2 DEF Successor, PhaseOK, Task, Revoked
<1>4. task' = [task EXCEPT ![t] = r]
  BY DEF EnterDurable
<1> HIDE DEF r
<1> QED BY <1>1, <1>3, <1>4, TaskAlone DEF EnterDurable

LEMMA NextSubjectStep == ASSUME IInv, NEW t \in Tasks, NextSubject(t) PROVE IInv'
<1>1. t \in 1..started /\ Alive(t) /\ PhaseOK(task[t])
  BY Known_At DEF NextSubject
<1>2. ~task[t].half
  BY <1>1 DEF NextSubject, At, PhaseOK
<1>3. CASE Revoked(task[t])
  BY <1>1, <1>3, Goes DEF NextSubject, End
<1>4. CASE ~Revoked(task[t])
  BY <1>1, <1>2, <1>4, Goes DEF NextSubject
<1> QED BY <1>3, <1>4

LEMMA NoAnswerStep == ASSUME IInv, NEW t \in Tasks, NoAnswer(t) PROVE IInv'
<1>1. t \in 1..started /\ Alive(t) /\ PhaseOK(task[t])
  BY Known_At DEF NoAnswer
<1>2. ~task[t].half
  BY <1>1 DEF NoAnswer, At, PhaseOK
<1>3. CASE Go(t, "run")
  BY <1>1, <1>2, <1>3, Goes DEF NoAnswer
<1>4. CASE End(t)
  BY <1>1, <1>4, Goes DEF NoAnswer, End
<1> QED BY <1>3, <1>4 DEF NoAnswer

LEMMA BeginApplyStep == ASSUME IInv, NEW t \in Tasks, BeginApply(t) PROVE IInv'
<1> DEFINE r == IF Revoked(task[t]) THEN [task[t] EXCEPT !.pc = "ended"]
                ELSE [task[t] EXCEPT !.pc = "section", !.phase = "applying"]
<1>1. t \in 1..started /\ Alive(t) /\ task[t] \in Task /\ PhaseOK(task[t])
  BY Known_At DEF BeginApply
<1>2. task[t].pc = "merge"
  BY DEF BeginApply, At
<1>3. Successor(t, r)
  BY <1>1, <1>2 DEF Successor, PhaseOK, Task, Revoked
<1>4. task' = [task EXCEPT ![t] = r]
  BY DEF BeginApply
<1> HIDE DEF r
<1> QED BY <1>1, <1>3, <1>4, TaskAlone DEF BeginApply

LEMMA PersistStep == ASSUME IInv, NEW t \in Tasks, Persist(t) PROVE IInv'
<1> DEFINE r == [task[t] EXCEPT !.half = TRUE]
<1>1. t \in 1..started /\ Alive(t) /\ task[t] \in Task /\ PhaseOK(task[t])
  BY Known_At DEF Persist
<1>2. Successor(t, r)
  BY <1>1 DEF Successor, PhaseOK, Task, Persist, At
<1>3. task' = [task EXCEPT ![t] = r]
  BY DEF Persist
<1> HIDE DEF r
<1> QED BY <1>1, <1>2, <1>3, TaskAlone DEF Persist

LEMMA RetireStep == ASSUME IInv, NEW t \in Tasks, Retire(t) PROVE IInv'
<1> DEFINE r == [EndApply(task[t]) EXCEPT !.pc = "run", !.half = FALSE]
<1>1. t \in 1..started /\ Alive(t) /\ task[t] \in Task /\ PhaseOK(task[t])
  BY Known_At DEF Retire
<1>2. ~task[t].aborted
  BY <1>1 DEF Retire, At, PhaseOK
<1>3. Successor(t, r)
  BY <1>1, <1>2 DEF Successor, PhaseOK, Task, EndApply
<1>4. task' = [task EXCEPT ![t] = r]
  BY DEF Retire
<1> HIDE DEF r
<1> QED BY <1>1, <1>3, <1>4, TaskAlone DEF Retire

LEMMA ApplyFailsStep == ASSUME IInv, NEW t \in Tasks, ApplyFails(t) PROVE IInv'
<1> DEFINE r == [EndApply(task[t]) EXCEPT !.pc = "ended"]
<1>1. t \in 1..started /\ Alive(t) /\ task[t] \in Task /\ PhaseOK(task[t])
  BY Known_At DEF ApplyFails
<1>2. ~task[t].aborted
  BY <1>1 DEF ApplyFails, At, PhaseOK
<1>3. Successor(t, r)
  BY <1>1, <1>2 DEF Successor, PhaseOK, Task, EndApply
<1>4. task' = [task EXCEPT ![t] = r]
  BY DEF ApplyFails
<1> HIDE DEF r
<1> QED BY <1>1, <1>3, <1>4, TaskAlone DEF ApplyFails

-----------------------------------------------------------------------------
(* Steps of the scheduler *)

LEMMA TriggerStep == ASSUME IInv, NEW t \in Tasks, Trigger(t) PROVE IInv'
<1>1. t \in 1..started /\ Alive(t) /\ PhaseOK(task[t])
  BY Known_At DEF Trigger
<1>2. ~task[t].half
  BY <1>1 DEF Trigger, At, PhaseOK
<1>3. CASE runtime.flag
  BY <1>1, <1>2, <1>3, Goes DEF Trigger
<1>4. CASE ~runtime.flag
  BY <1>1, <1>2, <1>4, Goes DEF Trigger
<1> QED BY <1>3, <1>4

LEMMA IdleStep == ASSUME IInv, NEW t \in Tasks, Idle(t) PROVE IInv'
<1>1. t \in 1..started /\ Alive(t)
  BY Known_At DEF Idle
<1> QED BY <1>1, Goes DEF Idle, End

\* A pass that starts changes neither the place of a task nor the engine.
LEMMA Spawned ==
    ASSUME IInv, runtime # None, NEW sched \in {"select", "spawn", "leave", "off"},
           SpawnPass(sched)
    PROVE  /\ SameEngine /\ SameRuntime /\ started' = started
           /\ passes' \in [1..MaxRuntimes -> 0..MaxPasses]
<1>1. runtime \in Runtime /\ passes \in [1..MaxRuntimes -> 0..MaxPasses]
  BY DEF IInv, TypeOK
<1>2. SameEngine /\ started' = started
  BY DEF SpawnPass, SameEngine
<1>3. runtime' \in Runtime
  BY <1>1 DEF SpawnPass, Runtime
<1>4. None \notin Runtime
  BY HostedAssumption DEF Runtime, Epochs, Tasks
<1>5. SameRuntime
  BY <1>1, <1>3, <1>4 DEF SpawnPass, SameRuntime, Runtime
<1>6. MaxPasses \in Nat
  BY HostedAssumption
<1>7. passes' \in [1..MaxRuntimes -> 0..MaxPasses]
  BY <1>1, <1>6 DEF SpawnPass, Runtime
<1> QED BY <1>2, <1>5, <1>7

LEMMA TriggerSpawnStep == ASSUME IInv, NEW t \in Tasks, TriggerSpawn(t) PROVE IInv'
<1> DEFINE r == [task[t] EXCEPT !.pc = "wait"]
<1>1. t \in 1..started /\ Alive(t) /\ task[t] \in Task /\ PhaseOK(task[t])
  BY Known_At DEF TriggerSpawn
<1>2. Successor(t, r)
  BY <1>1 DEF Successor, PhaseOK, Task, TriggerSpawn, At
<1>3. task' = [task EXCEPT ![t] = r]
  BY DEF TriggerSpawn, Go
<1>4. runtime # None /\ runtime \in Runtime
  BY DEF TriggerSpawn, Here, IInv, TypeOK
<1>5. runtime.sched \in {"select", "spawn", "leave", "off"}
  BY <1>4 DEF Runtime
<1>6. SameEngine /\ SameRuntime /\ started' = started
      /\ passes' \in [1..MaxRuntimes -> 0..MaxPasses]
  BY <1>4, <1>5, Spawned DEF TriggerSpawn
<1> HIDE DEF r
<1> QED BY <1>1, <1>2, <1>3, <1>6, TaskMoves

\* Where the tasks stand still too.
LEMMA NoTask ==
    ASSUME IInv, UNCHANGED <<task, started>>, SameEngine, SameRuntime,
           passes' \in [1..MaxRuntimes -> 0..MaxPasses]
    PROVE  IInv'
<1>1. Quieter /\ task' \in [1..started' -> Task] /\ Phases'
  BY DEF Quieter, Alive, IInv, TypeOK, Phases
<1>2. Located' /\ Stages'
  BY <1>1, Still
<1>3. TypeOK'
  BY <1>1, StillTyped DEF IInv
<1> QED BY <1>1, <1>2, <1>3 DEF IInv

LEMMA PassEndsStep == ASSUME IInv, NEW r \in 1..MaxRuntimes, PassEnds(r) PROVE IInv'
<1>1. runtime \in Runtime \union {None} /\ passes \in [1..MaxRuntimes -> 0..MaxPasses]
  BY DEF IInv, TypeOK
<1>2. None \notin Runtime
  BY HostedAssumption DEF Runtime, Epochs, Tasks
<1>3. SameRuntime
  BY <1>1, <1>2 DEF PassEnds, SameRuntime, Runtime
<1>4. MaxPasses \in Nat
  BY HostedAssumption
<1>5. passes' \in [1..MaxRuntimes -> 0..MaxPasses]
  BY <1>1, <1>4 DEF PassEnds
<1>6. SameEngine
  BY DEF PassEnds, SameEngine
<1> QED BY <1>3, <1>5, <1>6, NoTask DEF PassEnds

LEMMA LoopStep ==
    ASSUME IInv, NEW from, NEW to \in {"select", "spawn", "leave", "off"}, Loop(from, to)
    PROVE  IInv'
<1>1. runtime \in Runtime
  BY DEF IInv, TypeOK, Loop
<1>2. None \notin Runtime
  BY HostedAssumption DEF Runtime, Epochs, Tasks
<1>3. SameRuntime
  BY <1>1, <1>2 DEF Loop, SameRuntime, Runtime
<1>4. SameEngine /\ passes' \in [1..MaxRuntimes -> 0..MaxPasses]
  BY DEF Loop, SameEngine, IInv, TypeOK
<1> QED BY <1>3, <1>4, NoTask DEF Loop

LEMMA TickSpawnStep == ASSUME IInv, TickSpawn PROVE IInv'
<1>1. SameEngine /\ SameRuntime /\ started' = started
      /\ passes' \in [1..MaxRuntimes -> 0..MaxPasses]
  BY Spawned DEF TickSpawn
<1> QED BY <1>1, NoTask DEF TickSpawn

-----------------------------------------------------------------------------
(* Steps that start a task, or take one off the engine's map *)

\* A new task comes after the others and changes none of them.
LEMMA NewTask ==
    ASSUME TypeOK, Phases, NEW r \in Task, PhaseOK(r), Start(r), NEW n, n = started + 1
    PROVE  /\ started' = n /\ n \in 1..MaxTasks
           /\ task' \in [1..started' -> Task]
           /\ Phases'
           /\ \A u \in 1..started : task'[u] = task[u] /\ (Alive(u)' => Alive(u))
           /\ task'[n] = r
<1>1. started \in 0..MaxTasks /\ task \in [1..started -> Task] /\ MaxTasks \in Nat
  BY HostedAssumption DEF TypeOK
<1>2. started' = n /\ n \in 1..MaxTasks
  BY <1>1 DEF Start
<1>3. \A u \in 1..started : task'[u] = task[u]
  BY <1>1 DEF Start
<1>4. task'[n] = r
  BY <1>1, <1>2 DEF Start
<1>5. task' = [u \in 1..started' |-> IF u <= started THEN task[u] ELSE r]
  BY <1>2 DEF Start
<1>6. task' \in [1..started' -> Task]
  BY <1>1, <1>2, <1>5
<1>7. Phases'
  BY <1>1, <1>2, <1>3, <1>4 DEF Phases
<1>8. \A u \in 1..started : Alive(u)' => Alive(u)
  BY <1>1, <1>3 DEF Alive
<1> QED BY <1>2, <1>3, <1>4, <1>6, <1>7, <1>8

LEMMA TrackStep == ASSUME IInv, NEW t \in Tasks, Track(t) PROVE IInv'
<1>0. PICK n, r : n = started + 1 /\ r = New("auto", NoOp, task[t].epoch, task[t].home)
  OBVIOUS
<1>1. t \in 1..started /\ Alive(t) /\ task[t] \in Task /\ task[t].kind = "store"
  BY Known_At DEF Track, At
<1>2. runtime \in Runtime /\ None \notin Runtime /\ runtime # None
  BY HostedAssumption DEF IInv, TypeOK, Track, Here, Runtime, Epochs, Tasks
<1>3. r \in Task /\ PhaseOK(r)
  BY <1>0, <1>1 DEF New, Task, PhaseOK, Kinds
<1>4. /\ started' = n /\ n \in 1..MaxTasks
      /\ task' \in [1..started' -> Task]
      /\ Phases'
      /\ \A u \in 1..started : task'[u] = task[u] /\ (Alive(u)' => Alive(u))
      /\ task'[n] = r
  <2>1. Start(r)
    BY <1>0 DEF Track
  <2> QED BY <1>0, <1>3, <2>1, NewTask DEF IInv
<1>5. /\ runtime' \in Runtime /\ runtime' # None
      /\ runtime'.id = runtime.id /\ runtime'.epoch = runtime.epoch
      /\ runtime'.quiesced = runtime.quiesced
      /\ runtime'.deferred = runtime.deferred \union {n}
  BY <1>2, <1>4 DEF Track, Runtime, Tasks
<1>6. UNCHANGED <<epoch, opened, passes, jobs, awaited, slot>>
  BY DEF Track
<1>7. started \in Nat
  BY DEF IInv, TypeOK
<1>8. Current(t) /\ Located /\ Stages
  BY <1>1 DEF IInv, Located
<1>9. \A u \in 1..started : Alive(u)' => Current(u)' /\ Known(u)'
  <2> SUFFICES ASSUME NEW u \in 1..started, Alive(u)'
               PROVE  Current(u)' /\ Known(u)'
    OBVIOUS
  <2>1. Alive(u) /\ task'[u] = task[u]
    BY <1>4
  <2>2. Current(u) /\ Known(u)
    BY <2>1, <1>8 DEF Located
  <2>3. Current(u)'
    BY <2>1, <2>2, <1>2, <1>5 DEF Current
  <2>4. Known(u)'
    BY <2>1, <2>2, <1>5, <1>6 DEF Known, Held
  <2> QED BY <2>3, <2>4
<1>10. Current(n)' /\ Known(n)'
  BY <1>0, <1>2, <1>4, <1>5, <1>8 DEF Current, Known, New
<1>11. Located'
  <2> SUFFICES ASSUME NEW u \in 1..started', Alive(u)'
               PROVE  Current(u)' /\ Known(u)'
    BY DEF Located
  <2>1. u \in 1..started \/ u = n
    BY <1>0, <1>4, <1>7
  <2>2. CASE u \in 1..started
    BY <2>2, <1>9
  <2>3. CASE u = n
    BY <2>3, <1>10
  <2> QED BY <2>1, <2>2, <2>3
<1>12. slot # Free => slot.at \notin {"scheduler", "deferred", "flush", "remove", "open"}
  BY <1>1, <1>8, <1>2 DEF Stages, NoJobs, Current
<1>13. Stages'
  BY <1>2, <1>5, <1>6, <1>8, <1>12 DEF Stages
<1>14. TypeOK'
  <2>1. jobs \subseteq 1..started /\ awaited \subseteq 1..started
        /\ runtime.deferred \subseteq 1..started
        /\ (slot # Free => slot.joining \subseteq 1..started)
    BY <1>2 DEF IInv, TypeOK
  <2>2. 1..started \subseteq 1..n /\ n \in 1..n
    BY <1>0, <1>7
  <2>3. \A i, j \in jobs' : task'[i].epoch = task'[j].epoch /\ task'[i].op = task'[j].op => i = j
    BY <1>4, <1>6, <2>1 DEF IInv, TypeOK
  <2>4. runtime'.deferred \subseteq 1..started'
    <3>1. started' = n
      BY <1>4
    <3>2. runtime.deferred \union {n} \subseteq 1..n
      BY <2>1, <2>2
    <3> QED BY <1>5, <3>1, <3>2
  <2>5. started' \in 0..MaxTasks
    BY <1>4, HostedAssumption DEF HostedAssumption
  <2>6. jobs' \subseteq 1..started' /\ awaited' \subseteq 1..started'
    BY <1>4, <1>6, <2>1, <2>2
  <2>7. slot' # Free => slot'.joining \subseteq 1..started'
    BY <1>4, <1>6, <2>1, <2>2
  <2>8. /\ epoch' \in Epochs \union {-1} /\ opened' \in 0..MaxRuntimes
        /\ passes' \in [1..MaxRuntimes -> 0..MaxPasses] /\ slot' \in Slot \union {Free}
    BY <1>6 DEF IInv, TypeOK
  <2>9. runtime' \in Runtime \union {None} /\ task' \in [1..started' -> Task]
    BY <1>4, <1>5
  <2> HIDE DEF Slot, Task, Runtime
  <2> QED BY <2>3, <2>4, <2>5, <2>6, <2>7, <2>8, <2>9 DEF TypeOK
<1> QED BY <1>4, <1>11, <1>13, <1>14 DEF IInv

LEMMA SubmitStep == ASSUME IInv, NEW kind \in JobKinds, NEW op \in Ops, Submit(kind, op) PROVE IInv'
<1>0. PICK n, r : n = started + 1 /\ r = New(kind, op, epoch, runtime.id)
  OBVIOUS
<1>1. runtime \in Runtime /\ runtime # None /\ runtime.epoch = epoch /\ ~runtime.quiesced
      /\ slot = Free
  BY DEF IInv, TypeOK, Submit, Live
<1>2. r \in Task /\ PhaseOK(r)
  BY <1>0, <1>1 DEF New, Task, PhaseOK, Kinds, Runtime
<1>3. /\ started' = n /\ n \in 1..MaxTasks
      /\ task' \in [1..started' -> Task]
      /\ Phases'
      /\ \A u \in 1..started : task'[u] = task[u] /\ (Alive(u)' => Alive(u))
      /\ task'[n] = r
  <2>1. Start(r)
    BY <1>0 DEF Submit
  <2> QED BY <1>0, <1>2, <2>1, NewTask DEF IInv
<1>4. jobs' = jobs \union {n}
  BY <1>3 DEF Submit
<1>5. UNCHANGED <<epoch, runtime, opened, passes, awaited, slot>>
  BY DEF Submit
<1>6. started \in Nat
  BY DEF IInv, TypeOK
<1>7. \A u \in 1..started : Alive(u)' => Current(u)' /\ Known(u)'
  <2> SUFFICES ASSUME NEW u \in 1..started, Alive(u)'
               PROVE  Current(u)' /\ Known(u)'
    OBVIOUS
  <2>1. Alive(u) /\ task'[u] = task[u]
    BY <1>3
  <2>2. Current(u) /\ Known(u)
    BY <2>1 DEF IInv, Located
  <2>3. Current(u)'
    BY <2>1, <2>2, <1>5 DEF Current
  <2>4. Known(u)'
    BY <2>1, <2>2, <1>4, <1>5 DEF Known, Held
  <2> QED BY <2>3, <2>4
<1>8. Current(n)' /\ Known(n)'
  BY <1>0, <1>1, <1>3, <1>4, <1>5 DEF Current, Known, New, JobKinds
<1>9. Located'
  <2> SUFFICES ASSUME NEW u \in 1..started', Alive(u)'
               PROVE  Current(u)' /\ Known(u)'
    BY DEF Located
  <2>1. u \in 1..started \/ u = n
    BY <1>0, <1>3, <1>6
  <2>2. CASE u \in 1..started
    BY <2>2, <1>7
  <2>3. CASE u = n
    BY <2>3, <1>8
  <2> QED BY <2>1, <2>2, <2>3
<1>10. Stages'
  BY <1>1, <1>5 DEF Stages
<1>11. TypeOK'
  <2>1. jobs \subseteq 1..started /\ awaited \subseteq 1..started
        /\ runtime.deferred \subseteq 1..started
    BY <1>1 DEF IInv, TypeOK
  <2>2. 1..started \subseteq 1..n /\ n \in 1..n /\ n \notin 1..started
    BY <1>0, <1>6
  <2>3. \A j \in jobs : r.epoch = task[j].epoch => task[j].op # r.op
    BY <1>0 DEF Submit, Unused, New
  <2>4. \A i, j \in jobs' : task'[i].epoch = task'[j].epoch /\ task'[i].op = task'[j].op => i = j
    <3>1. \A i, j \in jobs : task'[i].epoch = task'[j].epoch /\ task'[i].op = task'[j].op => i = j
      BY <1>3, <2>1 DEF IInv, TypeOK
    <3>2. \A j \in jobs : ~(task'[n].epoch = task'[j].epoch /\ task'[n].op = task'[j].op)
      BY <1>3, <2>1, <2>3
    <3> QED BY <3>1, <3>2, <1>4
  <2>5. jobs' \subseteq 1..n /\ awaited' \subseteq 1..n /\ runtime'.deferred \subseteq 1..n
    BY <1>4, <1>5, <2>1, <2>2
  <2>6. started' \in 0..MaxTasks
    BY <1>3, HostedAssumption
  <2> QED BY <1>1, <1>3, <1>5, <2>4, <2>5, <2>6 DEF IInv, TypeOK
<1> QED BY <1>3, <1>9, <1>10, <1>11 DEF IInv

LEMMA BeginAwaitStep == ASSUME IInv, NEW s \in 1..started, BeginAwait(s) PROVE IInv'
<1>1. UNCHANGED <<epoch, runtime, opened, task, started, passes, jobs, slot>>
  BY DEF BeginAwait
<1>2. TypeOK'
  BY <1>1 DEF IInv, TypeOK, BeginAwait
<1>3. Phases' /\ Located' /\ Stages'
  BY <1>1 DEF IInv, Phases, Located, Stages, NoJobs, Current, Known, Held, Alive
<1> QED BY <1>2, <1>3 DEF IInv

\* The job that leaves the map is over; one that took its key stays.
LEMMA FinishAwaitStep == ASSUME IInv, NEW s \in 1..started, FinishAwait(s) PROVE IInv'
<1>1. UNCHANGED <<epoch, runtime, opened, task, started, passes, slot>> /\ slot = Free
  BY DEF FinishAwait
<1>2. jobs' = jobs \ {s} /\ ~Alive(s)
  BY DEF FinishAwait, Entry
<1>3. TypeOK'
  BY <1>1, <1>2 DEF IInv, TypeOK, FinishAwait
<1>4. \A t \in 1..started : (Alive(t) => Current(t) /\ Known(t)) => (Alive(t)' => Current(t)' /\ Known(t)')
  BY <1>1, <1>2 DEF Current, Known, Held, Alive
<1>5. Located'
  BY <1>1, <1>4 DEF IInv, Located
<1>6. Phases' /\ Stages'
  BY <1>1 DEF IInv, Phases, Stages
<1> QED BY <1>3, <1>5, <1>6 DEF IInv

-----------------------------------------------------------------------------
(* Requests that hold the slot *)

\* While tasks stand still their phases do, and who is alive.
LEMMA SameTasks ==
    ASSUME IInv, UNCHANGED <<task, started>>
    PROVE  Phases' /\ \A t : Alive(t)' <=> Alive(t)
BY DEF IInv, Phases, Alive

LEMMA HoldStep ==
    ASSUME IInv, NEW op \in {"open", "close", "revoke"}, NEW e \in Epochs,
           NEW at \in {"signal", "drain"}, Hold(op, e, at),
           UNCHANGED <<epoch, runtime, opened, task, started, passes, jobs, awaited>>
    PROVE  IInv'
<1>1. /\ slot = Free /\ slot' # Free /\ slot' \in Slot
      /\ slot'.at = at /\ slot'.joining = {}
  BY DEF Hold, Free, Slot
<1>2. TypeOK'
  BY <1>1 DEF IInv, TypeOK
<1>3. Located'
  BY <1>1 DEF IInv, Located, Current, Known, Held, Alive
<1>4. Stages'
  BY <1>1 DEF IInv, Stages
<1> QED BY <1>2, <1>3, <1>4, SameTasks DEF IInv

\* The slot as it is held further.
LEMMA Reaches ==
    ASSUME TypeOK, slot # Free, NEW J, J \subseteq 1..started,
           NEW at \in {"signal", "close", "join", "drain", "drained", "scheduler",
                       "deferred", "flush", "remove", "open"},
           Reach(at, J)
    PROVE  /\ slot' \in Slot /\ slot' # Free
           /\ slot'.at = at /\ slot'.joining = J
           /\ slot'.op = slot.op /\ slot'.epoch = slot.epoch
<1>1. slot \in Slot
  BY DEF TypeOK
<1>2. J \subseteq Tasks
  BY HostedAssumption DEF TypeOK, Tasks
<1>3. slot' \in Slot /\ slot'.at = at /\ slot'.joining = J
      /\ slot'.op = slot.op /\ slot'.epoch = slot.epoch
  BY <1>1, <1>2 DEF Reach, Slot
<1>4. slot' # Free
  BY <1>3 DEF Slot, Free
<1> QED BY <1>3, <1>4

\* ScopeRuntime::quiesce has begun.
LEMMA Stops ==
    ASSUME TypeOK, runtime # None, Stopping
    PROVE  /\ runtime' \in Runtime /\ runtime' # None
           /\ runtime'.id = runtime.id /\ runtime'.epoch = runtime.epoch
           /\ runtime'.quiesced = runtime.quiesced
           /\ runtime'.deferred = runtime.deferred
BY HostedAssumption DEF TypeOK, Stopping, Runtime, Epochs, Tasks

LEMMA QuiesceStep == ASSUME IInv, Quiesce PROVE IInv'
<1>1. /\ runtime' \in Runtime /\ runtime' # None
      /\ runtime'.id = runtime.id /\ runtime'.epoch = runtime.epoch
      /\ runtime'.quiesced = runtime.quiesced
      /\ runtime'.deferred = runtime.deferred
  BY Stops DEF IInv, Quiesce
<1>2. UNCHANGED <<epoch, opened, task, started, passes, jobs, awaited>>
      /\ runtime # None /\ jobs = {}
  BY DEF Quiesce
<1>3. epoch \in Epochs
  BY DEF IInv, TypeOK, Quiesce, Runtime
<1>4. /\ slot = Free /\ slot' # Free /\ slot' \in Slot
      /\ slot'.at = "scheduler" /\ slot'.joining = {}
  BY <1>3 DEF Quiesce, Hold, Free, Slot
<1>5. TypeOK'
  BY <1>1, <1>2, <1>4 DEF IInv, TypeOK
<1>6. Located'
  BY <1>1, <1>2, <1>4 DEF IInv, Located, Current, Known, Held, Alive
<1>7. NoJobs'
  BY <1>2, <1>4 DEF IInv, NoJobs, Located, Known, Held, Alive
<1>8. Stages'
  BY <1>1, <1>2, <1>4, <1>7 DEF IInv, Stages
<1> QED BY <1>2, <1>5, <1>6, <1>8, SameTasks DEF IInv

\* Whom a revocation signals stays what it is; an open section stays open.
LEMMA Signals ==
    ASSUME IInv, NEW S, SignalAll(S), started' = started
    PROVE  task' \in [1..started' -> Task] /\ Phases' /\ Quieter
<1>1. \A t \in 1..started : task[t] \in Task /\ PhaseOK(task[t])
  BY DEF IInv, TypeOK, Phases
<1>2. \A r \in Task : PhaseOK(r) =>
        /\ Signalled(r) \in Task /\ PhaseOK(Signalled(r))
        /\ Signalled(r).kind = r.kind /\ Signalled(r).op = r.op
        /\ Signalled(r).epoch = r.epoch /\ Signalled(r).home = r.home
        /\ Signalled(r).pc = r.pc
  <2> SUFFICES ASSUME NEW r \in Task, PhaseOK(r)
               PROVE  /\ Signalled(r) \in Task /\ PhaseOK(Signalled(r))
                      /\ Signalled(r).kind = r.kind /\ Signalled(r).op = r.op
                      /\ Signalled(r).epoch = r.epoch /\ Signalled(r).home = r.home
                      /\ Signalled(r).pc = r.pc
    OBVIOUS
  <2>1. CASE Abortable(r)
    BY <2>1 DEF Signalled, Abortable, PhaseOK, Task
  <2>2. CASE ~Abortable(r) /\ r.phase = "applying"
    BY <2>2 DEF Signalled, PhaseOK, Task
  <2>3. CASE ~Abortable(r) /\ r.phase # "applying"
    BY <2>3 DEF Signalled
  <2> QED BY <2>1, <2>2, <2>3
<1>3. \A t \in 1..started : task'[t] = Signalled(task[t]) \/ task'[t] = task[t]
  BY DEF SignalAll
<1>4. \A t \in 1..started :
        /\ task'[t] \in Task /\ PhaseOK(task'[t])
        /\ task'[t].kind = task[t].kind /\ task'[t].op = task[t].op
        /\ task'[t].epoch = task[t].epoch /\ task'[t].home = task[t].home
        /\ task'[t].pc = task[t].pc
  BY <1>1, <1>2, <1>3
<1>5. task' \in [1..started' -> Task]
  <2>1. task' = [t \in 1..started |-> task'[t]]
    BY DEF SignalAll
  <2> HIDE DEF SignalAll
  <2> QED BY <2>1, <1>4
<1>6. Phases'
  BY <1>4 DEF Phases
<1>7. Quieter
  BY <1>4 DEF Quieter, Alive
<1> QED BY <1>5, <1>6, <1>7

LEMMA SignalJobsStep == ASSUME IInv, SignalJobs PROVE IInv'
<1>1. slot # Free /\ slot.joining = {} /\ jobs \subseteq 1..started
  BY DEF SignalJobs, HoldingAt, IInv, Stages, TypeOK
<1>2. task' \in [1..started' -> Task] /\ Phases' /\ Quieter
  BY Signals DEF SignalJobs
<1>3. slot' \in Slot /\ slot' # Free /\ slot'.at = "close" /\ slot'.joining = jobs
  BY <1>1, Reaches DEF SignalJobs, IInv
<1>4. UNCHANGED <<epoch, runtime, opened, started, passes, awaited>> /\ jobs' = {}
  BY DEF SignalJobs
<1>5. TypeOK'
  BY <1>1, <1>2, <1>3, <1>4 DEF IInv, TypeOK
<1>6. \A t \in 1..started : (Alive(t) => Current(t) /\ Known(t)) => (Alive(t)' => Current(t)' /\ Known(t)')
  BY <1>1, <1>2, <1>3, <1>4 DEF Quieter, Current, Known, Held
<1>7. Located'
  BY <1>4, <1>6 DEF IInv, Located
<1>8. Stages'
  BY <1>3, <1>4 DEF IInv, Stages
<1> QED BY <1>2, <1>5, <1>7, <1>8 DEF IInv

LEMMA BeginAbortStep == ASSUME IInv, BeginAbort PROVE IInv'
<1>1. slot # Free /\ slot.joining \subseteq 1..started
  BY DEF BeginAbort, HoldingAt, IInv, TypeOK
<1>2. UNCHANGED <<epoch, opened, started, passes, jobs, awaited>>
  BY DEF BeginAbort
<1>3. CASE runtime = None
  <2>1. UNCHANGED <<runtime, task>>
    BY <1>3 DEF BeginAbort
  <2>2. slot' \in Slot /\ slot' # Free /\ slot'.at = "join" /\ slot'.joining = slot.joining
    BY <1>1, <1>3, Reaches DEF BeginAbort, IInv
  <2>3. TypeOK'
    BY <1>1, <1>2, <2>1, <2>2 DEF IInv, TypeOK
  <2>4. Located'
    BY <1>2, <1>3, <2>1 DEF IInv, Located, Current, Alive
  <2>5. Stages'
    BY <1>2, <1>3, <2>1, <2>2 DEF IInv, Stages
  <2> QED BY <1>2, <2>1, <2>3, <2>4, <2>5, SameTasks DEF IInv
<1>4. CASE runtime # None
  <2>1. runtime \in Runtime /\ None \notin Runtime /\ runtime.deferred \subseteq 1..started
    BY <1>4, HostedAssumption DEF IInv, TypeOK, Runtime, Epochs, Tasks
  <2>2. task' \in [1..started' -> Task] /\ Phases' /\ Quieter
    BY <1>2, <1>4, Signals DEF BeginAbort
  <2>3. /\ runtime' \in Runtime /\ runtime' # None /\ runtime'.deferred = {}
        /\ runtime'.id = runtime.id /\ runtime'.epoch = runtime.epoch
        /\ runtime'.quiesced = runtime.quiesced
    <3>1. runtime' = [runtime EXCEPT !.closed = TRUE, !.deferred = {}]
      BY <1>4 DEF BeginAbort
    <3> QED BY <2>1, <3>1 DEF Runtime
  <2>4. /\ slot' \in Slot /\ slot' # Free /\ slot'.at = "join"
        /\ slot'.joining = slot.joining \union runtime.deferred
    <3>1. PICK J : J = slot.joining \union runtime.deferred
      OBVIOUS
    <3>2. J \subseteq 1..started /\ Reach("join", J)
      BY <1>1, <1>4, <2>1, <3>1 DEF BeginAbort
    <3> QED BY <1>1, <3>1, <3>2, Reaches DEF IInv
  <2>5. TypeOK'
    <3>1. \A i, j \in jobs : task'[i].epoch = task'[j].epoch /\ task'[i].op = task'[j].op => i = j
      BY <2>2 DEF IInv, TypeOK, Quieter
    <3> QED BY <1>1, <1>2, <2>1, <2>2, <2>3, <2>4, <3>1 DEF IInv, TypeOK
  <2>6. \A t \in 1..started : (Alive(t) => Current(t) /\ Known(t)) => (Alive(t)' => Current(t)' /\ Known(t)')
    BY <1>1, <1>2, <1>4, <2>2, <2>3, <2>4 DEF Quieter, Current, Known, Held
  <2>7. Located'
    BY <1>2, <2>6 DEF IInv, Located
  <2>8. Stages'
    BY <1>2, <1>4, <2>3, <2>4 DEF IInv, Stages
  <2> QED BY <2>2, <2>5, <2>7, <2>8 DEF IInv
<1> QED BY <1>3, <1>4

LEMMA JoiningStep == ASSUME IInv, Joining PROVE IInv'
<1>1. slot # Free /\ \A t \in slot.joining : ~Alive(t)
  BY DEF Joining, HoldingAt, Joined
<1>2. UNCHANGED <<epoch, runtime, opened, task, started, passes, jobs, awaited>>
  BY DEF Joining
<1>3. slot' \in Slot /\ slot' # Free /\ slot'.at = "drain" /\ slot'.joining = {}
  BY <1>1, Reaches DEF Joining, IInv
<1>4. TypeOK'
  BY <1>2, <1>3 DEF IInv, TypeOK
<1>5. Located'
  BY <1>1, <1>2, <1>3 DEF IInv, Located, Current, Known, Held, Alive
<1>6. Stages'
  BY <1>2, <1>3 DEF IInv, Stages
<1> QED BY <1>2, <1>4, <1>5, <1>6, SameTasks DEF IInv

LEMMA DrainJobsStep == ASSUME IInv, DrainJobs PROVE IInv'
<1>1. slot # Free /\ slot.joining = {} /\ jobs \subseteq 1..started
  BY DEF DrainJobs, HoldingAt, IInv, Stages, TypeOK
<1>2. UNCHANGED <<epoch, runtime, opened, task, started, passes, awaited>> /\ jobs' = {}
  BY DEF DrainJobs
<1>3. slot' \in Slot /\ slot' # Free /\ slot'.at = "drained" /\ slot'.joining = jobs
  BY <1>1, Reaches DEF DrainJobs, IInv
<1>4. TypeOK'
  BY <1>1, <1>2, <1>3 DEF IInv, TypeOK
<1>5. Located'
  BY <1>1, <1>2, <1>3 DEF IInv, Located, Current, Known, Held, Alive
<1>6. Stages'
  BY <1>2, <1>3 DEF IInv, Stages
<1> QED BY <1>2, <1>4, <1>5, <1>6, SameTasks DEF IInv

\* Once the jobs are joined, only deferred dreams are left.
LEMMA DrainedStep == ASSUME IInv, Drained PROVE IInv'
<1>1. slot # Free /\ slot.at = "drained" /\ jobs = {} /\ \A t \in slot.joining : ~Alive(t)
  BY DEF Drained, HoldingAt, Joined, IInv, Stages
<1>2. UNCHANGED <<epoch, opened, task, started, passes, jobs, awaited>>
  BY DEF Drained
<1>3. \A t \in 1..started : Alive(t) => Current(t) /\ task[t].kind = "auto" /\ t \in runtime.deferred
  BY <1>1 DEF IInv, Located, Known, Held
<1>4. CASE runtime = None \/ runtime.quiesced
  <2>1. runtime' = runtime
    BY <1>4 DEF Drained
  <2>2. slot' \in Slot /\ slot' # Free /\ slot'.at = "remove" /\ slot'.joining = {}
    BY <1>1, <1>4, Reaches DEF Drained, IInv
  <2>3. TypeOK'
    BY <1>2, <2>1, <2>2 DEF IInv, TypeOK
  <2>4. Located'
    BY <1>2, <1>3, <1>4, <2>1 DEF Located, Current, Alive
  <2>5. Stages'
    BY <1>2, <1>4, <2>1, <2>2 DEF IInv, Stages
  <2> QED BY <1>2, <2>3, <2>4, <2>5, SameTasks DEF IInv
<1>5. CASE ~(runtime = None \/ runtime.quiesced)
  <2>1. /\ runtime' \in Runtime /\ runtime' # None
        /\ runtime'.id = runtime.id /\ runtime'.epoch = runtime.epoch
        /\ runtime'.quiesced = runtime.quiesced
        /\ runtime'.deferred = runtime.deferred
    BY <1>5, Stops DEF IInv, Drained
  <2>2. slot' \in Slot /\ slot' # Free /\ slot'.at = "scheduler" /\ slot'.joining = {}
    BY <1>1, <1>5, Reaches DEF Drained, IInv
  <2>3. TypeOK'
    BY <1>2, <1>5, <2>1, <2>2 DEF IInv, TypeOK
  <2>4. Located'
    BY <1>2, <1>3, <1>5, <2>1, <2>2 DEF Located, Current, Known, Held, Alive
  <2>5. NoJobs'
    BY <1>1, <1>2, <1>3 DEF NoJobs, Alive
  <2>6. Stages'
    BY <1>2, <1>5, <2>1, <2>2, <2>5 DEF IInv, Stages
  <2> QED BY <1>2, <2>3, <2>4, <2>6, SameTasks DEF IInv
<1> QED BY <1>4, <1>5

LEMMA SchedulerStoppedStep == ASSUME IInv, SchedulerStopped PROVE IInv'
<1>1. slot # Free /\ slot.at = "scheduler" /\ slot.joining = {} /\ runtime # None /\ NoJobs
  BY DEF SchedulerStopped, HoldingAt, IInv, Stages
<1>2. UNCHANGED <<epoch, opened, task, started, passes, jobs, awaited>>
  BY DEF SchedulerStopped
<1>3. runtime \in Runtime /\ None \notin Runtime /\ runtime.deferred \subseteq 1..started
  BY <1>1, HostedAssumption DEF IInv, TypeOK, Runtime, Epochs, Tasks
<1>4. /\ runtime' \in Runtime /\ runtime' # None /\ runtime'.deferred = {}
      /\ runtime'.id = runtime.id /\ runtime'.epoch = runtime.epoch
      /\ runtime'.quiesced = runtime.quiesced
  BY <1>3 DEF SchedulerStopped, Runtime
<1>5. /\ slot' \in Slot /\ slot' # Free /\ slot'.at = "deferred"
      /\ slot'.joining = runtime.deferred
  BY <1>1, <1>3, Reaches DEF SchedulerStopped, IInv
<1>6. TypeOK'
  BY <1>2, <1>3, <1>4, <1>5 DEF IInv, TypeOK
<1>7. Located'
  BY <1>1, <1>2, <1>4, <1>5 DEF IInv, Located, Current, Known, Held, Alive, NoJobs
<1>8. NoJobs'
  BY <1>1, <1>2 DEF NoJobs, Alive
<1>9. Stages'
  BY <1>2, <1>4, <1>5, <1>8, <1>1 DEF IInv, Stages
<1> QED BY <1>2, <1>6, <1>7, <1>9, SameTasks DEF IInv

\* ... and once those are joined, nothing.
LEMMA DeferredDrainedStep == ASSUME IInv, DeferredDrained PROVE IInv'
<1>1. /\ slot # Free /\ slot.at = "deferred" /\ runtime # None /\ NoJobs
      /\ runtime.deferred = {} /\ \A t \in slot.joining : ~Alive(t)
  BY DEF DeferredDrained, HoldingAt, Joined, IInv, Stages
<1>2. UNCHANGED <<epoch, runtime, opened, task, started, passes, jobs, awaited>>
  BY DEF DeferredDrained
<1>3. \A t \in 1..started : ~Alive(t)
  BY <1>1 DEF IInv, Located, Known, Held, NoJobs
<1>4. slot' \in Slot /\ slot' # Free /\ slot'.at = "flush" /\ slot'.joining = {}
  BY <1>1, Reaches DEF DeferredDrained, IInv
<1>5. TypeOK'
  BY <1>2, <1>4 DEF IInv, TypeOK
<1>6. Located' /\ NoJobs' /\ \A t \in 1..started' : ~Alive(t)'
  BY <1>1, <1>2, <1>3 DEF Located, Alive, NoJobs
<1>7. Stages'
  BY <1>1, <1>2, <1>4, <1>6 DEF IInv, Stages
<1> QED BY <1>2, <1>5, <1>6, <1>7, SameTasks DEF IInv

LEMMA FlushStep == ASSUME IInv, Flush PROVE IInv'
<1>1. slot # Free /\ slot.at = "flush" /\ runtime # None /\ \A t \in 1..started : ~Alive(t)
  BY DEF Flush, HoldingAt, IInv, Stages
<1>2. UNCHANGED <<epoch, opened, task, started, passes, jobs, awaited>>
  BY DEF Flush
<1>3. /\ runtime' \in Runtime /\ runtime' # None /\ runtime'.quiesced
      /\ runtime'.epoch = runtime.epoch /\ runtime'.deferred = runtime.deferred
  BY <1>1, HostedAssumption DEF Flush, IInv, TypeOK, Runtime, Epochs, Tasks
<1>4. \/ slot' = Free
      \/ slot' \in Slot /\ slot' # Free /\ slot'.at = "remove" /\ slot'.joining = {}
  BY <1>1, Reaches DEF Flush, IInv
<1>5. TypeOK'
  BY <1>1, <1>2, <1>3, <1>4 DEF IInv, TypeOK
<1>6. Located'
  BY <1>1, <1>2 DEF Located, Alive
<1>7. Stages'
  BY <1>1, <1>2, <1>3, <1>4 DEF IInv, Stages
<1> QED BY <1>2, <1>5, <1>6, <1>7, SameTasks DEF IInv

LEMMA FlushFailsStep == ASSUME IInv, FlushFails PROVE IInv'
<1>1. slot # Free /\ slot.at = "flush" /\ \A t \in 1..started : ~Alive(t)
  BY DEF FlushFails, HoldingAt, IInv, Stages
<1>2. UNCHANGED <<epoch, runtime, opened, task, started, passes, jobs, awaited>> /\ slot' = Free
  BY DEF FlushFails
<1>3. TypeOK'
  BY <1>2 DEF IInv, TypeOK
<1>4. Located'
  BY <1>1, <1>2 DEF Located, Alive
<1>5. Stages'
  BY <1>2 DEF IInv, Stages
<1> QED BY <1>2, <1>3, <1>4, <1>5, SameTasks DEF IInv

\* A task could only be alive in a runtime that is not sealed.
LEMMA RemoveStep == ASSUME IInv, Remove PROVE IInv'
<1>1. slot # Free /\ slot.at = "remove" /\ (runtime = None \/ runtime.quiesced)
  BY DEF Remove, HoldingAt, IInv, Stages
<1>2. UNCHANGED <<opened, task, started, passes, jobs, awaited>> /\ runtime' = None
  BY DEF Remove
<1>3. \A t \in 1..started : ~Alive(t)
  BY <1>1 DEF IInv, Located, Current
<1>4. \/ slot' = Free
      \/ slot' \in Slot /\ slot' # Free /\ slot'.at = "open" /\ slot'.joining = {}
  BY <1>1, Reaches DEF Remove, IInv
<1>5. epoch' \in Epochs \union {-1}
  BY <1>1 DEF Remove, IInv, TypeOK, Slot
<1>6. TypeOK'
  BY <1>2, <1>4, <1>5 DEF IInv, TypeOK
<1>7. Located'
  BY <1>2, <1>3 DEF Located, Alive
<1>8. Stages'
  BY <1>2, <1>4 DEF Stages
<1> QED BY <1>2, <1>6, <1>7, <1>8, SameTasks DEF IInv

LEMMA OpenRuntimeStep == ASSUME IInv, OpenRuntime PROVE IInv'
<1>1. slot # Free /\ slot.at = "open" /\ runtime = None /\ slot \in Slot
  BY DEF OpenRuntime, HoldingAt, IInv, Stages, TypeOK
<1>2. UNCHANGED <<task, started, passes, jobs, awaited>> /\ slot' = Free /\ epoch' = slot.epoch
  BY DEF OpenRuntime
<1>3. opened' \in 1..MaxRuntimes
  BY HostedAssumption DEF OpenRuntime, IInv, TypeOK
<1>4. runtime' \in Runtime /\ runtime'.epoch = slot.epoch /\ runtime'.deferred = {}
  BY <1>1, <1>3 DEF OpenRuntime, Runtime, Slot, Tasks
<1>5. TypeOK'
  BY <1>1, <1>2, <1>3, <1>4, HostedAssumption DEF IInv, TypeOK, Slot
<1>6. Located'
  BY <1>1, <1>2 DEF IInv, Located, Current, Alive
<1>7. Stages'
  BY <1>2, <1>4 DEF Stages
<1> QED BY <1>2, <1>5, <1>6, <1>7, SameTasks DEF IInv

LEMMA OpenFailsStep == ASSUME IInv, OpenFails PROVE IInv'
<1>1. slot # Free /\ slot.at = "open" /\ runtime = None
  BY DEF OpenFails, HoldingAt, IInv, Stages
<1>2. UNCHANGED <<epoch, runtime, opened, task, started, passes, jobs, awaited>> /\ slot' = Free
  BY DEF OpenFails
<1>3. TypeOK'
  BY <1>2 DEF IInv, TypeOK
<1>4. Located'
  BY <1>1, <1>2 DEF IInv, Located, Current, Alive
<1>5. Stages'
  BY <1>1, <1>2 DEF Stages
<1> QED BY <1>2, <1>3, <1>4, <1>5, SameTasks DEF IInv

-----------------------------------------------------------------------------
(* The invariant *)

LEMMA Initial == Init => IInv
<1> SUFFICES ASSUME Init PROVE IInv
  OBVIOUS
<1>1. MaxTasks \in Nat /\ MaxPasses \in Nat /\ MaxRuntimes \in Nat
  BY HostedAssumption
<1>2. 1..started = {} /\ task = [t \in {} |-> None]
  BY DEF Init
<1>3. task \in [1..started -> Task]
  BY <1>2
<1>4. TypeOK
  BY <1>1, <1>2, <1>3 DEF Init, TypeOK
<1>5. Phases /\ Located
  BY <1>2 DEF Phases, Located
<1>6. Stages
  BY DEF Init, Stages
<1> QED BY <1>4, <1>5, <1>6 DEF IInv

LEMMA TaskSteps == ASSUME IInv, NEW t \in Tasks, TaskStep(t) \/ Cancel(t) PROVE IInv'
BY ReturnStep, EnterDurableStep, TrackStep, NextSubjectStep, NoAnswerStep, BeginApplyStep,
   PersistStep, RetireStep, ApplyFailsStep, TriggerStep, TriggerSpawnStep, IdleStep,
   CancelStep DEF TaskStep

LEMMA SchedulerSteps == ASSUME IInv, SchedulerStep \/ Leave PROVE IInv'
<1>1. CASE Tick
  BY <1>1, LoopStep DEF Tick
<1>2. CASE TickSpawn
  BY <1>2, TickSpawnStep
<1>3. CASE Off
  BY <1>3, LoopStep DEF Off
<1>4. CASE Leave
  BY <1>4, LoopStep DEF Leave
<1> QED BY <1>1, <1>2, <1>3, <1>4 DEF SchedulerStep

LEMMA AskSteps == ASSUME IInv, Ask PROVE IInv'
<1>1. ASSUME NEW e \in Epochs, Open(e) PROVE IInv'
  BY <1>1, HoldStep DEF Open
<1>2. ASSUME NEW e \in Epochs, Revoke(e) PROVE IInv'
  BY <1>2, HoldStep DEF Revoke
<1>3. CASE Close
  <2>1. epoch \in Epochs
    BY <1>3 DEF IInv, TypeOK, Close, Live, Runtime
  <2> QED BY <1>3, <2>1, HoldStep DEF Close
<1> QED BY <1>1, <1>2, <1>3, QuiesceStep DEF Ask

LEMMA ProceedSteps == ASSUME IInv, Proceed PROVE IInv'
BY SignalJobsStep, BeginAbortStep, JoiningStep, DrainJobsStep, DrainedStep,
   SchedulerStoppedStep, DeferredDrainedStep, FlushStep, FlushFailsStep, RemoveStep,
   OpenRuntimeStep, OpenFailsStep DEF Proceed

LEMMA Inductive == IInv /\ [Next]_vars => IInv'
<1> SUFFICES ASSUME IInv, [Next]_vars PROVE IInv'
  OBVIOUS
<1>1. ASSUME NEW t \in Tasks, TaskStep(t) \/ Cancel(t) PROVE IInv'
  BY <1>1, TaskSteps
<1>2. ASSUME NEW r \in 1..MaxRuntimes, PassEnds(r) PROVE IInv'
  BY <1>2, PassEndsStep
<1>3. CASE SchedulerStep \/ Leave
  BY <1>3, SchedulerSteps
<1>4. CASE Quick
  BY <1>4, SubmitStep, BeginAwaitStep, FinishAwaitStep DEF Quick
<1>5. CASE Ask
  BY <1>5, AskSteps
<1>6. CASE Proceed
  BY <1>6, ProceedSteps
<1>7. CASE UNCHANGED vars
  <2>1. UNCHANGED <<task, started>> /\ SameEngine
    BY <1>7 DEF vars, SameEngine
  <2>2. SameRuntime /\ passes' \in [1..MaxRuntimes -> 0..MaxPasses]
    BY <1>7 DEF vars, SameRuntime, IInv, TypeOK
  <2> QED BY <2>1, <2>2, NoTask
<1> QED BY <1>1, <1>2, <1>3, <1>4, <1>5, <1>6, <1>7 DEF Next

LEMMA Invariance == Spec => []IInv
BY Initial, Inductive, PTL DEF Spec

-----------------------------------------------------------------------------
(* Theorems *)

\* Type correctness; with it, no two jobs of the engine's map have one key.
THEOREM TypeCorrect == Spec => []TypeOK
<1>1. IInv => TypeOK
  BY DEF IInv
<1> QED BY <1>1, Invariance, PTL

\* No job, and no dream that one deferred, outlives the runtime it was started
\* in or the epoch it was started at, whatever is asked of the scope and however
\* many jobs there are (engine.rs, replace_scope and revoke).
THEOREM EpochsFenced == Spec => []LiveIsCurrent
<1>1. IInv => LiveIsCurrent
  BY DEF IInv, Located, Stages, Current, LiveIsCurrent
<1> QED BY <1>1, Invariance, PTL

\* No revocation cuts an apply section (write_phase.rs, revoke).
THEOREM SubjectsWhole == Spec => []SubjectWhole
<1>1. IInv => SubjectWhole
  BY DEF IInv, Phases, PhaseOK, SubjectWhole
<1> QED BY <1>1, Invariance, PTL

-----------------------------------------------------------------------------
(* Generations *)

\* A runtime that has begun to stop has no jobs, and whoever holds the slot
\* has not asked for an epoch that is over.
Ordered ==
    /\ runtime # None =>
        /\ runtime.id = opened
        /\ runtime.quiesced => ~runtime.accepting
        /\ ~runtime.accepting => NoJobs
    /\ slot # Free =>
        /\ slot.epoch >= epoch
        /\ slot.at \in {"scheduler", "deferred", "flush"} => ~runtime.accepting

State ==
    IF runtime = None THEN "none"
    ELSE IF runtime.quiesced THEN "sealed"
    ELSE IF runtime.accepting THEN "open" ELSE "stopped"

Within == [t \in {u \in 1..started : Alive(u)} |-> <<task[t].home, task[t].epoch>>]
Over == {u \in 1..started : ~Alive(u)}

Stutter == UNCHANGED <<opened, epoch, State, Within, Over>>
Generation == G!Next \/ Stutter

LEMMA Stutters == Stutter => UNCHANGED G!vars
BY DEF Stutter, G!vars, State, Within, Over

\* What no step of a task, of the scheduler or of a pass changes.
SameGeneration ==
    /\ UNCHANGED <<epoch, opened, slot>>
    /\ jobs' \subseteq jobs
    /\ runtime = None <=> runtime' = None
    /\ runtime # None =>
        /\ runtime'.id = runtime.id
        /\ runtime'.quiesced = runtime.quiesced
        /\ runtime'.accepting = runtime.accepting

LEMMA SameEngineSameGeneration == UNCHANGED engine => SameGeneration
BY DEF engine, SameGeneration

LEMMA StillOrdered ==
    ASSUME Ordered, Quieter, SameGeneration
    PROVE  Ordered'
<1>1. NoJobs => NoJobs'
  BY DEF NoJobs, Quieter, SameGeneration
<1> QED BY <1>1 DEF Ordered, SameGeneration

\* Who writes, where and when, while no task begins or ends.
LEMMA SameWriters ==
    ASSUME Quieter, \A t \in 1..started : Alive(t) => Alive(t)'
    PROVE  UNCHANGED <<Within, Over>>
<1>1. started' = started /\ \A t \in 1..started : Alive(t)' <=> Alive(t)
  BY DEF Quieter
<1>2. {u \in 1..started : Alive(u)}' = {u \in 1..started : Alive(u)}
  BY <1>1
<1>3. \A t \in 1..started : task'[t].home = task[t].home /\ task'[t].epoch = task[t].epoch
  BY DEF Quieter
<1>4. Within' = Within
  BY <1>2, <1>3 DEF Within
<1>5. Over' = Over
  BY <1>1 DEF Over
<1> QED BY <1>4, <1>5

LEMMA SameState == SameGeneration => UNCHANGED <<opened, epoch, State>>
BY DEF SameGeneration, State

\* One task goes on, or leaves.
Moves(t) ==
    /\ t \in 1..started
    /\ Alive(t)
    /\ Quieter
    /\ \A u \in 1..started \ {t} : task'[u] = task[u]

LEMMA OneMoves ==
    ASSUME IInv, NEW t \in Tasks, Moves(t), SameGeneration
    PROVE  Generation
<1>1. \A u \in 1..started \ {t} : Alive(u)' <=> Alive(u)
  BY DEF Moves, Quieter, Alive
<1>2. UNCHANGED <<opened, epoch, State>>
  BY SameState
<1>3. CASE Alive(t)'
  <2>1. \A u \in 1..started : Alive(u) => Alive(u)'
    BY <1>1, <1>3
  <2>2. UNCHANGED <<Within, Over>>
    BY <2>1, SameWriters DEF Moves
  <2> QED BY <1>2, <2>2 DEF Generation, Stutter
<1>4. CASE ~Alive(t)'
  <2>1. started' = started /\ t \in 1..started /\ Alive(t)
    BY DEF Moves, Quieter
  <2>2. {u \in 1..started : Alive(u)}' = {u \in 1..started : Alive(u)} \ {t}
    BY <1>1, <1>4, <2>1
  <2>3. Within' = [u \in DOMAIN Within \ {t} |-> Within[u]]
    <3>1. DOMAIN Within = {u \in 1..started : Alive(u)}
      BY DEF Within
    <3>2. \A u \in 1..started : task'[u].home = task[u].home /\ task'[u].epoch = task[u].epoch
      BY DEF Moves, Quieter
    <3>3. \A u \in DOMAIN Within : Within[u] = <<task'[u].home, task'[u].epoch>>
      BY <3>1, <3>2 DEF Within
    <3> QED BY <2>2, <3>1, <3>3 DEF Within
  <2>4. Over' = Over \union {t}
    BY <1>1, <1>4, <2>1 DEF Over
  <2>5. t \in DOMAIN Within
    BY <2>1 DEF Within
  <2>6. G!Leave(t)
    BY <1>2, <2>3, <2>4, <2>5 DEF G!Leave, State, Within, Over
  <2> QED BY <2>6 DEF Generation, G!Next
<1> QED BY <1>3, <1>4

\* A step that changes the record of t and no more.
LEMMA ItsStep ==
    ASSUME IInv, NEW t, t \in 1..started, Alive(t), started' = started,
           NEW r, task' = [task EXCEPT ![t] = r],
           r.kind = task[t].kind, r.op = task[t].op,
           r.epoch = task[t].epoch, r.home = task[t].home
    PROVE  Moves(t)
<1>1. task \in [1..started -> Task]
  BY DEF IInv, TypeOK
<1>2. \A u \in 1..started : u # t => task'[u] = task[u]
  BY <1>1
<1>3. task'[t] = r
  BY <1>1
<1>4. \A u \in 1..started : Alive(u)' => Alive(u)
  BY <1>2 DEF Alive
<1> QED BY <1>2, <1>3, <1>4 DEF Moves, Quieter

LEMMA ItGoes ==
    ASSUME IInv, NEW t \in 1..started, Alive(t), started' = started, NEW pc, Go(t, pc)
    PROVE  Moves(t)
<1> DEFINE r == [task[t] EXCEPT !.pc = pc]
<1>1. task[t] \in Task
  BY DEF IInv, TypeOK
<1>2. /\ r.kind = task[t].kind /\ r.op = task[t].op
      /\ r.epoch = task[t].epoch /\ r.home = task[t].home
  BY <1>1 DEF Task
<1>3. task' = [task EXCEPT ![t] = r]
  BY DEF Go
<1> HIDE DEF r
<1> QED BY <1>2, <1>3, ItsStep

-----------------------------------------------------------------------------
(* What each step is to the generation *)

\* A pass that starts.
LEMMA SpawnedSame ==
    ASSUME IInv, runtime # None, NEW sched \in {"select", "spawn", "leave", "off"},
           SpawnPass(sched)
    PROVE  SameGeneration
BY HostedAssumption DEF IInv, TypeOK, SpawnPass, SameGeneration, Runtime, Epochs, Tasks

\* The steps of a task that defers none leave the engine, but for the
\* scheduler, alone.
LEMMA TaskMovesOn ==
    ASSUME IInv, NEW t \in Tasks, TaskStep(t) \/ Cancel(t), ~Track(t)
    PROVE  Moves(t) /\ SameGeneration
<1>1. ASSUME Cancel(t) PROVE Moves(t)
  <2>1. t \in 1..started /\ Alive(t) /\ started' = started
    BY <1>1 DEF Cancel, Alive, IInv, TypeOK, Tasks
  <2> QED BY <1>1, <2>1, ItGoes DEF Cancel
<1>2. ASSUME Return(t) PROVE Moves(t)
  <2>1. t \in 1..started /\ Alive(t) /\ started' = started
    BY <1>2, Known_At DEF Return
  <2> QED BY <1>2, <2>1, ItGoes DEF Return, End
<1>3. ASSUME EnterDurable(t) PROVE Moves(t)
  <2> DEFINE r == IF Revoked(task[t]) THEN [task[t] EXCEPT !.pc = "ended"]
                  ELSE [task[t] EXCEPT !.pc = "tail", !.phase = "durable"]
  <2>1. t \in 1..started /\ Alive(t) /\ task[t] \in Task /\ started' = started
    BY <1>3, Known_At DEF EnterDurable
  <2>2. /\ r.kind = task[t].kind /\ r.op = task[t].op
        /\ r.epoch = task[t].epoch /\ r.home = task[t].home
    BY <2>1 DEF Task
  <2>3. task' = [task EXCEPT ![t] = r]
    BY <1>3 DEF EnterDurable
  <2> HIDE DEF r
  <2> QED BY <2>1, <2>2, <2>3, ItsStep
<1>4. ASSUME NextSubject(t) PROVE Moves(t)
  <2>1. t \in 1..started /\ Alive(t) /\ started' = started
    BY <1>4, Known_At DEF NextSubject
  <2> QED BY <1>4, <2>1, ItGoes DEF NextSubject, End
<1>5. ASSUME NoAnswer(t) PROVE Moves(t)
  <2>1. t \in 1..started /\ Alive(t) /\ started' = started
    BY <1>5, Known_At DEF NoAnswer
  <2> QED BY <1>5, <2>1, ItGoes DEF NoAnswer, End
<1>6. ASSUME BeginApply(t) PROVE Moves(t)
  <2> DEFINE r == IF Revoked(task[t]) THEN [task[t] EXCEPT !.pc = "ended"]
                  ELSE [task[t] EXCEPT !.pc = "section", !.phase = "applying"]
  <2>1. t \in 1..started /\ Alive(t) /\ task[t] \in Task /\ started' = started
    BY <1>6, Known_At DEF BeginApply
  <2>2. /\ r.kind = task[t].kind /\ r.op = task[t].op
        /\ r.epoch = task[t].epoch /\ r.home = task[t].home
    BY <2>1 DEF Task
  <2>3. task' = [task EXCEPT ![t] = r]
    BY <1>6 DEF BeginApply
  <2> HIDE DEF r
  <2> QED BY <2>1, <2>2, <2>3, ItsStep
<1>7. ASSUME Persist(t) PROVE Moves(t)
  <2> DEFINE r == [task[t] EXCEPT !.half = TRUE]
  <2>1. t \in 1..started /\ Alive(t) /\ task[t] \in Task /\ started' = started
    BY <1>7, Known_At DEF Persist
  <2>2. /\ r.kind = task[t].kind /\ r.op = task[t].op
        /\ r.epoch = task[t].epoch /\ r.home = task[t].home
    BY <2>1 DEF Task
  <2>3. task' = [task EXCEPT ![t] = r]
    BY <1>7 DEF Persist
  <2> HIDE DEF r
  <2> QED BY <2>1, <2>2, <2>3, ItsStep
<1>8. ASSUME Retire(t) PROVE Moves(t)
  <2> DEFINE r == [EndApply(task[t]) EXCEPT !.pc = "run", !.half = FALSE]
  <2>1. t \in 1..started /\ Alive(t) /\ task[t] \in Task /\ started' = started
    BY <1>8, Known_At DEF Retire
  <2>2. /\ r.kind = task[t].kind /\ r.op = task[t].op
        /\ r.epoch = task[t].epoch /\ r.home = task[t].home
    BY <2>1 DEF Task, EndApply
  <2>3. task' = [task EXCEPT ![t] = r]
    BY <1>8 DEF Retire
  <2> HIDE DEF r
  <2> QED BY <2>1, <2>2, <2>3, ItsStep
<1>9. ASSUME ApplyFails(t) PROVE Moves(t)
  <2> DEFINE r == [EndApply(task[t]) EXCEPT !.pc = "ended"]
  <2>1. t \in 1..started /\ Alive(t) /\ task[t] \in Task /\ started' = started
    BY <1>9, Known_At DEF ApplyFails
  <2>2. /\ r.kind = task[t].kind /\ r.op = task[t].op
        /\ r.epoch = task[t].epoch /\ r.home = task[t].home
    BY <2>1 DEF Task, EndApply
  <2>3. task' = [task EXCEPT ![t] = r]
    BY <1>9 DEF ApplyFails
  <2> HIDE DEF r
  <2> QED BY <2>1, <2>2, <2>3, ItsStep
<1>10. ASSUME Trigger(t) PROVE Moves(t)
  <2>1. t \in 1..started /\ Alive(t) /\ started' = started
    BY <1>10, Known_At DEF Trigger
  <2> QED BY <1>10, <2>1, ItGoes DEF Trigger
<1>11. ASSUME TriggerSpawn(t) PROVE Moves(t) /\ SameGeneration
  <2>1. t \in 1..started /\ Alive(t) /\ started' = started
    BY <1>11, Known_At DEF TriggerSpawn, SpawnPass
  <2>2. Moves(t)
    BY <1>11, <2>1, ItGoes DEF TriggerSpawn
  <2>3. SpawnPass(runtime.sched) /\ runtime # None
    BY <1>11 DEF TriggerSpawn, Here
  <2>4. runtime.sched \in {"select", "spawn", "leave", "off"}
    BY <2>3 DEF IInv, TypeOK, Runtime
  <2> QED BY <2>2, <2>3, <2>4, SpawnedSame
<1>12. ASSUME Idle(t) PROVE Moves(t)
  <2>1. t \in 1..started /\ Alive(t) /\ started' = started
    BY <1>12, Known_At DEF Idle
  <2> QED BY <1>12, <2>1, ItGoes DEF Idle, End
<1>13. ~TriggerSpawn(t) => UNCHANGED engine
  BY DEF TaskStep, Cancel, Return, EnterDurable, NextSubject, NoAnswer, BeginApply,
         Persist, Retire, ApplyFails, Trigger, Idle
<1> QED
  BY <1>1, <1>2, <1>3, <1>4, <1>5, <1>6, <1>7, <1>8, <1>9, <1>10, <1>11, <1>12, <1>13,
     SameEngineSameGeneration DEF TaskStep

\* Neither do the steps of the scheduler.
LEMMA SchedulerSame ==
    ASSUME IInv, (\E r \in 1..MaxRuntimes : PassEnds(r)) \/ SchedulerStep \/ Leave
    PROVE  UNCHANGED <<task, started>> /\ SameGeneration
<1>1. runtime \in Runtime \union {None} /\ None \notin Runtime
  BY HostedAssumption DEF IInv, TypeOK, Runtime, Epochs, Tasks
<1>2. ASSUME NEW r \in 1..MaxRuntimes, PassEnds(r)
      PROVE  UNCHANGED <<task, started>> /\ SameGeneration
  BY <1>1, <1>2 DEF PassEnds, SameGeneration, Runtime
<1>3. ASSUME NEW from, NEW to \in {"select", "spawn", "leave", "off"}, Loop(from, to)
      PROVE  UNCHANGED <<task, started>> /\ SameGeneration
  BY <1>1, <1>3 DEF Loop, SameGeneration, Runtime
<1>4. CASE TickSpawn
  BY <1>4, SpawnedSame DEF TickSpawn, SpawnPass
<1> QED BY <1>2, <1>3, <1>4 DEF SchedulerStep, Tick, Off, Leave

\* A task begins: a writer enters.
LEMMA TaskBegins ==
    ASSUME IInv, NEW kind \in Kinds, NEW op \in Ops \union {NoOp},
           Start(New(kind, op, epoch, opened)), State = "open", epoch \in Epochs,
           opened \in 1..MaxRuntimes, UNCHANGED <<opened, epoch, State>>
    PROVE  /\ Generation
           /\ started' = started + 1
           /\ \A u \in 1..started : task'[u] = task[u] /\ (Alive(u)' => Alive(u))
<1>0. PICK n, r : n = started + 1 /\ r = New(kind, op, epoch, opened)
  OBVIOUS
<1>1. r \in Task /\ PhaseOK(r) /\ Start(r) /\ r.pc = "run" /\ r.home = opened /\ r.epoch = epoch
  BY <1>0 DEF New, Task, PhaseOK
<1>2. /\ started' = n /\ n \in 1..MaxTasks
      /\ \A u \in 1..started : task'[u] = task[u] /\ (Alive(u)' => Alive(u))
      /\ task'[n] = r
  BY <1>0, <1>1, NewTask DEF IInv
<1>3. started \in Nat
  BY DEF IInv, TypeOK
<1>4. \A u \in 1..started : Alive(u)' <=> Alive(u)
  BY <1>0, <1>2, <1>3 DEF Alive
<1>5. Alive(n)'
  BY <1>0, <1>1, <1>2, <1>3 DEF Alive
<1>6. 1..started' = 1..started \union {n} /\ n \notin 1..started
  BY <1>0, <1>2, <1>3
<1>7. {u \in 1..started : Alive(u)}' = {u \in 1..started : Alive(u)} \union {n}
  BY <1>4, <1>5, <1>6
<1>8. Within' = [u \in DOMAIN Within \union {n} |-> IF u = n THEN <<opened, epoch>> ELSE Within[u]]
  <2>1. DOMAIN Within = {u \in 1..started : Alive(u)}
    BY DEF Within
  <2>2. <<task'[n].home, task'[n].epoch>> = <<opened, epoch>>
    BY <1>1, <1>2
  <2>3. \A u \in DOMAIN Within : Within[u] = <<task'[u].home, task'[u].epoch>> /\ u # n
    BY <1>2, <1>6, <2>1 DEF Within
  <2> QED BY <1>7, <2>1, <2>2, <2>3 DEF Within
<1>9. Over' = Over
  BY <1>4, <1>5, <1>6 DEF Over
<1>10. n \notin DOMAIN Within \union Over
  BY <1>6 DEF Within, Over
<1>11. G!Enter(n)
  BY <1>8, <1>9, <1>10 DEF G!Enter, State, Within, Over
<1>12. n \in Tasks
  BY <1>2 DEF Tasks
<1> QED BY <1>0, <1>2, <1>11, <1>12 DEF Generation, G!Next

LEMMA TrackBegins == ASSUME IInv, Ordered, NEW t \in Tasks, Track(t) PROVE Generation /\ Ordered'
<1>1. t \in 1..started /\ Alive(t) /\ task[t] \in Task /\ task[t].kind = "store"
  BY Known_At DEF Track, At
<1>2. runtime \in Runtime /\ None \notin Runtime /\ runtime # None
  BY HostedAssumption DEF IInv, TypeOK, Track, Here, Runtime, Epochs, Tasks
<1>3. Current(t) /\ runtime.epoch = epoch
  BY <1>1, <1>2 DEF IInv, Located, Stages
<1>4. /\ runtime.accepting /\ runtime.id = opened
      /\ task[t].epoch = epoch /\ task[t].home = opened
  BY <1>1, <1>2, <1>3 DEF Ordered, NoJobs, Current
<1>5. /\ runtime' # None
      /\ runtime'.id = runtime.id /\ runtime'.accepting = runtime.accepting
      /\ runtime'.quiesced = runtime.quiesced
  <2>1. runtime' = [runtime EXCEPT !.deferred = @ \union {started'}]
    BY DEF Track
  <2>2. started' \in Tasks
    BY HostedAssumption DEF Track, Start, IInv, TypeOK, Tasks
  <2>3. runtime' \in Runtime
    BY <1>2, <2>1, <2>2 DEF Runtime
  <2> QED BY <1>2, <2>1, <2>3 DEF Runtime
<1>6. UNCHANGED <<epoch, opened, slot>>
  BY DEF Track
<1>7. State = "open" /\ UNCHANGED <<opened, epoch, State>>
  BY <1>2, <1>3, <1>4, <1>5, <1>6 DEF State, Current
<1>8. Start(New("auto", NoOp, epoch, opened)) /\ epoch \in Epochs /\ opened \in 1..MaxRuntimes
  BY <1>1, <1>4 DEF Track, Task
<1>9. Generation
  BY <1>7, <1>8, TaskBegins DEF Kinds
<1>10. Ordered'
  BY <1>2, <1>3, <1>4, <1>5, <1>6 DEF Ordered, Current
<1> QED BY <1>9, <1>10

LEMMA SubmitBegins ==
    ASSUME IInv, Ordered, NEW kind \in JobKinds, NEW op \in Ops, Submit(kind, op)
    PROVE  Generation /\ Ordered'
<1>1. /\ runtime \in Runtime /\ runtime # None /\ runtime.epoch = epoch /\ ~runtime.quiesced
      /\ runtime.accepting /\ slot = Free
  BY DEF IInv, TypeOK, Submit, Live
<1>2. UNCHANGED <<epoch, runtime, opened, slot>>
  BY DEF Submit
<1>3. runtime.id = opened
  BY <1>1 DEF Ordered
<1>4. State = "open" /\ UNCHANGED <<opened, epoch, State>>
  BY <1>1, <1>2 DEF State
<1>5. Start(New(kind, op, epoch, opened)) /\ epoch \in Epochs /\ opened \in 1..MaxRuntimes
  BY <1>1, <1>3 DEF Submit, Runtime
<1>6. Generation
  BY <1>4, <1>5, TaskBegins DEF Kinds
<1>7. Ordered'
  BY <1>1, <1>2, <1>3 DEF Ordered
<1> QED BY <1>6, <1>7

\* A revocation signals tasks and ends none.
LEMMA SignalsEndNone ==
    ASSUME IInv, NEW S, SignalAll(S), started' = started
    PROVE  Quieter /\ \A t \in 1..started : Alive(t) => Alive(t)'
<1>1. \A t \in 1..started : task[t] \in Task
  BY DEF IInv, TypeOK
<1>2. \A r \in Task : Signalled(r).pc = r.pc
  BY DEF Signalled, Task
<1>3. \A t \in 1..started : task'[t].pc = task[t].pc
  BY <1>1, <1>2 DEF SignalAll
<1>4. \A t \in 1..started : Alive(t) => Alive(t)'
  BY <1>3 DEF Alive
<1> QED BY <1>4, Signals

\* A request that takes the slot, and starts nothing yet.
LEMMA HoldWaits ==
    ASSUME IInv, Ordered, NEW op \in {"open", "close", "revoke"}, NEW e \in Epochs,
           NEW at \in {"signal", "drain"}, Hold(op, e, at), e >= epoch,
           UNCHANGED <<epoch, runtime, opened, task, started, passes, jobs, awaited>>
    PROVE  Generation /\ Ordered'
<1>1. slot'.at = at /\ slot'.epoch = e
  BY DEF Hold
<1>2. Ordered'
  BY <1>1 DEF Ordered, NoJobs, Alive
<1>3. Stutter
  BY DEF Stutter, State, Within, Over, Alive
<1> QED BY <1>2, <1>3 DEF Generation

\* The slot is held on, or given back, and the runtime is not touched.
LEMMA SlotOnly ==
    ASSUME IInv, Ordered, UNCHANGED <<epoch, runtime, opened, task, started>>, jobs' \subseteq jobs,
           \/ slot' = Free
           \/ /\ slot # Free /\ slot'.epoch = slot.epoch
              /\ slot'.at \in {"scheduler", "deferred", "flush"}
                    => slot.at \in {"scheduler", "deferred", "flush"}
    PROVE  Generation /\ Ordered'
<1>1. NoJobs => NoJobs'
  BY DEF NoJobs, Alive
<1>2. Ordered'
  BY <1>1 DEF Ordered
<1>3. Stutter
  BY DEF Stutter, State, Within, Over, Alive
<1> QED BY <1>2, <1>3 DEF Generation

\* The runtime begins to stop, when it has no jobs.
LEMMA StopsGeneration ==
    ASSUME IInv, Ordered, runtime # None, ~runtime.quiesced, Stopping, NoJobs,
           UNCHANGED <<epoch, opened, task, started, jobs>>, slot'.epoch >= epoch
    PROVE  Generation /\ Ordered'
<1>1. /\ runtime' # None /\ runtime'.id = runtime.id
      /\ runtime'.quiesced = runtime.quiesced
  BY Stops DEF IInv
<1>2. ~runtime'.accepting
  BY DEF Stopping, IInv, TypeOK, Runtime
<1>3. NoJobs'
  BY DEF NoJobs, Alive
<1>4. Ordered'
  BY <1>1, <1>2, <1>3 DEF Ordered
<1>5. UNCHANGED <<Within, Over>>
  BY DEF Within, Over, Alive
<1>6. State' = "stopped" /\ State \in {"open", "stopped"}
  BY <1>1, <1>2 DEF State
<1>7. CASE State = "open"
  <2>1. G!Stop
    BY <1>5, <1>6, <1>7 DEF G!Stop, State, Within, Over
  <2> QED BY <1>4, <2>1 DEF Generation, G!Next
<1>8. CASE State = "stopped"
  BY <1>4, <1>5, <1>6, <1>8 DEF Generation, Stutter
<1> QED BY <1>6, <1>7, <1>8

LEMMA AskWaits == ASSUME IInv, Ordered, Ask PROVE Generation /\ Ordered'
<1>1. ASSUME NEW e \in Epochs, Open(e) PROVE Generation /\ Ordered'
  BY <1>1, HoldWaits DEF Open
<1>2. ASSUME NEW e \in Epochs, Revoke(e) PROVE Generation /\ Ordered'
  <2>1. e >= epoch
    BY <1>2 DEF Revoke, IInv, TypeOK, Epochs
  <2> QED BY <1>2, <2>1, HoldWaits DEF Revoke
<1>3. CASE Close
  <2>1. epoch \in Epochs /\ epoch >= epoch
    BY <1>3, HostedAssumption DEF IInv, TypeOK, Close, Live, Runtime, Epochs
  <2> QED BY <1>3, <2>1, HoldWaits DEF Close
<1>4. CASE Quiesce
  <2>1. /\ runtime # None /\ ~runtime.quiesced /\ Stopping /\ jobs = {}
        /\ UNCHANGED <<epoch, opened, task, started, jobs>>
        /\ slot = Free /\ slot'.epoch = epoch
    BY <1>4 DEF Quiesce, Hold
  <2>2. NoJobs
    BY <2>1 DEF IInv, NoJobs, Located, Known, Held
  <2>3. slot'.epoch >= epoch
    BY <2>1, HostedAssumption DEF IInv, TypeOK, Epochs
  <2> QED BY <2>1, <2>2, <2>3, StopsGeneration
<1> QED BY <1>1, <1>2, <1>3, <1>4 DEF Ask

LEMMA ProceedGeneration == ASSUME IInv, Ordered, Proceed PROVE Generation /\ Ordered'
<1>0. /\ runtime \in Runtime \union {None} /\ None \notin Runtime
      /\ slot # Free => slot \in Slot /\ slot.joining \subseteq 1..started
      /\ jobs \subseteq 1..started
      /\ runtime # None => runtime.deferred \subseteq 1..started
  BY HostedAssumption DEF IInv, TypeOK, Runtime, Epochs, Tasks
<1>1. CASE SignalJobs
  <2>1. Quieter /\ \A t \in 1..started : Alive(t) => Alive(t)'
    BY <1>1, SignalsEndNone DEF SignalJobs
  <2>2. slot # Free /\ slot'.at = "close" /\ slot'.epoch = slot.epoch
    BY <1>0, <1>1, Reaches DEF SignalJobs, HoldingAt, IInv
  <2>3. UNCHANGED <<epoch, runtime, opened>> /\ jobs' = {}
    BY <1>1 DEF SignalJobs
  <2>4. NoJobs => NoJobs'
    BY <2>1, <2>3 DEF NoJobs, Quieter
  <2>5. Ordered'
    BY <2>2, <2>3, <2>4 DEF Ordered
  <2>6. Stutter
    BY <2>1, <2>3, SameWriters DEF Stutter, State
  <2> QED BY <2>5, <2>6 DEF Generation
<1>2. CASE BeginAbort
  <2>1. UNCHANGED <<epoch, opened, jobs>> /\ slot # Free /\ started' = started
    BY <1>2 DEF BeginAbort, HoldingAt
  <2>2. PICK J : J \subseteq 1..started /\ Reach("join", J)
    BY <1>0, <1>2, <2>1 DEF BeginAbort
  <2>3. slot'.at = "join" /\ slot'.epoch = slot.epoch
    BY <2>1, <2>2, Reaches DEF IInv
  <2>4. CASE runtime = None
    <3>1. UNCHANGED <<runtime, task>>
      BY <1>2, <2>4 DEF BeginAbort
    <3> QED BY <2>1, <2>3, <3>1, SlotOnly
  <2>5. CASE runtime # None
    <3>1. Quieter /\ \A t \in 1..started : Alive(t) => Alive(t)'
      BY <1>2, <2>1, <2>5, SignalsEndNone DEF BeginAbort
    <3>2. runtime' = [runtime EXCEPT !.closed = TRUE, !.deferred = {}]
      BY <1>2, <2>5 DEF BeginAbort
    <3>3. /\ runtime' # None
          /\ runtime'.id = runtime.id /\ runtime'.accepting = runtime.accepting
          /\ runtime'.quiesced = runtime.quiesced
      BY <1>0, <2>5, <3>2 DEF Runtime
    <3>4. NoJobs => NoJobs'
      BY <2>1, <3>1 DEF NoJobs, Quieter
    <3>5. Ordered'
      BY <2>1, <2>3, <2>5, <3>3, <3>4 DEF Ordered
    <3>6. Stutter
      BY <2>1, <2>5, <3>1, <3>3, SameWriters DEF Stutter, State
    <3> QED BY <3>5, <3>6 DEF Generation
  <2> QED BY <2>4, <2>5
<1>3. CASE Joining
  <2>1. slot # Free /\ slot'.at = "drain" /\ slot'.epoch = slot.epoch
    BY <1>0, <1>3, Reaches DEF Joining, HoldingAt, IInv
  <2> QED BY <1>3, <2>1, SlotOnly DEF Joining
<1>4. CASE DrainJobs
  <2>1. slot # Free /\ slot'.at = "drained" /\ slot'.epoch = slot.epoch
    BY <1>0, <1>4, Reaches DEF DrainJobs, HoldingAt, IInv
  <2> QED BY <1>4, <2>1, SlotOnly DEF DrainJobs
<1>5. CASE Drained
  <2>1. UNCHANGED <<epoch, opened, task, started, jobs>> /\ slot # Free /\ slot.at = "drained"
    BY <1>5 DEF Drained, HoldingAt
  <2>2. CASE runtime = None \/ runtime.quiesced
    <3>1. UNCHANGED runtime /\ slot'.at = "remove" /\ slot'.epoch = slot.epoch
      BY <1>5, <2>1, <2>2, Reaches DEF Drained, IInv
    <3> QED BY <2>1, <3>1, SlotOnly
  <2>3. CASE ~(runtime = None \/ runtime.quiesced)
    <3>1. Stopping /\ slot'.epoch = slot.epoch
      BY <1>5, <2>1, <2>3, Reaches DEF Drained, IInv
    <3>2. slot'.epoch >= epoch
      BY <2>1, <3>1 DEF Ordered
    <3>3. NoJobs
      BY <1>5, <2>1 DEF Drained, Joined, NoJobs, IInv, Located, Known, Held, Stages
    <3> QED BY <2>1, <2>3, <3>1, <3>2, <3>3, StopsGeneration
  <2> QED BY <2>2, <2>3
<1>6. CASE SchedulerStopped
  <2>1. /\ UNCHANGED <<epoch, opened, task, started, jobs>> /\ slot # Free
        /\ slot.at = "scheduler" /\ runtime # None
    BY <1>6 DEF SchedulerStopped, HoldingAt, IInv, Stages
  <2>2. slot'.at = "deferred" /\ slot'.epoch = slot.epoch
    BY <1>0, <1>6, <2>1, Reaches DEF SchedulerStopped, IInv
  <2>3. /\ runtime' # None
        /\ runtime'.id = runtime.id /\ runtime'.accepting = runtime.accepting
        /\ runtime'.quiesced = runtime.quiesced
    BY <1>0, <1>6, <2>1 DEF SchedulerStopped, Runtime
  <2>4. NoJobs => NoJobs'
    BY <2>1 DEF NoJobs, Alive
  <2>5. Ordered'
    BY <2>1, <2>2, <2>3, <2>4 DEF Ordered
  <2>6. Stutter
    BY <2>1, <2>3 DEF Stutter, State, Within, Over, Alive
  <2> QED BY <2>5, <2>6 DEF Generation
<1>7. CASE DeferredDrained
  <2>1. /\ slot # Free /\ slot.at = "deferred"
        /\ slot'.at = "flush" /\ slot'.epoch = slot.epoch
    BY <1>0, <1>7, Reaches DEF DeferredDrained, HoldingAt, IInv
  <2> QED BY <1>7, <2>1, SlotOnly DEF DeferredDrained
<1>8. CASE Flush
  <2>1. /\ UNCHANGED <<epoch, opened, task, started, jobs>> /\ slot # Free
        /\ slot.at = "flush" /\ runtime # None /\ \A t \in 1..started : ~Alive(t)
    BY <1>8 DEF Flush, HoldingAt, IInv, Stages
  <2>2. slot' = Free \/ (slot'.at = "remove" /\ slot'.epoch = slot.epoch)
    BY <1>8, <2>1, Reaches DEF Flush, IInv
  <2>3. /\ runtime' # None /\ runtime'.quiesced
        /\ runtime'.id = runtime.id /\ runtime'.accepting = runtime.accepting
    BY <1>0, <1>8, <2>1 DEF Flush, Runtime
  <2>4. ~runtime.accepting /\ (NoJobs => NoJobs')
    BY <2>1 DEF Ordered, NoJobs, Alive
  <2>5. Ordered'
    BY <2>1, <2>2, <2>3, <2>4 DEF Ordered
  <2>6. UNCHANGED <<Within, Over>>
    BY <2>1 DEF Within, Over, Alive
  <2>7. State' = "sealed" /\ State \in {"stopped", "sealed"}
    BY <2>1, <2>3, <2>4 DEF State
  <2>8. DOMAIN Within = {}
    BY <2>1 DEF Within
  <2>9. CASE State = "stopped"
    <3>1. G!Seal
      BY <2>1, <2>6, <2>7, <2>8, <2>9 DEF G!Seal, State, Within, Over
    <3> QED BY <2>5, <3>1 DEF Generation, G!Next
  <2>10. CASE State = "sealed"
    BY <2>1, <2>5, <2>6, <2>7, <2>10 DEF Generation, Stutter
  <2> QED BY <2>7, <2>9, <2>10
<1>9. CASE FlushFails
  BY <1>9, SlotOnly DEF FlushFails
<1>10. CASE Remove
  <2>1. /\ slot # Free /\ slot.at = "remove"
        /\ UNCHANGED <<opened, task, started, jobs>> /\ runtime' = None
    BY <1>10 DEF Remove, HoldingAt
  <2>2. State \in {"none", "sealed"} /\ State' = "none"
    BY <2>1 DEF IInv, Stages, State
  <2>3. slot' = Free \/ (slot'.at = "open" /\ slot'.epoch = slot.epoch /\ epoch' = epoch)
    BY <1>10, <2>1, Reaches DEF Remove, IInv
  <2>4. epoch' \in Epochs \union {-1} /\ epoch' >= epoch
    <3>1. CASE slot.op = "revoke"
      BY <1>0, <1>10, <2>1, <3>1 DEF Remove, Ordered, Slot
    <3>2. CASE slot.op # "revoke"
      BY <1>10, <3>2, HostedAssumption DEF Remove, IInv, TypeOK, Epochs
    <3> QED BY <3>1, <3>2
  <2>5. Ordered'
    BY <2>1, <2>3 DEF Ordered
  <2>6. UNCHANGED <<Within, Over>>
    BY <2>1 DEF Within, Over, Alive
  <2>7. G!Move(epoch')
    BY <2>1, <2>2, <2>4, <2>6 DEF G!Move, State, Within, Over
  <2> QED BY <2>4, <2>5, <2>7 DEF Generation, G!Next
<1>11. CASE OpenRuntime
  <2>1. /\ slot \in Slot /\ slot # Free /\ slot.at = "open" /\ runtime = None
        /\ UNCHANGED <<task, started, jobs>> /\ slot' = Free
        /\ epoch' = slot.epoch /\ opened' = opened + 1
    BY <1>0, <1>11 DEF OpenRuntime, HoldingAt, IInv, Stages
  <2>2. runtime' \in Runtime
    BY <1>11, <2>1, HostedAssumption DEF OpenRuntime, Runtime, Slot, Tasks, IInv, TypeOK
  <2>3. /\ runtime' # None /\ runtime'.id = opened' /\ runtime'.accepting
        /\ ~runtime'.quiesced
    BY <1>0, <1>11, <2>2 DEF OpenRuntime
  <2>4. State = "none" /\ State' = "open"
    BY <2>1, <2>3 DEF State
  <2>5. slot.epoch \in Epochs /\ slot.epoch >= epoch
    BY <2>1 DEF Ordered, Slot
  <2>6. Ordered'
    BY <2>1, <2>3 DEF Ordered
  <2>7. UNCHANGED <<Within, Over>>
    BY <2>1 DEF Within, Over, Alive
  <2>8. G!Begin(slot.epoch)
    BY <2>1, <2>4, <2>5, <2>7 DEF G!Begin, State, Within, Over
  <2> QED BY <2>5, <2>6, <2>8 DEF Generation, G!Next
<1>12. CASE OpenFails
  BY <1>12, SlotOnly DEF OpenFails
<1> QED
  BY <1>1, <1>2, <1>3, <1>4, <1>5, <1>6, <1>7, <1>8, <1>9, <1>10, <1>11, <1>12 DEF Proceed

LEMMA OrderedStep == IInv /\ Ordered /\ [Next]_vars => Ordered' /\ Generation
<1> SUFFICES ASSUME IInv, Ordered, [Next]_vars PROVE Ordered' /\ Generation
  OBVIOUS
<1>1. ASSUME NEW t \in Tasks, TaskStep(t) \/ Cancel(t) PROVE Ordered' /\ Generation
  <2>1. CASE Track(t)
    BY <2>1, TrackBegins
  <2>2. CASE ~Track(t)
    <3>1. Moves(t) /\ SameGeneration
      BY <1>1, <2>2, TaskMovesOn
    <3> QED BY <3>1, OneMoves, StillOrdered DEF Moves
  <2> QED BY <2>1, <2>2
<1>2. ASSUME UNCHANGED <<task, started>>, SameGeneration PROVE Ordered' /\ Generation
  <2>1. Quieter /\ \A t \in 1..started : Alive(t) => Alive(t)'
    BY <1>2 DEF Quieter, Alive
  <2> QED BY <1>2, <2>1, StillOrdered, SameWriters, SameState DEF Generation, Stutter
<1>3. CASE (\E r \in 1..MaxRuntimes : PassEnds(r)) \/ SchedulerStep \/ Leave
  BY <1>2, <1>3, SchedulerSame
<1>4. ASSUME NEW kind \in JobKinds, NEW op \in Ops, Submit(kind, op)
      PROVE  Ordered' /\ Generation
  BY <1>4, SubmitBegins
<1>5. ASSUME NEW s \in 1..started, BeginAwait(s) \/ FinishAwait(s)
      PROVE  Ordered' /\ Generation
  BY <1>2, <1>5 DEF BeginAwait, FinishAwait, SameGeneration
<1>6. CASE Ask
  BY <1>6, AskWaits
<1>7. CASE Proceed
  BY <1>7, ProceedGeneration
<1>8. CASE UNCHANGED vars
  BY <1>2, <1>8 DEF vars, SameGeneration
<1> QED BY <1>1, <1>3, <1>4, <1>5, <1>6, <1>7, <1>8 DEF Next, Quick

LEMMA InitiallyNone == Init => Ordered /\ G!Init
<1> SUFFICES ASSUME Init PROVE Ordered /\ G!Init
  OBVIOUS
<1>1. Ordered
  BY DEF Init, Ordered
<1>2. 1..started = {}
  BY DEF Init
<1>3. G!Init
  BY <1>2 DEF Init, G!Init
<1> QED BY <1>1, <1>3

\* Whatever is asked of the scope, and wherever a request fails: jobs and dreams
\* begin only in the runtime that is open and has not begun to stop, it is sealed
\* when none is left, another is opened only after that, and epochs do not go
\* down (engine.rs, replace_scope, open_scope and revoke; state.rs, quiesce).
THEOREM GenerationsKept == Spec => KeepsGenerations
<1>1. IInv /\ Ordered /\ [Next]_vars => [G!Next]_(G!vars)
  BY OrderedStep, Stutters DEF Generation
<1>2. Init => G!Init /\ Ordered
  BY InitiallyNone
<1>3. IInv /\ Ordered /\ [Next]_vars => Ordered'
  BY OrderedStep
<1> QED BY <1>1, <1>2, <1>3, Invariance, PTL DEF Spec, KeepsGenerations, G!Spec

-----------------------------------------------------------------------------
(* Passes of the scheduler *)

\* No job has asked for a pass.
NoWorkers == \A t \in 1..started : task[t].kind # "worker"

\* The flag tells whether there is a pass, there is one at most, and none once
\* the loop has left.
Sequential ==
    /\ \A r \in 1..MaxRuntimes : passes[r] > 0 =>
        passes[r] = 1 /\ runtime # None /\ runtime.id = r /\ runtime.flag
    /\ runtime # None =>
        /\ runtime.sched \in {"spawn", "off"} => ~runtime.flag
        /\ runtime.quiesced => runtime.sched = "off"
    /\ slot # Free => (slot.at \in {"deferred", "flush"} => runtime.sched = "off")

\* What a step that is not the scheduler's leaves alone.
SameScheduler ==
    /\ UNCHANGED passes
    /\ runtime = None <=> runtime' = None
    /\ runtime # None =>
        /\ runtime'.id = runtime.id /\ runtime'.flag = runtime.flag
        /\ runtime'.sched = runtime.sched /\ runtime'.quiesced = runtime.quiesced

LEMMA StillSequential ==
    ASSUME Sequential, SameScheduler,
           slot' \in {slot, Free} \/ slot'.at \notin {"deferred", "flush"}
    PROVE  Sequential'
BY DEF Sequential, SameScheduler

LEMMA TaskSequential ==
    ASSUME IInv, Sequential, NoWorkers, NEW t \in Tasks, TaskStep(t) \/ Cancel(t)
    PROVE  Sequential'
<1>1. ~TriggerSpawn(t)
  <2>1. TriggerSpawn(t) => t \in 1..started /\ task[t].kind = "worker"
    BY Known_At DEF TriggerSpawn, At
  <2> QED BY <2>1 DEF NoWorkers
<1>2. CASE Track(t)
  <2>1. runtime \in Runtime /\ None \notin Runtime /\ runtime # None
    BY <1>2, HostedAssumption DEF IInv, TypeOK, Track, Here, Runtime, Epochs, Tasks
  <2>2. started' \in Tasks
    BY <1>2, HostedAssumption DEF Track, Start, IInv, TypeOK, Tasks
  <2>3. runtime' \in Runtime /\ SameScheduler
    BY <1>2, <2>1, <2>2 DEF Track, SameScheduler, Runtime
  <2> QED BY <1>2, <2>3, StillSequential DEF Track
<1>3. CASE ~Track(t)
  <2>1. UNCHANGED engine
    BY <1>1, <1>3 DEF TaskStep, Cancel, Return, EnterDurable, NextSubject, NoAnswer, BeginApply,
           Persist, Retire, ApplyFails, Trigger, Idle
  <2> QED BY <2>1, StillSequential DEF engine, SameScheduler
<1> QED BY <1>2, <1>3

LEMMA SchedulerSequential ==
    ASSUME IInv, Sequential,
           (\E r \in 1..MaxRuntimes : PassEnds(r)) \/ SchedulerStep \/ Leave
    PROVE  Sequential'
<1>1. /\ runtime \in Runtime \union {None} /\ None \notin Runtime
      /\ passes \in [1..MaxRuntimes -> 0..MaxPasses] /\ MaxPasses \in Nat
  BY HostedAssumption DEF IInv, TypeOK, Runtime, Epochs, Tasks
<1>2. ASSUME NEW r \in 1..MaxRuntimes, PassEnds(r) PROVE Sequential'
  <2>1. /\ passes[r] = 1 /\ runtime # None /\ runtime.id = r
        /\ passes' = [passes EXCEPT ![r] = @ - 1]
        /\ runtime' = [runtime EXCEPT !.flag = FALSE] /\ slot' = slot
    BY <1>2 DEF PassEnds, Sequential
  <2>2. /\ runtime' # None /\ runtime'.id = r /\ ~runtime'.flag
        /\ runtime'.sched = runtime.sched /\ runtime'.quiesced = runtime.quiesced
    BY <1>1, <2>1 DEF Runtime
  <2>3. passes'[r] = 0 /\ \A q \in 1..MaxRuntimes : q # r => passes'[q] = passes[q]
    BY <1>1, <2>1
  <2>4. \A q \in 1..MaxRuntimes : ~(passes'[q] > 0)
    BY <2>1, <2>3 DEF Sequential
  <2> QED BY <2>1, <2>2, <2>4 DEF Sequential
<1>3. ASSUME NEW from, NEW to \in {"select", "spawn", "leave", "off"}, Loop(from, to),
             to \in {"spawn", "off"} => ~runtime.flag, from # "off"
      PROVE  Sequential'
  <2>1. /\ runtime # None /\ runtime.sched = from /\ UNCHANGED <<passes, slot>>
        /\ runtime' = [runtime EXCEPT !.sched = to]
    BY <1>3 DEF Loop
  <2>2. /\ runtime' # None /\ runtime'.id = runtime.id /\ runtime'.flag = runtime.flag
        /\ runtime'.sched = to /\ runtime'.quiesced = runtime.quiesced
    BY <1>1, <2>1 DEF Runtime
  <2> QED BY <1>3, <2>1, <2>2 DEF Sequential
<1>4. CASE TickSpawn
  <2>1. /\ runtime \in Runtime /\ runtime # None /\ runtime.sched = "spawn" /\ slot' = slot
        /\ passes' = [passes EXCEPT ![runtime.id] = IF @ < MaxPasses THEN @ + 1 ELSE @]
        /\ runtime' = [runtime EXCEPT !.flag = TRUE, !.sched = "select"]
    BY <1>1, <1>4 DEF TickSpawn, SpawnPass
  <2>2. /\ runtime' # None /\ runtime'.id = runtime.id /\ runtime'.flag
        /\ runtime'.sched = "select" /\ runtime'.quiesced = runtime.quiesced
    BY <1>1, <2>1 DEF Runtime
  <2>3. \A q \in 1..MaxRuntimes : passes[q] = 0
    BY <1>1, <2>1 DEF Sequential
  <2>4. /\ passes'[runtime.id] \in {0, 1}
        /\ \A q \in 1..MaxRuntimes : q # runtime.id => passes'[q] = 0
    BY <1>1, <2>1, <2>3 DEF Runtime
  <2>5. \A q \in 1..MaxRuntimes : passes'[q] > 0 => passes'[q] = 1 /\ q = runtime.id
    BY <2>4
  <2> QED BY <2>1, <2>2, <2>5 DEF Sequential
<1> QED BY <1>2, <1>3, <1>4 DEF SchedulerStep, Tick, Off, Leave

LEMMA ProceedSequential == ASSUME IInv, Sequential, Ask \/ Proceed PROVE Sequential'
<1>0. /\ runtime \in Runtime \union {None} /\ None \notin Runtime
      /\ slot # Free => slot \in Slot /\ slot.joining \subseteq 1..started
      /\ jobs \subseteq 1..started
      /\ runtime # None => runtime.deferred \subseteq 1..started
  BY HostedAssumption DEF IInv, TypeOK, Runtime, Epochs, Tasks
<1>1. ASSUME runtime # None, Stopping, UNCHANGED passes PROVE SameScheduler
  BY <1>0, <1>1 DEF Stopping, SameScheduler, Runtime
<1>2. CASE Ask
  <2>1. slot'.at \notin {"deferred", "flush"}
    BY <1>2 DEF Ask, Open, Close, Quiesce, Revoke, Hold
  <2>2. SameScheduler
    BY <1>1, <1>2 DEF Ask, Open, Close, Quiesce, Revoke, SameScheduler
  <2> QED BY <2>1, <2>2, StillSequential
<1>3. CASE SignalJobs \/ Joining \/ DrainJobs
  <2>1. slot'.at \notin {"deferred", "flush"}
    BY <1>0, <1>3, Reaches DEF SignalJobs, Joining, DrainJobs, HoldingAt, IInv
  <2> QED BY <1>3, <2>1, StillSequential DEF SignalJobs, Joining, DrainJobs, SameScheduler
<1>4. CASE BeginAbort
  <2>1. slot'.at \notin {"deferred", "flush"}
    <3>1. slot # Free
      BY <1>4 DEF BeginAbort, HoldingAt
    <3>2. PICK J : J \subseteq 1..started /\ Reach("join", J)
      BY <1>0, <1>4, <3>1 DEF BeginAbort
    <3> QED BY <3>1, <3>2, Reaches DEF IInv
  <2>2. SameScheduler
    <3>1. CASE runtime = None
      BY <1>4, <3>1 DEF BeginAbort, SameScheduler
    <3>2. CASE runtime # None
      <4>1. UNCHANGED passes /\ runtime' = [runtime EXCEPT !.closed = TRUE, !.deferred = {}]
        BY <1>4, <3>2 DEF BeginAbort
      <4> QED BY <1>0, <3>2, <4>1 DEF SameScheduler, Runtime
    <3> QED BY <3>1, <3>2
  <2> QED BY <2>1, <2>2, StillSequential
<1>5. CASE Drained
  <2>1. slot'.at \notin {"deferred", "flush"}
    BY <1>0, <1>5, Reaches DEF Drained, HoldingAt, IInv
  <2>2. SameScheduler
    BY <1>1, <1>5 DEF Drained, SameScheduler
  <2> QED BY <2>1, <2>2, StillSequential
<1>6. CASE SchedulerStopped
  <2>1. runtime # None /\ runtime.sched = "off" /\ SameScheduler
    BY <1>0, <1>6 DEF SchedulerStopped, HoldingAt, IInv, Stages, SameScheduler, Runtime
  <2> QED BY <2>1 DEF Sequential, SameScheduler
<1>7. CASE DeferredDrained
  <2>1. slot # Free /\ slot.at = "deferred" /\ runtime # None /\ SameScheduler
    BY <1>7 DEF DeferredDrained, HoldingAt, IInv, Stages, SameScheduler
  <2> QED BY <2>1 DEF Sequential, SameScheduler
<1>8. CASE Flush
  <2>1. /\ slot # Free /\ slot.at = "flush" /\ runtime # None /\ UNCHANGED passes
        /\ runtime' = [runtime EXCEPT !.quiesced = TRUE]
    BY <1>8 DEF Flush, HoldingAt, IInv, Stages
  <2>2. slot' = Free \/ slot'.at = "remove"
    BY <1>8, <2>1, Reaches DEF Flush, IInv
  <2>3. /\ runtime' # None /\ runtime'.id = runtime.id /\ runtime'.flag = runtime.flag
        /\ runtime'.sched = runtime.sched
    BY <1>0, <2>1 DEF Runtime
  <2> QED BY <2>1, <2>2, <2>3 DEF Sequential
<1>9. CASE FlushFails \/ OpenFails
  BY <1>9, StillSequential DEF FlushFails, OpenFails, SameScheduler
<1>10. CASE Remove
  <2>1. /\ slot # Free /\ slot.at = "remove" /\ runtime' = None /\ UNCHANGED passes
        /\ runtime = None \/ runtime.quiesced
    BY <1>10 DEF Remove, HoldingAt, IInv, Stages
  <2>2. \A r \in 1..MaxRuntimes : ~(passes[r] > 0)
    BY <2>1 DEF Sequential
  <2>3. slot' = Free \/ slot'.at = "open"
    BY <1>10, <2>1, Reaches DEF Remove, IInv
  <2> QED BY <2>1, <2>2, <2>3 DEF Sequential
<1>11. CASE OpenRuntime
  <2>1. runtime = None /\ UNCHANGED passes /\ slot' = Free
    BY <1>11 DEF OpenRuntime, HoldingAt, IInv, Stages
  <2>2. \A r \in 1..MaxRuntimes : ~(passes[r] > 0)
    BY <2>1 DEF Sequential
  <2>3. runtime'.sched = "select" /\ ~runtime'.quiesced
    BY <1>11 DEF OpenRuntime
  <2> QED BY <2>1, <2>2, <2>3 DEF Sequential
<1> QED
  BY <1>2, <1>3, <1>4, <1>5, <1>6, <1>7, <1>8, <1>9, <1>10, <1>11 DEF Proceed

LEMMA SequentialStep == IInv /\ Sequential /\ NoWorkers /\ [Next]_vars => Sequential'
<1> SUFFICES ASSUME IInv, Sequential, NoWorkers, [Next]_vars PROVE Sequential'
  OBVIOUS
<1>1. ASSUME NEW t \in Tasks, TaskStep(t) \/ Cancel(t) PROVE Sequential'
  BY <1>1, TaskSequential
<1>2. CASE (\E r \in 1..MaxRuntimes : PassEnds(r)) \/ SchedulerStep \/ Leave
  BY <1>2, SchedulerSequential
<1>3. CASE Quick
  BY <1>3, StillSequential DEF Quick, Submit, BeginAwait, FinishAwait, SameScheduler
<1>4. CASE Ask \/ Proceed
  BY <1>4, ProceedSequential
<1>5. CASE UNCHANGED vars
  BY <1>5, StillSequential DEF vars, SameScheduler
<1> QED BY <1>1, <1>2, <1>3, <1>4, <1>5 DEF Next

\* The loop of the scheduler alone stops as it should: that a pass writes on in
\* a sealed generation takes a job of worker_async, whose tick meets the loop's.
THEOREM LoopPassesStop == Spec /\ []NoWorkers => []PassesStopped
<1>1. Init => Sequential
  BY HostedAssumption DEF Init, Sequential
<1>2. IInv /\ Sequential => PassesStopped
  BY DEF Sequential, PassesStopped
<1> QED BY <1>1, <1>2, SequentialStep, Invariance, PTL DEF Spec

=============================================================================
