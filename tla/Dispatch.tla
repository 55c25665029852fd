------------------------------- MODULE Dispatch -------------------------------
(* Work items, the parallel plan, and the runtime workers, shared resources    *)
(* and user tasks that carry a dispatched item                                 *)
(* (src/src/orchestration.mjs, workers.mjs, resources.mjs, tasks.mjs and the   *)
(* claims of work-items.mjs).                                                  *)
(*                                                                             *)
(* Every command works under the project mutation lock, one at a time, and     *)
(* replaces whole documents, one file after the other: a command is the        *)
(* sequence of its writes, any of which may fail, and a process may die        *)
(* between any two.  Only the planner works without the lock: it reads, and    *)
(* later reads again and writes the plan.                                      *)
(*                                                                             *)
(* Left out: who may act (every position has one eligible agent), the          *)
(* governance of references and evidence, parallel_mode (always pending),      *)
(* --max-workers, the event log as content (its append is the last write of a  *)
(* command and may fail) and updated_at (two documents that differ in it       *)
(* alone are equal here, so the model takes a plan for fresh at least as often *)
(* as the code does).                                                          *)
EXTENDS Integers, Sequences, FiniteSets, FiniteSetsExt, SequencesExt

CONSTANTS
    Items,       \* work items
    Order,       \* the items in the order of their ids
    Starts,      \* the ways to begin: item -> its stage, "absent" if it is yet to come
    Named,       \* item -> the items its overlap resolution names at first
    Deps,        \* item -> the items it depends on
    Ancestors,   \* item -> its parent, the parent of that, ...
    Overlapping, \* pairs {i, j} of items whose affected paths overlap
    Units,       \* item -> stage -> units of the resource it needs
    Capacity,    \* of the one shared resource
    Stages,      \* of the workflow
    Successors,  \* item -> stage -> the stages its profile leads to
    Escapes,     \* item -> the stages reachable from every stage
    Acks,        \* item -> the sets of items its overlap resolution may come to name
    Scopes,      \* None, or the parent whose descendants are planned
    Kinds,       \* item -> the runtime kinds it is dispatched to
    Reports,     \* the statuses reported for a worker
    TaskReports, \* the statuses reported for a task
    LooseTasks,  \* whether tasks are also registered for no worker
    Tasked,      \* bound: the items tasks are registered for
    MaxClaims,   \* bound: item -> its claims
    MaxItems,    \* bound: no item is created when there are as many
    MaxPlans,    \* bound: plans written
    MaxWorkers,  \* bound: workers ever prepared
    MaxTasks,    \* bound: tasks ever registered
    Fragile,     \* bound: the items whose commands may fail or be cut short
    MaxTorn,     \* bound: workers left in disorder at a time
    None

Workers == 1 .. MaxWorkers
Tasks == 1 .. MaxTasks
Final == {"done", "concluded", "cancelled"}
Ended == {"completed", "failed", "cancelled"}

Worker == [status : {"reserved", "active", "waiting", "attention"} \cup Ended, item : Items, claim : Nat,
           kind : {"internal-subagent", "user-task"}, plan : Nat, runtime : BOOLEAN,
           task : Tasks \cup {None}, units : Nat]
Task == [item : Items, claim : Nat \cup {None}, worker : Workers \cup {None}, status : TaskReports]

ASSUME DispatchAssumption ==
    /\ None \notin Items \cup Workers \cup Tasks \cup Worker \cup Task
    /\ Named \in [Items -> SUBSET Items]
    /\ Deps \in [Items -> SUBSET Items]
    /\ Ancestors \in [Items -> SUBSET Items]
    /\ Units \in [Items -> [Stages -> Nat]]
    /\ Capacity \in Nat
    /\ Acks \in [Items -> SUBSET SUBSET Items]
    /\ Fragile \subseteq Items
    /\ {"intake", "build", "done", "concluded"} \subseteq Stages
    /\ Starts \subseteq [Items -> Stages \cup {"absent"}]
    /\ Successors \in [Items -> [Stages -> SUBSET Stages]]
    /\ Escapes \in [Items -> SUBSET Stages]
    /\ MaxClaims \in [Items -> Nat]
    /\ Scopes \subseteq Items \cup {None}
    /\ {MaxItems, MaxPlans, MaxWorkers, MaxTasks, MaxTorn} \subseteq Nat
    /\ Tasked \subseteq Items
    /\ LooseTasks \in BOOLEAN
    /\ Kinds \in [Items -> SUBSET {"internal-subagent", "user-task"}]
    /\ Reports \subseteq {"active", "waiting", "attention"} \cup Ended
    /\ TaskReports \subseteq {"setup", "active", "waiting", "attention", "completed", "archived"}

VARIABLES
    disk,   \* the documents: items, workers, resources, tasks
    plan,   \* views/parallel-plan.json, or None
    draft,  \* what a planner has read so far, or None
    op,     \* the command that holds the lock: its writes and its rollback
    torn    \* history: workers a command about which was cut short, and whether while it was putting back;
            \* until a later one has reached its end, and in the second case the worker has ended as well

vars == <<disk, plan, draft, op, torn>>

(***************************************************************************)
(* Readiness and the plan.                                                 *)
(***************************************************************************)
Open(items, i) == items[i].stage \notin {"absent"} \cup Final
NeededUnits(items, i) == Units[i][items[i].stage]
Overlaps(items, i) == {j \in Items \ {i} : Open(items, j) /\ {i, j} \in Overlapping}
Settled(items, i) == \A d \in Deps[i] : items[d].stage \in Final
UsedUnits(resources) ==
    MapThenSumSet(LAMBDA w : resources[w].units, {w \in Workers : resources[w].state = "active"})

\* evaluateParallelReadiness: the checks whose outcome changes while items are worked on.
Readiness(docs, i) ==
    [dependencies_resolved |-> Settled(docs.items, i),
     overlap_resolved |-> Overlaps(docs.items, i) \subseteq docs.items[i].named,
     shared_resources_available |->
         \/ NeededUnits(docs.items, i) = 0
         \/ UsedUnits(docs.resources) + NeededUnits(docs.items, i) <= Capacity]
\* mutant: the checks are not asked again
TakenAsReady(checks) == TRUE
Ready(checks) == \A c \in DOMAIN checks : checks[c]

\* dispatchPreparationFingerprint
Preparation(items, docs, i) == [item |-> items[i], checks |-> Readiness(docs, i)]

Acknowledged(items, i, j) == j \in items[i].named /\ i \in items[j].named

Selected(items, scope) ==
    {i \in Items : Open(items, i) /\ (scope = None \/ scope \in Ancestors[i])}

\* An item whose overlaps outside the plan do not keep it back.
FreeOutside(items, docs, scope, i) ==
    \A j \in Overlaps(docs.items, i) \ Selected(items, scope) :
        (j \in Ancestors[i] /\ ~items[j].live) \/ Acknowledged(items, i, j)

Dispatchable(items, docs, scope) ==
    {i \in Selected(items, scope) :
        /\ ~items[i].live
        /\ Readiness(docs, i).shared_resources_available
        /\ FreeOutside(items, docs, scope, i)
        /\ Settled(items, i)}

\* Items enter a wave in the order of their ids, as long as they conflict with none of those in it.
Joins(items, wave, i) ==
    /\ \A j \in wave : {i, j} \in Overlapping => Acknowledged(items, i, j)
    /\ MapThenSumSet(LAMBDA j : NeededUnits(items, j), wave \cup {i}) <= Capacity

FirstWave(items, docs, scope) ==
    LET able == Dispatchable(items, docs, scope)
    IN FoldLeft(LAMBDA wave, i : IF i \in able /\ Joins(items, wave, i) THEN wave \cup {i} ELSE wave,
                {}, Order)

\* buildParallelPlan: items as first read, the rest as read later, the source last of all.
Build(items, docs, scope) ==
    [source |-> [items |-> docs.items, resources |-> docs.resources],
     scope |-> scope,
     first |-> [i \in FirstWave(items, docs, scope) |-> Preparation(items, docs, i)]]

\* inspectParallelPlan: the plan is the one that would be built now.
Fresh == plan.body = Build(disk.items, disk, plan.body.scope)

(***************************************************************************)
(* A command: its writes in their order, and those of its rollback.        *)
(***************************************************************************)
Torn == {t[1] : t \in torn}

Alive(w) == disk.workers[w] # None /\ disk.workers[w].status \notin Ended

Idle == [todo |-> <<>>, undo |-> <<>>, item |-> None, worker |-> None, failed |-> FALSE]
Document(file, content) == [file |-> file, content |-> content]
Event == Document("events", None)
Saved(files) == [k \in 1 .. Len(files) |-> Document(files[k], disk[files[k]])]

Begin(writes, undo, i, w) ==
    /\ op = Idle
    /\ op' = [todo |-> writes, undo |-> undo, item |-> i, worker |-> w, failed |-> FALSE]
    /\ UNCHANGED <<disk, plan, draft, torn>>

Write ==
    /\ op.todo # <<>>
    /\ LET next == Head(op.todo)
           last == Len(op.todo) = 1
       IN /\ next.file # "refused"
          /\ disk' = IF next.file \in DOMAIN disk THEN [disk EXCEPT ![next.file] = next.content] ELSE disk
          /\ op' = IF last THEN Idle ELSE [op EXCEPT !.todo = Tail(@)]
          /\ torn' = IF last /\ ~op.failed
                     THEN {t \in torn : t[1] # op.worker \/ (t[2] /\ Alive(op.worker))} ELSE torn
    /\ UNCHANGED <<plan, draft>>

\* A write throws: the documents are put back as they were, where the command does that.
Fail ==
    /\ op.todo # <<>>
    /\ op.item \in Fragile /\ Cardinality(torn) < MaxTorn
    /\ IF op.undo # <<>>
       THEN /\ op' = [op EXCEPT !.todo = op.undo, !.undo = <<>>, !.failed = TRUE]
            /\ UNCHANGED torn
       ELSE /\ op' = Idle
            /\ torn' = torn \cup (({op.worker} \ {None}) \X {op.failed})
    /\ UNCHANGED <<disk, plan, draft>>

\* The process dies: nothing is put back, and the lock it leaves behind grows stale.
Crash ==
    /\ op.todo # <<>>
    /\ op.item \in Fragile /\ Cardinality(torn) < MaxTorn
    /\ op' = Idle
    /\ torn' = torn \cup (({op.worker} \ {None}) \X {op.failed})
    /\ UNCHANGED <<disk, plan, draft>>

(***************************************************************************)
(* Work items: each command replaces one document.                         *)
(***************************************************************************)
Owner(stage) ==
    CASE stage = "spec" -> "product_manager"
      [] stage = "design" -> "tech_lead"
      [] stage = "build" -> "developer"
      [] stage \in {"test", "eval"} -> "quality_evaluator"
      [] stage = "independent_qa" -> "independent_qa"
      [] stage = "release_gate" -> "release_manager"
      [] OTHER -> "engineering_manager"

Exists(i) == disk.items[i].stage # "absent"
\* mutant: a worker counts only as long as its item is claimed
WorkingUnderLiveClaim(i) ==
    disk.items[i].live /\ \E w \in Workers : Alive(w) /\ disk.workers[w].item = i
Working(i) == \E w \in Workers : Alive(w) /\ disk.workers[w].item = i

Put(i, item) ==
    /\ op = Idle
    /\ disk' = [disk EXCEPT !.items[i] = item]
    /\ UNCHANGED <<plan, draft, op, torn>>

\* The ancestors and the dependencies named must be there.
CreateWorkItem(i) ==
    /\ ~Exists(i)
    /\ Cardinality({j \in Items : Exists(j)}) < MaxItems
    /\ \A j \in Deps[i] \cup Ancestors[i] : Exists(j)
    /\ Put(i, [disk.items[i] EXCEPT !.stage = "intake"])

\* What the model keeps of a configuration is the overlap resolution.
ConfigureWorkItem(i, named) ==
    /\ Exists(i)
    /\ named # disk.items[i].named
    /\ Put(i, [disk.items[i] EXCEPT !.named = named])

Claimed(items, i) == [items EXCEPT ![i].claim = @ + 1, ![i].live = TRUE]
\* mutant: the claim is taken away instead of ended
ClaimErased(items, i) == [items EXCEPT ![i].live = FALSE, ![i].claim = None]
Released(items, i) == [items EXCEPT ![i].live = FALSE]

ClaimWorkItem(i) ==
    /\ Exists(i)
    /\ ~disk.items[i].live
    /\ disk.items[i].claim < MaxClaims[i]
    /\ Put(i, Claimed(disk.items, i)[i])

ReleaseWorkItemClaim(i) ==
    /\ disk.items[i].live
    /\ Put(i, Released(disk.items, i)[i])

\* A claim ends when the item moves to another position; the workers are not asked.
TransitionWorkItem(i, to) ==
    LET item == disk.items[i]
    IN /\ Exists(i)
       /\ to \in Successors[i][item.stage] \cup Escapes[i] \cup
                 (IF item.stage = "blocked" THEN {item.prior} ELSE {})
       /\ Put(i, [item EXCEPT
                    !.stage = to,
                    !.live = @ /\ Owner(to) = Owner(item.stage),
                    !.prior = IF to = "blocked" THEN item.stage
                              ELSE IF item.stage = "blocked" /\ to = item.prior THEN None
                              ELSE @])

CloseWorkItem(i, outcome) ==
    /\ disk.items[i].stage = "release_gate"
    /\ Put(i, [disk.items[i] EXCEPT !.stage = outcome, !.live = FALSE, !.prior = None])

\* Rework waits for the item's workers and reservations.
ReworkWorkItem(i) ==
    /\ disk.items[i].stage \in {"test", "eval", "independent_qa"}
    /\ disk.items[i].live
    /\ ~Working(i)
    /\ \A w \in Workers : disk.resources[w].state = "active" => disk.resources[w].item # i
    /\ Put(i, [disk.items[i] EXCEPT !.stage = "build", !.live = FALSE, !.prior = None])

(***************************************************************************)
(* The planner, which takes no lock.                                       *)
(***************************************************************************)
ReadPlan(scope) ==
    /\ draft = None
    /\ plan # None => plan.id < MaxPlans
    /\ scope # None => Exists(scope)
    /\ draft' = [items |-> disk.items, scope |-> scope]
    /\ UNCHANGED <<disk, plan, op, torn>>

WritePlan ==
    /\ draft # None
    /\ plan' = [id |-> IF plan = None THEN 1 ELSE plan.id + 1,
                body |-> Build(draft.items, disk, draft.scope)]
    /\ draft' = None
    /\ UNCHANGED <<disk, op, torn>>

(***************************************************************************)
(* Workers.                                                                *)
(***************************************************************************)
Reserved(resources, w, i) ==
    [resources EXCEPT ![w] = [state |-> IF NeededUnits(disk.items, i) > 0 THEN "active" ELSE "none",
                              units |-> NeededUnits(disk.items, i), item |-> i]]
Returned(resources, w) ==
    [resources EXCEPT ![w].state = IF @ = "active" THEN "released" ELSE @]

\* A worker prepared under this plan has seen it fresh: the rest of the wave may follow.
ContinuesWave == \E v \in Workers : disk.workers[v] # None /\ disk.workers[v].plan = plan.id
AsPlanned(i) == plan.body.first[i] = Preparation(disk.items, disk, i)

PrepareWorkerDispatch(w, i, kind) ==
    LET worker == [status |-> "reserved", item |-> i, claim |-> disk.items[i].claim + 1,
                   kind |-> kind, plan |-> plan.id, runtime |-> FALSE, task |-> None,
                   units |-> NeededUnits(disk.items, i)]
    IN /\ op = Idle
       /\ w \notin Torn /\ disk.workers[w] = None
       /\ \A v \in Workers : v < w => disk.workers[v] # None \/ v \in Torn
       /\ plan # None
       /\ i \in DOMAIN plan.body.first
       /\ Exists(i) /\ ~disk.items[i].live
       /\ ~Working(i)
       /\ AsPlanned(i)
       /\ Fresh \/ ContinuesWave
       /\ Ready(Readiness(disk, i))
       /\ disk.items[i].claim < MaxClaims[i]
       /\ Begin(<<Document("items", Claimed(disk.items, i)),
                  Document("resources", Reserved(disk.resources, w, i)),
                  Document("workers", [disk.workers EXCEPT ![w] = worker]),
                  Event>>,
                Saved(<<"resources", "workers", "items">>), i, w)

\* Only one registry changes: the event that follows cannot be put back.
AttachInternalWorker(w) ==
    /\ op = Idle
    /\ disk.workers[w] # None
    /\ disk.workers[w].kind = "internal-subagent"
    /\ disk.workers[w].status = "reserved"
    /\ disk' = [disk EXCEPT !.workers[w].status = "active", !.workers[w].runtime = TRUE]
    /\ UNCHANGED <<plan, draft, op, torn>>

MayReport(w, status) ==
    LET worker == disk.workers[w]
    IN /\ worker.status \in Ended => status = worker.status
       /\ status \in {"active", "waiting", "attention"} => worker.runtime \/ worker.task # None

\* mutant: the claim ids are not compared
CancelledBeforeAttached(w, status) ==
    status = "cancelled" /\ disk.workers[w].status = "reserved" /\ disk.items[disk.workers[w].item].live

\* Cancelling before anything was attached gives back the claim, if it still is the worker's.
GivesBackClaim(w, status) ==
    LET worker == disk.workers[w]
    IN /\ status = "cancelled"
       /\ worker.status = "reserved"
       /\ disk.items[worker.item].live
       /\ disk.items[worker.item].claim = worker.claim

\* mutant: the units are given back before the worker has ended
ReturnFirst(w, status) ==
    <<Document("resources", IF status \in Ended THEN Returned(disk.resources, w) ELSE disk.resources),
      Document("workers", [disk.workers EXCEPT ![w].status = status])>>
\* mutant: a report that is repeated gives nothing back
ReturnOnce(w, status) ==
    <<Document("workers", [disk.workers EXCEPT ![w].status = status])>>
    \o (IF status \in Ended /\ Alive(w)
        THEN <<Document("resources", Returned(disk.resources, w))>> ELSE <<>>)

ReportWrites(w, status) ==
    <<Document("workers", [disk.workers EXCEPT ![w].status = status])>>
    \o (IF status \in Ended /\ disk.resources[w].state = "active"
        THEN <<Document("resources", Returned(disk.resources, w))>> ELSE <<>>)
    \o (IF GivesBackClaim(w, status)
        THEN <<Document("items", Released(disk.items, disk.workers[w].item))>> ELSE <<>>)

UpdateRuntimeWorker(w, status) ==
    /\ disk.workers[w] # None
    /\ MayReport(w, status)
    /\ Begin(ReportWrites(w, status) \o <<Event>>, <<>>, disk.workers[w].item, w)

(***************************************************************************)
(* User tasks.                                                             *)
(***************************************************************************)
ClaimOf(i) == IF disk.items[i].live THEN disk.items[i].claim ELSE None

AwaitsTask(w, i) ==
    /\ disk.workers[w] # None
    /\ disk.workers[w].kind = "user-task"
    /\ disk.workers[w].status = "reserved"
    /\ disk.workers[w].item = i
    /\ disk.workers[w].claim = ClaimOf(i)

Attached(workers, w, t) == [workers EXCEPT ![w].status = "active", ![w].task = t]
\* mutant: the task is put back before the worker
TaskFirstRollback == Saved(<<"tasks", "workers", "resources">>)
TaskRollback == Saved(<<"resources", "workers", "tasks">>)

RegisterTask(t, i, w, status) ==
    /\ disk.tasks[t] = None
    /\ \A s \in Tasks : s < t => disk.tasks[s] # None
    /\ Exists(i)
    /\ w # None => AwaitsTask(w, i)
    /\ Begin(<<Document("tasks", [disk.tasks EXCEPT ![t] =
                   [item |-> i, claim |-> ClaimOf(i), worker |-> w, status |-> status]])>>
             \o (IF w = None THEN <<>> ELSE <<Document("workers", Attached(disk.workers, w, t))>>)
             \o <<Event>>,
             TaskRollback, i, w)

\* The status of its task is reported for the worker; a report that is refused fails the command.
WorkerStatus(status) ==
    IF status \in {"completed", "archived"} THEN "completed"
    ELSE IF status = "setup" THEN "active" ELSE status

SyncWrites(w, status) ==
    IF w = None THEN <<>>
    ELSE IF MayReport(w, WorkerStatus(status)) THEN ReportWrites(w, WorkerStatus(status))
    ELSE <<Document("refused", None)>>

UpdateTask(t, status) ==
    /\ disk.tasks[t] # None
    /\ status = "archived" => \/ disk.tasks[t].status = "completed"
                              \/ disk.items[disk.tasks[t].item].stage \in Final
    /\ Begin(<<Document("tasks", [disk.tasks EXCEPT ![t].status = status])>>
             \o SyncWrites(disk.tasks[t].worker, status)
             \o <<Event>>,
             TaskRollback, disk.tasks[t].item, disk.tasks[t].worker)

(***************************************************************************)
(* The system.                                                             *)
(***************************************************************************)
Init ==
    /\ \E start \in Starts :
         disk = [items |-> [i \in Items |-> [stage |-> start[i], prior |-> None,
                                             claim |-> 0, live |-> FALSE, named |-> Named[i]]],
                 workers |-> [w \in Workers |-> None],
                 resources |-> [w \in Workers |-> [state |-> "none", units |-> 0, item |-> None]],
                 tasks |-> [t \in Tasks |-> None]]
    /\ plan = None
    /\ draft = None
    /\ op = Idle
    /\ torn = {}

Next ==
    \/ \E i \in Items :
         \/ CreateWorkItem(i) \/ ClaimWorkItem(i) \/ ReleaseWorkItemClaim(i) \/ ReworkWorkItem(i)
         \/ \E named \in Acks[i] : ConfigureWorkItem(i, named)
         \/ \E to \in Stages : TransitionWorkItem(i, to)
         \/ \E outcome \in {"done", "concluded"} : CloseWorkItem(i, outcome)
         \/ \E w \in Workers, kind \in Kinds[i] : PrepareWorkerDispatch(w, i, kind)
    \/ \E t \in Tasks, i \in Tasked, w \in Workers \cup (IF LooseTasks THEN {None} ELSE {}),
         status \in TaskReports : RegisterTask(t, i, w, status)
    \/ \E scope \in Scopes : ReadPlan(scope)
    \/ WritePlan
    \/ \E w \in Workers : AttachInternalWorker(w)
    \/ \E w \in Workers, status \in Reports : UpdateRuntimeWorker(w, status)
    \/ \E t \in Tasks, status \in TaskReports : UpdateTask(t, status)
    \/ Write
    \/ Fail
    \/ Crash

Spec == Init /\ [][Next]_vars

(***************************************************************************)
(* Properties.                                                             *)
(***************************************************************************)
Item == [stage : Stages \cup {"absent"}, prior : Stages \cup {None}, claim : Nat, live : BOOLEAN,
         named : SUBSET Items]
Resource == [state : {"none", "active", "released"}, units : Nat, item : Items \cup {None}]
ItemDocs == [Items -> Item]
WorkerDocs == [Workers -> Worker \cup {None}]
ResourceDocs == [Workers -> Resource]
TaskDocs == [Tasks -> Task \cup {None}]
Writes == [file : {"items"}, content : ItemDocs] \cup [file : {"workers"}, content : WorkerDocs]
          \cup [file : {"resources"}, content : ResourceDocs] \cup [file : {"tasks"}, content : TaskDocs]
          \cup [file : {"events", "refused"}, content : {None}]

\* Documents and writes have their types.
TypeOK ==
    /\ disk.items \in ItemDocs /\ disk.workers \in WorkerDocs
    /\ disk.resources \in ResourceDocs /\ disk.tasks \in TaskDocs
    /\ \A k \in DOMAIN op.todo : op.todo[k] \in Writes
    /\ \A k \in DOMAIN op.undo : op.undo[k] \in Writes
    /\ op.item \in Items \cup {None} /\ op.worker \in Workers \cup {None} /\ op.failed \in BOOLEAN
    /\ torn \subseteq Workers \X BOOLEAN
    /\ plan # None => plan.id \in Nat

\* An item is in the hands of one worker at a time: although its claim may be released, by hand or by a
\* transition, while the worker is at work, and a new plan offers the item again
\* (workers.mjs:166, the test for a non-terminal worker).
OneLiveWorker ==
    \A v, w \in Workers :
        Alive(v) /\ Alive(w) /\ disk.workers[v].item = disk.workers[w].item => v = w

\* Nobody works without the units the worker needed when it was prepared: units are taken before the
\* worker is on record and given back after it has ended, so that a crash never frees what is in use; only
\* the rollback of a preparation, which puts the units back first, passes through a gap
\* (workers.mjs:206-212, 257 and 355-357, tasks.mjs:104).
LiveWorkersHoldResources ==
    \A w \in Workers :
        Alive(w) /\ disk.workers[w].units > 0 =>
            \/ disk.resources[w].state = "active" /\ disk.resources[w].units = disk.workers[w].units
            \/ <<w, TRUE>> \in torn
            \/ op.worker = w /\ op.failed

\* No unit stays reserved for a worker that has ended or was never recorded, unless a command about the
\* worker is under way or was cut short; and not even then, once such a command has reached its end
\* (doctor.mjs:736, "terminal worker retains an active resource reservation").
NothingHeldInVain ==
    \A w \in Workers \ ({op.worker} \cup Torn) :
        disk.resources[w].state = "active" => Alive(w)

\* A worker's task is a task registered for that worker, its item and its claim, crashes included: the
\* task is written before the worker, and put back after it (tasks.mjs:211-230, workers.mjs:306).
WorkersKnowTheirTask ==
    \A w \in Workers :
        disk.workers[w] # None /\ disk.workers[w].task # None =>
            LET task == disk.tasks[disk.workers[w].task]
            IN task # None /\ task.worker = w
               /\ task.item = disk.workers[w].item /\ task.claim = disk.workers[w].claim

\* Cancelling a worker never takes an item away from somebody who claimed it after the worker's own
\* claim was released (workers.mjs:360, the comparison of claim ids).
SparesLaterClaims ==
    [][\A i \in Items :
         op.worker # None /\ disk.items[i].live /\ ~disk'.items[i].live /\ ~op.failed
         /\ Head(op.todo).file = "items"
           => /\ disk.workers[op.worker].item = i
              /\ disk.workers[op.worker].claim = disk.items[i].claim]_disk

\* When a worker takes up an item, the item names every open item it overlaps on which another worker is
\* at work, and the items it depends on are over: whatever happened since the plan was made, and also
\* when the plan is continued although it is stale as a whole (workers.mjs:171-185).
DispatchedInOrder ==
    [][\A w \in Workers : disk.workers[w] = None /\ disk'.workers[w] # None =>
         LET i == disk'.workers[w].item
         IN /\ Settled(disk.items, i)
            /\ \A v \in Workers : Alive(v) /\ disk.workers[v].item \in Overlaps(disk.items, i) =>
                 disk.workers[v].item \in disk.items[i].named]_disk
=============================================================================
