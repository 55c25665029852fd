# A TLA+ model of Temple / Workkeel

Temple (its task-first core is called Workkeel) is a command line tool, in JavaScript, that a team of
people and AI agents runs inside a Git checkout. It keeps the team's working agreements as files: tasks
with approved contracts, workflow runs with an operation journal, shared registries. There is no server
at the core. Every command is a process of its own that reads files, decides, and writes files, and
several people, agents and machines do that at the same time. What can go wrong lies between the
commands: a process that dies between two writes, two that pass the same check, a record that changed
since it was read, a request that arrives twice.

This directory models the parts that carry that risk, checks them with TLC and proves the most important
results with TLAPS. Paths below are those of the repository; its implementation is under `src/`.

## The system: inventory

The table has the parts with a protocol of their own. The full list, every source file with its status
and the reason for it, is under `components` in `PROJECT.json`.

| Part | State it keeps | Operations | Correct when |
|---|---|---|---|
| Native tasks (`workkeel-tasks.mjs`, `task-contract.mjs`) | one JSON record per task: state, version, contract, claim, candidate, reviews, history | create, claim, release, handoff, review, rework, close, cancel | an accepted candidate is the one that was delivered, independently reviewed and approved; dependencies and write roots hold; a repeated request changes nothing |
| Git working tree | commits, checked out commit, uncommitted changes | asked by the task engine | (external) |
| Project policy (`workkeel-project.mjs`) | members, approvers, required separation | init, edit | read afresh by every operation |
| Project mutation lock (`project.mjs`) | one lock file per checkout and host | wait, create, take over when older than five minutes, remove | operations exclude each other; waiters end |
| Workflow runner (`workkeel-workflows.mjs`) | per task claim: which run it is bound to; per run: lock, inventory, one record per operation, checkpoint, status, cancel request, settlement receipt | execute, cancel, recover lock | no operation is dispatched twice or on top of an uncertain one; approvals come first; a finished run stays finished |
| Workflow definitions and policy (`workkeel-workflow-schema.mjs`, `workkeel-execution-policy.mjs`) | none (pinned files) | validation | (inputs of the runner) |
| Continuation (`workkeel-continuation*.mjs`) | an intent (`successor.json`), a released and a new claim, a successor run | plan, continue | a run is continued once, only when it has settled, and nothing happens in it any more |
| Dispatch tickets (`workkeel-dispatch*.mjs`) | tickets and proofs of a claim | prepare, bind usage | a ticket proves work of its own claim only |
| Reconciliation (`reconciliation.mjs`, `field-commands.mjs`) | pending journal, receipts, a lock in the Git directory | preview, apply, recover | a merge of canonical records happens whole or not at all; edits survive |
| Work items and gates (`work-items.mjs`, `workflow*.mjs`) | one document per item: stage, claims, overlap resolution | create, configure, claim, release, transition, rework, close | one claimant, gates in order |
| Workers, plans, resources (`workers.mjs`, `orchestration.mjs`, `resources.mjs`) | a plan, the worker registry, reservations | plan, prepare, attach, report | one worker per item, units held as long as somebody works, overlaps acknowledged |
| User tasks (`tasks.mjs`) | the registry of tasks | register, update | a worker's task knows the worker |
| Lean delivery and finish (`lean-delivery*.mjs`, `lean-finish*.mjs`) | a journal, receipts, diagnostic records | deliver, finish, recover a finish | a completion happens as a whole and once; a finish is settled where it was made |
| Control plane (`control-plane-*.mjs`) | inbox of submissions, conditions | submit, decide, incorporate | a decision is applied once |
| Recovery (`recovery.mjs`) | backups, a ledger of restores | back up, prune, restore, recover | a restore happens whole or not at all |
| Durable files (`files.mjs`) | none | write, create, unlink with sync | atomic per file (assumed) |

How they interact: every command that changes records runs inside the project mutation lock, which also
refuses it while a reconciliation or a delivery is pending. Inside the lock a command is a sequence of
durable writes, so the lock keeps others out but not the death of the command itself. The planner and
the workflow runner do not hold that lock: the plan is compared again at each dispatch; the runner has a
lock per run, and before each dispatch it asks the task engine whether the claim still stands
(`assertTaskExecutionContext`). A continuation holds the lock of the run it continues, reads its
settlement receipt and goes through the task engine's release and claim. Workers hold a claim of an item
and units of a resource. Observers, monitors and reports only read.

What is hard: the interleaving of processes around lock files that are taken over by age or by the death
of their owner; crashes between the writes of one command, and in the middle of putting them back; late
answers of adapters after an abort; plans that are stale when they are used; requests repeated after a
lost answer, or late; checks of Git state that commits and branch switches overtake.
The 40 hazards under `hazards` in `PROJECT.json` name the line of each, and the property that is about
it or the reason why there is none.

## Modules

| Module | Models | Extends / uses |
|---|---|---|
| `Checkout` | what the task engine can learn from Git | |
| `TaskLifecycle` | the eight task operations | `Checkout` |
| `ChangeAcceptance` | abstract: one candidate is offered, vetted, accepted | implemented by `TaskLifecycle` |
| `TaskLifecycleProofs` | types, independent acceptance, final rejections, disjoint builders; histories, lineage, dependencies, scope, and the refinement of `ChangeAcceptance` | `TaskLifecycle` |
| `MutationLock` | `withProjectMutationLock` | |
| `MutationLockProofs` | exclusion and what it protects, while lock files are fresh | `MutationLock` |
| `WorkflowRun` | `executeWorkflow`, `cancelWorkflow`, `recoverWorkflowLock` | |
| `WorkflowRunProofs` | dispatchers, dispatches, answers and endings | `WorkflowRun` |
| `Continuation` | `continueWorkflow` around runs in outline, with the real task operations | `TaskLifecycle` |
| `ContinuationProofs` | what a continuation starts from and leaves behind | `Continuation`, `TaskLifecycleProofs` |
| `Reconciliation` | `applyReconciliation`, `recoverReconciliation` and their two locks | |
| `ThreeWayMerge` | `reconcileDocuments`: what three revisions of one record make | |
| `ThreeWayMergeProofs` | the merge holds the changes of both sides, and every event of both | `ThreeWayMerge` |
| `ContractMerge` | a reconciliation whose journals hold that merge | `Reconciliation`, `ThreeWayMerge` |
| `AtomicReconciliation` | abstract: the merge happens whole | implemented by `Reconciliation` |
| `ReconciliationProofs` | writers, receipts, edits, merged journals, and the refinement of `AtomicReconciliation` | `ContractMerge`, `ThreeWayMergeProofs` |
| `Dispatch` | the parallel plan, workers, reservations, user tasks and the work item commands that matter to them | |
| `DispatchProofs` | everything the run `dispatch` checks | `Dispatch` |
| `LeanDelivery` | deliver, finish and the recovery of a finish | |
| `LeanDeliveryProofs` | receipts, settlements, and the refinement of `AtomicCompletion` | `LeanDelivery` |
| `AtomicCompletion` | abstract: a stage is completed at once and once | implemented by `LeanDelivery` |
| `MC...` | small instances for TLC | the module of that name |

Definitions commented with `mutant:` next to an operation are plausible mistakes in it. They belong to
no specification. Each property of a passing run is tried against one of them (`mutants` in
`PROJECT.json`) and must be found violated, which shows that the property has something to say about
the code. `map` in `PROJECT.json` gives the source lines of every definition.

### Checkout and TaskLifecycle

`items[t]` is the canonical record of task `t`. Each action is one whole operation of
`mutateNativeTask` or `createNativeTask`: the request checks (`Admits`: expected version, operation id
not used, state), the authority checks (`InContext`, `MeetsPolicy`, `Separated`), the checks of pinned
files (`HasPins`), dependencies (`DependenciesHold`) and candidate (`CandidateOK`), then `Save`, which
writes the record with one more version and one more event. The operation runs under the project
mutation lock, so it is atomic here; `MutationLock` says when that is justified.

The environment does what people do between operations: edit the project policy, edit pinned evidence
(`Perishable`), let an authorization expire (`MayExpire`), and in `Checkout` edit, commit, discard and
switch commits. A commit is a number with the set of its ancestors and the roots it wrote. Four questions are all the
code asks of Git (exists, is an ancestor, differs in, is dirty in), and the model answers exactly those.

Abstractions: a digest of a record is the record; a claim id, a random UUID in the code, is the version
at the claim; a write root is a set of disjoint parts of the tree, so that "nested or equal" is "meets";
Git history is a tree (no merge commits). A checkout that brings back older tracked task records is left
out (`Switch`): the code has no other truth to compare them with.

### MutationLock

One action per step of the loop: create exclusively, stat, unlink when old, wait, give up after the
attempts, write the header, run the operation (read, write or throw), close and unlink by name. Age is
counted in ticks and saturates just past the limit. `lost` and `grewStale` are history variables: the
first records that an operation overwrote what it had not read, the second that a lock file outlived the
limit.

### WorkflowRun

A runner binds the claim to a run id, takes `runner.lock`, opens or creates the run, checks inventory
against records (`ReadJournal`), and lets the graph engine visit the nodes. A node goes through the
phases of a dispatch, each a write of its own: inventory, record with no result, adapter call, answer, result on
record, checkpoint. A runner may die between any two; another process may then recover its lock. The
clock's role (`Abort`), a cancel request, a lapsed claim and a hanging adapter abort it, and if the adapter does not settle the
lock is retained. `calls` is a history variable of the adapter calls made.

Abstractions: a process makes one call at a time, so a lock token is its process, and a dead process
never returns (a restart is another process). The graph engine is external: a node may be visited when
the nodes before it are in the checkpoint, which allows a bit more than its supersteps do. Loops with
visit counters, conditional edges and the status `paused` are left out. Reconciliation evidence is
believed, as in the code.

### Reconciliation

A command passes the door (the project mutation lock of its host), takes the lock in the Git directory,
pushing aside a dead owner of its own host, and then either applies or rolls back. Applying makes a
fresh preview, compares it with the reviewed one, writes the journal `pending.json`, checks and replaces
one record at a time, writes the receipt and removes the journal. Any failure on the way goes into the
rollback: look at all the records, restore one at a time, write the receipt, remove the journal. A
process may die at every step.

For the locks and the journal, `Merge` is a constant: any function from the contents of the records to
their merge or to a conflict. `ThreeWayMerge` is the merge itself, as functions over documents. Its own
properties compare it with a definition that knows nothing of arrays, indexes and shortcuts. A document
is a set of places (a field, or a record of an array under its key), and a merge holds at each place what
the side that changed it holds (`RecordsMerge`); a merge of histories holds every event of both
(`EventsSurvive`). `ContractMerge` puts the two together: `Document` says what document each body of a
record is, `Base` and `Incoming` which bodies the other two revisions have, and `Merge` is the merge of
these three. `MergesRecords` says of every journal that is pending, through deaths and recoveries, that
it takes each record to such a merge of what the record was. `MCReconciliation` computes `Merge` from two
registries of one worker who is at work, done (the incoming revision) or waiting (by hand: a conflict).

`MergeAssumption` says of the documents what their schemas do: a kind of document has an id or has none,
and the arrays that are merged record by record hold records with keys. An array of records without keys
is then a value like any other, which the merge does not look into, since two changes of it conflict. The
exception, histories, is covered where they are documents of their own (`EventArrays`); histories without
ids inside a registry are in the definition of the merge but not in the properties. The validation of the
merged documents against their schemas and each other (`validateCombinedDocuments`) is not modelled, only
that it depends on nothing but the contents. The records are written in any order (the code sorts them, and
restores in reverse). The generated views that the command rebuilds afterwards are left out, and so is
the other journal the door asks about (lean delivery). A process is one command, so its identity dies
with it; the reuse of a process id by the operating system, which would keep a dead lock closed, is left
out. A person or a command of another host may replace a record (`Edit`): always between commands, and
during them when `MayRace` holds.

`Committed` is the refinement mapping: while a journal is pending, a record that has its merged body
counts as it was before. With it, removing the journal of a finished merge is the one step at which all
the records change, and `AtomicReconciliation` allows no other change while a command is inside.

The door keeps two processes of one host apart here. Two situations are outside the model in which it
does not: the race of `mutation_lock_stale` below, and two paths to one checkout through a symbolic link
(`path.resolve` in `project.mjs` does not resolve links, `fs.realpath` in `reconciliation.mjs` does).
Then two contenders may both find the dead lock, and the second may remove the lock the first has taken
by then.

### Continuation

A process takes the lock of the source run, reads or records the intent, releases the claim, claims
again, inspects a second time and then becomes a runner of the successor (`ReadIntent` to `Load`). It may
die, or be refused, after each step, and be called again, by itself or beside another one; the exact
requests of the intent are found done by their operation ids (`Replayed`). Around it the source may be
recovered and taken up again by a runner, and people release, claim and hand off by hand. A recovery
checks the context, examines the lock and unlinks it in three steps (`Recover`, `ExamineLock`,
`RemoveLock`). The task operations are the actions of `TaskLifecycle`, a second task included that wants
the same write root.

A runner is an outline of what `WorkflowRun` has in detail: bind, lock, open, dispatch, answer, stop or
retain, settle, unlock. What can only refuse, and never lets anything happen that would not otherwise,
is not modelled but may be refused at any time (`Refused`, `Stop`): the comparison of the partial source
and HEAD with the receipt, `cancel.json`, the pins and the digest of the plan. Leaving these out only adds
behaviours. Merging steps takes some away: what a process reads and then writes in a run whose lock it
holds is one step (the inspection, the journal of a run, the unlocking), which changes nothing as long as
the lock excludes. What may change under a process in spite of its lock is read in a step of its own: the
claim (`Dispatch` before `RecordDispatch`, `ReadIntent` before `RecordIntent`, `Load`) and the lock that a
recovery examines.

Whether the lock excludes depends on the recoveries. `Recoverers` are the processes that may recover, and
the two properties about runs, `SourceStandsStill` and `ContinuedFromRest`, are checked with one of them
and proved under `SoleRecoverer`. With two, the second recovery may unlink the lock of a continuation at
work, as in `workflow_recovery`; a runner then takes up the source beside it, dispatches before the
release and is answered after it, or dispatches after the second inspection. TLC finds both properties
violated as soon as `Recoverers` has both processes. `BuildersDisjoint` does not depend on it.

Two things it shows that no property is about. The record of the task is read a second time after the
inspection, and the intent is built from that reading, so a release and a claim by hand in between make
the continuation give up a later claim than the one of its source. And a continuation that dies after
its release leaves the lock of the source behind for good: `recoverWorkflowLock` demands the run's own
claim, which is over (`Standing` in `Recover`; only a recovery that passed that check before the release
can still remove the lock), so "retrying the exact request"
(`docs/operations/workkeel-material-and-continuation.md:81`) helps after a refusal, not after a death,
which line 84 of that page leaves out of its promise.

### Dispatch

A command holds the project mutation lock and is the sequence of the documents it replaces, in the
order of the code (`Begin`, `Write`): the claim, the reservation, the worker, the event. A write may fail
(`Fail`), and then the documents are put back as they were, in the order of the code's rollback, which
may fail in turn; or the process may die (`Crash`) and leave everything as it is. `torn` is a history
variable: the workers a command about which was cut short, each with a flag that says whether its
documents were being put back by then. Such a worker may lack its units: the reservation goes back before
the worker does, and a rollback that stops between them leaves a gap which the next command about the
worker does not close while it lives. A worker's `units` stand for the reservations it was prepared with
(`resource_reservation_ids`). Commands that replace one document are one step. The planner is outside the lock: it reads the items (`ReadPlan`), and later the rest, and writes
(`WritePlan`).

`PrepareWorkerDispatch` compares the plan with the one that would be built now (`Fresh`), or goes on with
the wave it began, and asks readiness again. The items have stages, of which only the owner matters, and
their claims end when a transition changes the owner: the workers are not asked, in the model as in the
code.

Abstractions: every position has one eligible agent; one shared resource; the overlap of paths is a
relation; references, evidence and the event log as content are left out; so is `updated_at`, which
makes the model take a plan for fresh at least as often as the code does. Only the first wave of a plan
is kept, nothing reads the later ones.

### LeanDelivery

A completion writes a journal with the contents before and after of each of its files, then the files in
a fixed order with the receipt last, then (for a finish) an observation and a record of its diagnostics,
and removes the journal. It is rolled forward only: a repetition takes the journal up, skips what is
there and stops at anything that is neither before nor after. While the journal exists the lock admits
nothing but its own request. A finish then inspects its files, runs the doctor, inspects again, and
settles; a repetition may do that later, and `finish-recover` does it when evidence was amended or other
events followed. Processes die anywhere, files a completion is bound to are edited and edited back, an
actor loses the qualification, the doctor finds something else (`Disturb`).

The refinement mapping rolls forward: as soon as the journal exists, its contents count as written. With
it the journal is the one step at which everything happens, and `AtomicCompletion` allows nothing in
between.

Abstractions: a document is what a completion reads of it; mechanical and autonomous completion, the
product scope in Git and the refresh of views are left out; other commands are one step, since the lock
holds them back while a journal is pending.

## Runs

| Run | Question | Instance and why it is enough |
|---|---|---|
| `task_lifecycle` | Who may accept what, through rework, retries and policy edits; does the lifecycle implement `ChangeAcceptance`? | one task, three agents (two of one principal), both separations, 9 operations: a failed review, rework, second claim, delivery, review and close fit |
| `task_group` | Does an accepted revision contain its dependencies' accepted revisions, nothing out of its scope, and do its pins stand? | two tasks with records that Git tracks, two commits on any branches, evidence edits, an expiring approval; the dependent task may write nothing, so everything else is out of its scope |
| `mutation_lock` | Does the lock exclude while fresh; does every call end? | three processes, two attempts, one crash, operations longer than the limit: enough for a holder, a waiter that finds the file old, and a newcomer |
| `mutation_lock_stale` | (violation) Does it exclude always? | the same with quick operations |
| `workflow_run` | One dispatcher, one run per claim, finished is finished, calls end | two processes, two run ids, retries and a fallback, a claim that may lapse, one recoverer |
| `workflow_gated` | Do journal, approvals and completion agree; is anything dispatched twice or on uncertainty; do answers stand? | an approval before one node, another node beside it, two at a time, retries, two processes that crash and recover each other |
| `workflow_recovery` | (violation) Can two recoveries let two runners in? | three processes, one node |
| `continuation` | Is a run continued only when it has settled, does it stand still, and does the release in the middle let two builders in? | two processes, of which one may recover locks, two runs that may each be the source, two dispatches, a task with three operations by hand beside the two of the continuation, a rival for its root: one continuation that dies and one that repeats it, or a runner of the source at the same time |
| `reconciliation` | Is the merge atomic through failures, deaths and edits between commands; do writers exclude; are receipts true; do edits survive? Is the merge of any three revisions the changes of both sides? | two processes of one host and one of another, two records of three bodies: three commands are enough for an apply that dies, a recovery that dies and a second recovery, and two records for a half-written merge. For the merge, every three of: registries with up to two records, which differ in presence and in one value, in either order where their records have ids, and a plain field; versions of one work item; histories of up to two events with or without ids, one of them in two versions; and the absence of each |
| `reconciliation_race` | (violation) Do edits survive a rollback at work? | two processes, edits at any moment |
| `dispatch` | Do workers, claims, units and tasks keep agreeing through stale plans, released claims, failures and deaths? | three beginnings: one item from its creation on with internal and user tasks, whose commands may be cut short; two overlapping items, one of which waits for a third; one that may be put aside. Two workers and two plans: a second worker for the item of the first, and a wave that goes on under a stale plan |
| `lean_delivery` | Are completions atomic and settled in place; do they come to an end? | the build and the test of one item finished, the build of another delivered; two crashes or disturbances, two events of other commands |

Symmetry is used where processes, runs or records are interchangeable and the properties checked are
invariants and action properties. Deadlock checking is off where the system may really stop: all tasks
ended, all processes dead or out of calls.

### Bounds

`MaxRevision` commits; `MaxVersion` operations on a record (it stands for the 1 MiB limit, at which the
code refuses every operation). A request carries the version its sender last saw, the current or the one
before (`Observed`), and a new operation id or the latest one again (`OperationIds`). Operation ids are numbers,
or in `Derived`, the ids a program derives from what they are about, as a continuation does. `Perishable` and
`MayExpire` name what may change in a run of `TaskLifecycle`. `MaxAttempts` for 40, `StaleAfter` for
300 s and `MaxCrashes` in `MutationLock`. In `WorkflowRun`, `Answers` (which results adapters report) and
`Revocable` (whether the claim may lapse) choose what happens; `MaxDispatches`, `Parallelism`, `Attempts`
and `Fallbacks` are limits of the workflow itself. In `Continuation`, `MaxByHand`: up to which version a
task is changed by hand, `MaxDispatches` again, and `Recoverers`: who recovers locks. In `Reconciliation`, `MayRace`, and one command per
process; `Documents` and `EventArrays`, the revisions that are merged in `ThreeWayMerge` (the proofs take any that
satisfy `MergeAssumption`).

In `Dispatch`: `MaxItems` created, `MaxClaims` per item, `MaxPlans`, `MaxWorkers`, `MaxTasks`; `Fragile`,
the items whose commands may be cut short, and `MaxTorn`, how many workers may be in disorder at a time;
`Tasked`, `LooseTasks`, `Kinds`, `Reports`, `TaskReports`, `Escapes` and `Acks` choose which of the
possible tasks, reports, stages and resolutions occur. In `LeanDelivery`: `MaxEvents` of other commands,
`MaxTroubles` (crashes and disturbances together), `Policies`, `Amendable`, `Expiring` (what may change),
`Finishing` (which completions are finishes). Disturbances happen only while a completion is under way
or unsettled; at other times they would only change where it begins.

### Fairness

Three runs have liveness properties. In `MutationLock` each process's own steps are weakly fair: a
process that is not dead keeps executing its loop, whose waits are timers. In `WorkflowRun` the same
holds of each live runner's own steps (`RunnerStep`). No adapter, person, recovery or crash is fair there:
`CallsEnd` must hold, and does, with an adapter that never answers, because the abort timer and the five
seconds of settling are the runner's own. In `LeanDelivery` the steps of the command under way are weakly
fair and the repetition of an interrupted or failed request is strongly fair: the code keeps the journal,
refuses everything else and tells the caller to repeat the request. There is no claim that tasks ever
finish: nobody is obliged to act.

## Findings

1. `mutation_lock_stale` (`project.mjs:167`). A waiter tests the age of one lock file and unlinks
   whatever then bears the name. After a crash two waiters find the file stale; the first unlinks it and
   creates its own; the second unlinks that one. Both run, although
   `docs/extensions/workkeel-learning.md:20-21` counts on the lock to serialize event writes.
2. `workflow_recovery` (`workkeel-workflows.mjs:165`). Lock recovery compares a digest and then unlinks
   the name, with the same effect: a second recovery may remove the lock of the runner that has started
   in between. `docs/operations/workkeel-workflows.md:256-257` says recovery requires the original
   process to be stopped. What still holds then is proved
   (`DispatchedOnceHolds`): no operation is dispatched twice, because its record is created exclusively.
   A continuation holds the same lock and loses it in the same way (see `Continuation` above).
3. `reconciliation_race` (`reconciliation.mjs:487`). The rollback looks at all records before it
   restores any, but an edit made between the look and the restore is overwritten; the test ahead of
   each restore only asks whether there is anything to restore. The comment at `reconciliation.mjs:481`
   says such edits must survive. Edits made before the rollback starts do (`EditsSurvive`).

## What is proved

For every value of the constants that satisfies the named assumptions, by `tlapm`. The assumptions only
say what kind of value each constant is, unless noted.

**TaskLifecycleProofs** (from `LifecycleAssumption`, `CheckoutAssumption`): `TypeCorrect`,
`AcceptanceIsIndependent`, `RejectionIsFinal`, `BuildersAreDisjoint`. The properties are not inductive:
nothing in "an accepted task had a separated reviewer" says what a task in review looks like. The
invariant adds, for each record, which fields its state fills (`Filled`) and what the guards that filled
them leave behind (`Earned`). Every operation replaces one record, so a lemma per operation shows that
the new record is well formed, and one lemma lifts that to all records. Disjointness of builders, the
one conjunct about two records, moves only at a claim and at a release of roots.

From the same assumptions: `HistoriesAreKept`, `LineageIsUnbroken`, `OperationsAreAppliedOnce`,
`GroupInductive`, `PinnedDependenciesAreKept`, `AcceptedTasksStayInScope`, `DependenciesAreContained`,
`LifecycleImplementsAcceptance`. A lemma per operation (`ClaimDoes`,
`CloseDoes`, ...) says once what it makes of the record, and the rest cites that. `HistoryOK` is about one
record: an event per version, no operation id twice, and from the claim on one event for each state the
task went through (`Path`), so that at the close the last four are claim, handoff, review and close of one
candidate. `GroupOK` is about several records and Git: what `close` found (`Sound`) is about commits, and
commits are never rewritten (`CommitsStand`); the accepted are not touched again; and a pinned dependency
is accepted when it is pinned, hence for good. What a working tree or a branch switch does to the check
afterwards needs no argument, since nothing is checked twice. The refinement maps a record to the phase,
candidate, author and refused revisions an observer sees: each operation is one step of
`ChangeAcceptance` or a stutter.

**MutationLockProofs** (from `LockAssumption`): `TypeCorrect`, `FreshLocksExclude`,
`FreshLocksLoseNothing`. The invariant adds that as long as no lock file outlived the limit nobody is
about to unlink one and the file names whoever is inside (`Fresh`), so a process between its read and
its write read last (`ReadsCurrent`).

**ThreeWayMergeProofs** (from `MergeAssumption`): `RecordsAlwaysMerge`, `EventsAlwaysSurvive`. The code
merges array by array and takes shortcuts (equal sides, an unchanged side, a missing document); the
property goes place by place. The lemmas meet in the middle. `Stock` is an array as a set and `At` the
record under a key, which the code finds by an index; `ByKeyMerges` says that an array merged by keys
conflicts exactly where some key does and otherwise holds under each key what the sides make of it
(`Mix`). `FieldsMerge` lifts that to objects and `WholesMerge` to documents that are indivisible or
absent; `IrresponsibleMerge` is the rule that only one side may change who is responsible. That
the sides may trade places (`DocumentSymmetric`) halves the cases. For histories, `KeepsPast` says what
the guard of an append-only history means, and `InOrderKeeps` that bringing a merge into order loses no
event.

**ReconciliationProofs** (from `ReconciliationAssumption`; `ReceiptsAreTrue`, `KnownEditsSurvive` and
`MergesWholly` also from `MayRace = FALSE`): `TypeCorrect`, `WritersExclude`, `ReceiptsAreTrue`,
`KnownEditsSurvive`, `MergesWholly`; and `ContractsMerge`, `HistoriesMerge` from `ContractAssumption` and
`MergeAssumption`, whatever races there are. Three layers.
`Equipped`: at each place a process has the journal and the record it is about to use. `Guarded`: whoever
is past the door holds it, whoever is inside holds the lock, and a lock about to be removed belongs to a
dead process of the same host. It is what makes the unsafe looking "inspect, then unlink" safe: another
contender would have to pass the same door. `Recorded`: which records are merged and which as before at
each place inside. `MergesWholly` is the refinement: under `Committed` every step of a command is a
stutter except the removal of a finished journal, which is the abstract merge, and an edit is an
abstract edit. `Genuine` follows a journal from the preview under the lock to the disk and into the hands
of whoever takes it up later; with it, what `ThreeWayMergeProofs` says of any three documents holds of
every journal.

**WorkflowRunProofs** (from `WorkflowAssumption`): `TypeCorrect`, `DispatchedOnceHolds`,
`OneRunPerClaimHolds`, whoever recovers locks; and `OneDispatcherHolds`, `AnswersStandAlways`,
`NothingOnUncertaintyHolds`, `CompletedIsCompleteHolds` and `FinishedIsOverAlways` under `SoleRecoverer`,
that at most one process ever recovers locks; the run `workflow_recovery` shows what happens without it.
`WorkflowAssumption` also says that the graph has no loops, the only graphs the model has. Seven layers.
`Typed` says which fields of a runner
its place and phases fill. `Dispatches`: an operation that was called has a record, one that is between
its record and its call was created by this very runner and called by nobody, which is why the
exclusive creation of the record is enough even with two runners at work. `Bound`: every runner past its
binding works on the one run of the claim. `Locked`: whoever is inside a run is the process its lock
names, and a recoverer about to unlink it has seen a dead owner. `Journaled`: the outstanding operations
of a runner are unanswered on disk. `Clear`: past the check of the journal, whatever is unanswered is
the runner's own. `Accounted`: the runner's books agree with its journal but for the operations on their
way into it, and every finished node has a completed operation; when nothing is left to visit, nothing is
on its way, and without loops that means that every node has ended.

**DispatchProofs** (from `DispatchAssumption`): `DispatchInductive`, `TypesAreKept`, `OneWorkerAtATime`,
`WorkIsSupplied`, `NothingStaysHeld`, `TasksAreKnown`, `LaterClaimsAreSpared`, `DispatchesInOrder`. A
command is two lists, the documents it writes and those that put things back, and the lists decide every
state it may still lead to: `Path(k)` after `k` writes and `Back(k, m)` when `m` documents were put back
after that. The invariant `Dispatching` says what holds of all the states ahead, and of each step from
one to the next: workers, claims and tasks agree (`Sound`), units are there (`Held`) and not held for
nobody (`Vain`), and the two action properties hold (`Stepwise`). A write, a failure and a crash only move
along these states, so they need one argument each, and everything that has to be shown of a command is
shown where it begins, from what it read there under the lock. The plan plays no part in it: the
preparation asks again, and a plan of any content, however stale, is covered.

**ContinuationProofs** (from `ContinuationAssumption` and those of the task operations):
`ContinuedBuildersAreDisjoint`, whoever recovers locks; and `ContinuationInductive`, `ContinuesFromRest`,
`SourcesStandStill` under `SoleRecoverer`, that at most one process ever recovers locks. `Typed`, which
the first one rests on, has the invariant of the task records in it (`IndInv`, `HistoryOK`), the types of
what a process and a run hold, and that an intent stays on record: the release and the claim of a
continuation are ordinary operations, and nothing else of it matters to `BuildersDisjoint`. The others
need the locks. `Locked`: whoever works in a run or continues it holds its lock, a lock about to be
unlinked is one that names nobody, a runner's claim is one the task has had, and nobody is about to
dispatch, or at a call, in a run whose claim was given up. `Guided`: how far a continuation has come with
its source. `OnRecord`: what a run keeps, each field of which is written once (`Fixed`). The claim is
where the two halves meet: its id is the version of the task at the claim, so a claim that stands is the
latest version, and once the release of the source is in the history the claim of the source is older than
that and stands never again. A runner of the source asks before each dispatch, and between the question
and the record it holds the lock, which the continuation would need for its release.

**LeanDeliveryProofs** (from `LeanAssumption`): `TypeCorrect`, `CompletionIsAtomic`, `ReceiptsVouch`,
`SettlementsHold`. `Typed` says what the command under way has in hand at each place: a journal of its own
request while it writes, a record while it inspects. `Rolling` says how far the writing is: what the
command passed holds what the journal says, and all of it does when the journal goes. With it a
completion is one abstract step, the writing of its journal: under the mapping (the files as they are once
the journal is applied) a write, a crash and a repetition change nothing, and neither does the removal of
the journal. `Accounted` counts the events of a completion: none before its journal, none or one while it
is written, one from the receipt on; the receipt is the last of the files, so `Rolling` has the rest.
`Checked` carries what the diagnostics found to the write that settles the finish.

Only model-checked are the liveness properties `EveryCallEnds`, `CallsEnd`, `JournalsAreApplied` and
`FinishesSettle`: the prover does not reach liveness under fairness. All other properties of the passing
runs are theorems. Types that are proved are not checked again, except those of
`Dispatch`, where the type invariant of the run is the one the proof starts from.

## Hazards without a property

- A task in test whose working tree another task's tracked record changed, an authorization that lapses in
  build, a record at its size limit: progress that depends on people, nothing to state.
- The record of a pinned dependency edited outside the commands: records change by operations only here,
  so the comparison of digests always succeeds. `PinnedDependenciesStand` is about the operations.
- Units reserved by a preparation that died before its worker was on record: no command gives them back.
- The claim a continuation gives up is not always the one it inspected (see `Continuation` above).
- Readiness and the planner differ about ancestors and one-sided resolutions: a dispatch refuses what the
  plan offered. `DispatchedInOrder` states the stricter rule.
- Two unsettled finishes keep each other from being settled, and a finish recovery that dies after its
  artifact is never accepted again once an event follows. The model reaches both; the code has no
  operation that undoes them, and `FinishesSettle` is stated for the other cases (`Settleable`).

## What is not modelled, and why

- Parsing, schema validation, rendering, reports, monitors, telemetry, publication: functions of one
  input, or read-only views.
- The atomicity of one durable write (`files.mjs`): assumed. A crash falls before or after it.
- Symbolic links, permissions and malformed files: every operation refuses them and changes nothing.
- The protocols behind the adapters (`codex-app-server-provider.mjs` and others): the runner relies on
  nothing but "answers once, throws or never answers".
- The membership and delegation of positions (`collaboration.mjs`): who may act is a constant, or may
  lapse.
- Dispatch tickets, the control plane's inbox, backups and restore: planned, see below.

## Plan

Done: `Checkout`, `ChangeAcceptance`, `TaskLifecycle`, `MutationLock`, `WorkflowRun`,
`AtomicReconciliation`, `Reconciliation`, `ThreeWayMerge`, `ContractMerge`, `Dispatch`,
`AtomicCompletion`, `LeanDelivery` and `Continuation`, each with proofs. Next, in this order:

1. The outline of a runner in `Continuation` as an abstraction of `WorkflowRun`.
2. `Restore`: backups and the ledger of a restore, with the fault model of `Reconciliation`.
3. `Inbox`: submissions and approvals of the control plane, and the mark outside the lock.
4. Dispatch tickets; mechanical and autonomous completion, which share the journal of `LeanDelivery`.
