----------------------------- MODULE WorkflowRun -----------------------------
(***************************************************************************)
(* The runner of src/workkeel-workflows.mjs: executeWorkflow,              *)
(* cancelWorkflow and recoverWorkflowLock on the execution directories of  *)
(* one task claim.  A runner binds the claim to a run, takes its           *)
(* runner.lock, checks the operation journal, and lets the graph engine    *)
(* visit the nodes; a node is dispatched to a runtime adapter only after   *)
(* its operation is in the inventory and in a record of its own.  Runners  *)
(* die at any point; what they wrote stays.                                *)
(*                                                                         *)
(* Abstractions.  A lock token is its runner: a process makes one call at  *)
(* a time.  The graph engine is external: it visits a node when the nodes  *)
(* before it are in the checkpoint, and the graph has no loops, so the     *)
(* visit counter of an operation id is left out.  "retry" stands for a     *)
(* failed result with outcome "retry" and a conversation to resume.        *)
(* Reconciliation evidence is believed, as the code does.                  *)
(***************************************************************************)
EXTENDS Naturals, FiniteSets, Sequences

CONSTANTS
    Runners,       \* processes
    Recoverers,    \* those whose operator may recover a lock
    Runs,          \* run ids used for the one claim
    Nodes, Gates,  \* runtime and approval nodes of the workflow
    Before,        \* Before[n]: the nodes with an edge to n
    Retrying,      \* nodes with "retry"
    Attempts,      \* limits.attempts_per_node
    Fallbacks,     \* how many fallback models a node has
    MaxDispatches, \* limits.steps
    Parallelism,   \* limits.parallelism
    Answers,       \* bound: the results adapters and host evidence report
    Revocable,     \* bound: whether the claim or its authority may lapse
    None

Results == {"completed", "failed", "retry", "not-started", "interrupted"}

Operations == Nodes \X (0..Attempts - 1)

ASSUME WorkflowAssumption ==
    /\ Recoverers \subseteq Runners
    /\ Nodes \cap Gates = {} /\ Retrying \subseteq Nodes
    /\ Before \in [Nodes \cup Gates -> SUBSET (Nodes \cup Gates)]
    /\ \A S \in SUBSET (Nodes \cup Gates) : S # {} => \E n \in S : Before[n] \cap S = {}    \* no loops
    /\ {Attempts, MaxDispatches, Parallelism} \subseteq Nat \ {0} /\ Fallbacks \in Nat
    /\ Revocable \in BOOLEAN /\ Answers \subseteq Results
    /\ None \notin Runners \cup Runs /\ \A S \in SUBSET Operations : S # None

Records == {"none", "intent"} \cup Results    \* "intent": result is null
Finished == {"completed", "cancelled", "rejected"}
Statuses == {"created", "running", "awaiting-approval", "blocked"} \cup Finished

Directory == [lock : Runners \cup {None}, run : BOOLEAN, inventory : (SUBSET Operations) \cup {None},
              ops : [Operations -> Records], database : BOOLEAN, done : SUBSET (Nodes \cup Gates),
              pending : SUBSET Gates, approved : SUBSET Gates, status : Statuses,
              cancel : BOOLEAN, settlement : [Operations -> Records] \cup {None}]

Places == {"idle", "bind", "lock", "open", "inventory", "journal", "database", "admit",
           "graph", "closing", "unlock", "unlink", "retained", "recover", "dead"}
Phases == {"waiting", "try", "inventory", "record", "call", "running", "result", "save", "failed"}

Process == [pc : Places, run : Runs \cup {None}, fresh : BOOLEAN, aborted : BOOLEAN,
            unsettled : BOOLEAN, jammed : BOOLEAN, known : SUBSET Operations, granted : SUBSET Gates,
            phase : [Nodes -> Phases], attempt : [Nodes -> 0..Attempts]]

VARIABLES
    binding,   \* claims/<digest of task and claim>.json: the run the claim is bound to
    dir,       \* dir[r]: the execution directory of run r
    proc,      \* proc[p]: the local state of runner p
    standing,  \* assertTaskExecutionContext passes
    calls      \* history: calls[r][o]: the runners that called the adapter for o

vars == <<binding, dir, proc, standing, calls>>

NoRun == [lock |-> None, run |-> FALSE, inventory |-> None, ops |-> [o \in Operations |-> "none"],
          database |-> FALSE, done |-> {}, pending |-> {}, approved |-> {}, status |-> "created",
          cancel |-> FALSE, settlement |-> None]

Rested == [pc |-> "idle", run |-> None, fresh |-> FALSE, aborted |-> FALSE,
           unsettled |-> FALSE, jammed |-> FALSE, known |-> {}, granted |-> {},
           phase |-> [n \in Nodes |-> "waiting"], attempt |-> [n \in Nodes |-> 0]]

Init ==
    /\ binding = None
    /\ dir = [r \in Runs |-> NoRun]
    /\ proc = [p \in Runners |-> Rested]
    /\ standing = TRUE
    /\ calls = [r \in Runs |-> [o \in Operations |-> <<>>]]

At(p, place) == proc[p].pc = place
Run(p) == dir[proc[p].run]
Become(p, state) == proc' = [proc EXCEPT ![p] = state]
Goto(p, place) == Become(p, [proc[p] EXCEPT !.pc = place])
Store(p, contents) == dir' = [dir EXCEPT ![proc[p].run] = contents]

Recorded(d) == {o \in Operations : d.ops[o] # "none"}
Unanswered(d) == {o \in Operations : d.ops[o] = "intent"}

-----------------------------------------------------------------------------
(* From the call to the graph. *)

\* loadInputs: the task context stands.
Execute(p, r) ==
    /\ At(p, "idle") /\ standing
    /\ Become(p, [Rested EXCEPT !.pc = "bind", !.run = r])
    /\ UNCHANGED <<binding, dir, standing, calls>>

BindAnyRun(p) ==    \* mutant: an existing binding is not compared
    /\ At(p, "bind")
    /\ binding' = IF binding = None THEN proc[p].run ELSE binding
    /\ Become(p, [proc[p] EXCEPT !.pc = "lock", !.fresh = ~dir[proc[p].run].run])
    /\ UNCHANGED <<dir, standing, calls>>

\* One run per claim.
Bind(p) ==
    /\ At(p, "bind")
    /\ \/ /\ binding = None
          /\ binding' = proc[p].run
          /\ Become(p, [proc[p] EXCEPT !.pc = "lock", !.fresh = TRUE])
       \/ /\ binding = proc[p].run /\ Goto(p, "lock") /\ UNCHANGED binding
       \/ /\ binding \notin {None, proc[p].run} /\ Become(p, Rested) /\ UNCHANGED binding
    /\ UNCHANGED <<dir, standing, calls>>

LockExpired(p) ==    \* mutant: a dead runner's lock is taken over without recovery
    /\ At(p, "lock")
    /\ IF Run(p).lock = None \/ proc[Run(p).lock].pc \in {"dead", "retained"}
       THEN Goto(p, "open") /\ Store(p, [Run(p) EXCEPT !.lock = p])
       ELSE Become(p, Rested) /\ UNCHANGED dir
    /\ UNCHANGED <<binding, standing, calls>>

\* lockWorkflowDirectory
Lock(p) ==
    /\ At(p, "lock")
    /\ IF Run(p).lock = None
       THEN Goto(p, "open") /\ Store(p, [Run(p) EXCEPT !.lock = p])
       ELSE Become(p, Rested) /\ UNCHANGED dir
    /\ UNCHANGED <<binding, standing, calls>>

\* The catch block: the status of a run that could not go on.  Outside the graph
\* it says "cancelled" when the caller's signal or the time limit came first.
Stopped(d, aborted) == [d EXCEPT !.status = IF aborted THEN "cancelled" ELSE "blocked"]

Block(p, d) ==
    /\ Become(p, [proc[p] EXCEPT !.pc = "closing", !.known = Recorded(d)])
    /\ \E aborted \in BOOLEAN : Store(p, Stopped(d, aborted))

ReopenFinished(p) ==    \* mutant: a finished run is taken up again
    /\ At(p, "open")
    /\ \/ /\ Run(p).run /\ Become(p, [proc[p] EXCEPT !.pc = "journal", !.fresh = FALSE])
          /\ UNCHANGED dir
       \/ /\ ~Run(p).run /\ proc[p].fresh
          /\ Goto(p, "inventory") /\ Store(p, [Run(p) EXCEPT !.run = TRUE])
       \/ /\ ~Run(p).run /\ ~proc[p].fresh /\ Goto(p, "closing") /\ UNCHANGED dir
    /\ UNCHANGED <<binding, standing, calls>>

\* run.json: create it for a new binding, take it up, or stop where the request is
\* not the one it pins, the run is finished or its initialization was interrupted;
\* none of these writes a status.
Open(p) ==
    /\ At(p, "open")
    /\ \/ /\ Run(p).run /\ Run(p).status \notin Finished
          /\ Become(p, [proc[p] EXCEPT !.pc = "journal", !.fresh = FALSE])
          /\ UNCHANGED dir
       \/ /\ ~Run(p).run /\ proc[p].fresh
          /\ Goto(p, "inventory") /\ Store(p, [Run(p) EXCEPT !.run = TRUE])
       \/ /\ Run(p).run \/ ~proc[p].fresh
          /\ Goto(p, "closing") /\ UNCHANGED dir
    /\ UNCHANGED <<binding, standing, calls>>

\* operations-index.json of a new run.
CreateInventory(p) ==
    /\ At(p, "inventory")
    /\ Goto(p, "journal") /\ Store(p, [Run(p) EXCEPT !.inventory = {}])
    /\ UNCHANGED <<binding, standing, calls>>

ReadJournalLeniently(p) ==    \* mutant: an unanswered dispatch does not stop the run
    /\ At(p, "journal")
    /\ IF Run(p).inventory = Recorded(Run(p))
       THEN /\ Become(p, [proc[p] EXCEPT !.pc = "database", !.known = Recorded(Run(p)) \ Unanswered(Run(p))])
            /\ UNCHANGED dir
       ELSE Block(p, Run(p))
    /\ UNCHANGED <<binding, standing, calls>>

ReconcileAnything(p) ==    \* mutant: evidence is accepted for answered operations too
    /\ At(p, "journal")
    /\ Run(p).inventory = Recorded(Run(p))
    /\ \E o \in Operations, answer \in Answers :
            /\ Become(p, [proc[p] EXCEPT !.pc = "database", !.known = Recorded(Run(p))])
            /\ Store(p, [Run(p) EXCEPT !.ops[o] = IF @ = "none" THEN @ ELSE answer])
    /\ UNCHANGED <<binding, standing, calls>>

\* The journal is complete, and every operation in it has a result, those the
\* caller brings host evidence for included.
ReadJournal(p) ==
    /\ At(p, "journal")
    /\ IF Run(p).inventory # Recorded(Run(p))
       THEN Block(p, Run(p))
       ELSE \E S \in SUBSET Unanswered(Run(p)) : \E answer \in [S -> Answers] :
            LET read == [Run(p) EXCEPT !.ops =
                            [o \in Operations |-> IF o \in S THEN answer[o] ELSE @[o]]]
            IN  IF Unanswered(read) = {}
                THEN /\ Become(p, [proc[p] EXCEPT !.pc = "database", !.known = Recorded(read)])
                     /\ Store(p, read)
                ELSE Block(p, read)
    /\ UNCHANGED <<binding, standing, calls>>

\* checkpoints.sqlite: created with the run, never later.
OpenDatabase(p) ==
    /\ At(p, "database")
    /\ IF proc[p].fresh \/ Run(p).database
       THEN Goto(p, "admit") /\ Store(p, [Run(p) EXCEPT !.database = TRUE])
       ELSE Block(p, Run(p))
    /\ UNCHANGED <<binding, standing, calls>>

\* stopIfNeeded passes.
MayGoOn(p) == standing /\ ~Run(p).cancel /\ ~proc[p].aborted

\* An incompatible adapter, or a context that lapsed meanwhile.
Refuse(p) ==
    /\ At(p, "admit")
    /\ Block(p, Run(p))
    /\ UNCHANGED <<binding, standing, calls>>

\* The caller brings decisions on pending approvals, none of them, or wrong
\* ones, which stop the call before it writes anything.
Admit(p) ==
    /\ At(p, "admit") /\ MayGoOn(p)
    /\ \E D \in SUBSET Run(p).pending : \E approve \in [D -> BOOLEAN] :
        LET kept == [Run(p) EXCEPT !.approved = @ \cup {g \in D : approve[g]}]
        IN  \/ /\ \E g \in D : ~approve[g]
               /\ Goto(p, "closing") /\ Store(p, [kept EXCEPT !.status = "rejected"])
            \/ /\ D = {} /\ Run(p).pending # {}
               /\ Goto(p, "closing") /\ Store(p, [kept EXCEPT !.status = "awaiting-approval"])
            \/ /\ \A g \in D : approve[g]
               /\ D # {} \/ Run(p).pending = {}
               /\ Become(p, [proc[p] EXCEPT !.pc = "graph", !.granted = D])
               /\ Store(p, [kept EXCEPT !.status = "running"])
    /\ UNCHANGED <<binding, standing, calls>>

AdmitNothing(p) ==
    /\ At(p, "admit") /\ MayGoOn(p)
    /\ Goto(p, "closing")
    /\ UNCHANGED <<binding, dir, standing, calls>>

-----------------------------------------------------------------------------
(* The graph. *)

Step(p, n, phase) == Become(p, [proc[p] EXCEPT !.phase[n] = phase])
Active(p) == {n \in Nodes : proc[p].phase[n] \notin {"waiting", "failed"}}
Failed(p) == {n \in Nodes : proc[p].phase[n] = "failed"}
Ready(p) == {n \in (Nodes \cup Gates) \ Run(p).done : Before[n] \subseteq Run(p).done}
Alive(p) == proc[p].pc \in {"graph", "closing", "retained"}

Visit(p, n) ==
    /\ At(p, "graph") /\ Failed(p) = {} /\ ~proc[p].aborted
    /\ n \in Ready(p) /\ proc[p].phase[n] = "waiting"
    /\ Cardinality(Active(p)) < Parallelism
    /\ Become(p, [proc[p] EXCEPT !.phase[n] = "try", !.attempt[n] = 0])
    /\ UNCHANGED <<binding, dir, standing, calls>>

\* An approval node ends with the decision of this call, or interrupts.
VisitGate(p, g) ==
    /\ At(p, "graph") /\ Failed(p) = {} /\ ~proc[p].aborted
    /\ g \in Ready(p)
    /\ IF g \in proc[p].granted
       THEN Store(p, [Run(p) EXCEPT !.done = @ \cup {g}, !.pending = @ \ {g}])
       ELSE g \notin Run(p).pending /\ Store(p, [Run(p) EXCEPT !.pending = @ \cup {g}])
    /\ UNCHANGED <<binding, proc, standing, calls>>

Op(p, n) == <<n, proc[p].attempt[n]>>

\* One round of the attempt loop up to the journal: a result on record is
\* taken from there, an operation without one is never dispatched again.
Try(p, n) ==
    /\ Alive(p) /\ proc[p].phase[n] = "try"
    /\ \/ /\ ~MayGoOn(p) \/ proc[p].attempt[n] = Attempts
          /\ Become(p, [proc[p] EXCEPT !.phase[n] = "failed", !.aborted = @ \/ Run(p).cancel])
       \/ /\ MayGoOn(p) /\ proc[p].attempt[n] < Attempts
          /\ Op(p, n) \in proc[p].known
          /\ Step(p, n, IF Run(p).ops[Op(p, n)] \in Results THEN "result" ELSE "failed")
       \/ /\ MayGoOn(p) /\ proc[p].attempt[n] < Attempts
          /\ Op(p, n) \notin proc[p].known
          /\ IF Cardinality(proc[p].known) < MaxDispatches
             THEN Become(p, [proc[p] EXCEPT !.phase[n] = "inventory", !.known = @ \cup {Op(p, n)}])
             ELSE Step(p, n, "failed")
    /\ UNCHANGED <<binding, dir, standing, calls>>

CallOnInventory(p, n) ==    \* mutant: the record is left to the answer
    /\ Alive(p) /\ proc[p].phase[n] = "inventory"
    /\ Store(p, [Run(p) EXCEPT !.inventory = proc[p].known])
    /\ Step(p, n, "call")
    /\ UNCHANGED <<binding, standing, calls>>

\* createIntent, one at a time, until one of them fails: the inventory first ...
WriteInventory(p, n) ==
    /\ Alive(p) /\ proc[p].phase[n] = "inventory"
    /\ \A m \in Nodes : proc[p].phase[m] # "record"
    /\ IF proc[p].jammed
       THEN Step(p, n, "failed") /\ UNCHANGED dir
       ELSE Step(p, n, "record") /\ Store(p, [Run(p) EXCEPT !.inventory = proc[p].known])
    /\ UNCHANGED <<binding, standing, calls>>

\* ... then the record, created exclusively.  If somebody else created it, this
\* creation fails, and so does every later one of this runner.
WriteRecord(p, n) ==
    /\ Alive(p) /\ proc[p].phase[n] = "record"
    /\ IF Run(p).ops[Op(p, n)] = "none"
       THEN /\ Store(p, [Run(p) EXCEPT !.ops[Op(p, n)] = "intent"])
            /\ Step(p, n, "call")
       ELSE /\ Become(p, [proc[p] EXCEPT !.phase[n] = "failed", !.jammed = TRUE])
            /\ UNCHANGED dir
    /\ UNCHANGED <<binding, standing, calls>>

\* adapter.start or adapter.resume
CallAdapter(p, n) ==
    /\ Alive(p) /\ proc[p].phase[n] = "call"
    /\ calls' = [calls EXCEPT ![proc[p].run][Op(p, n)] = Append(@, p)]
    /\ Step(p, n, "running")
    /\ UNCHANGED <<binding, dir, standing>>

\* The adapter answers, in time or after an abort; the answer goes on record.
Answer(p, n, result) ==
    /\ Alive(p) /\ proc[p].phase[n] = "running"
    /\ Store(p, [Run(p) EXCEPT !.ops[Op(p, n)] = result])
    /\ Step(p, n, "result")
    /\ UNCHANGED <<binding, standing, calls>>

\* It throws, perhaps saying that its child may still be at work: no result.
AdapterThrows(p, n) ==
    /\ Alive(p) /\ proc[p].phase[n] = "running"
    /\ \E unsettled \in BOOLEAN :
        Become(p, [proc[p] EXCEPT !.phase[n] = "failed", !.unsettled = @ \/ unsettled])
    /\ UNCHANGED <<binding, dir, standing, calls>>

Earlier(p, n, result) ==
    Cardinality({k \in 0..(proc[p].attempt[n] - 1) : Run(p).ops[<<n, k>>] = result})

\* What may follow a result: the checkpoint, a fallback model before anything
\* was started, a resumed conversation; anything else fails the node.
Consider(p, n) ==
    /\ Alive(p) /\ proc[p].phase[n] = "result"
    /\ LET result == Run(p).ops[Op(p, n)]
           conversing == Earlier(p, n, "retry") > 0
           again == \/ result = "not-started" /\ ~conversing
                       /\ Earlier(p, n, "not-started") < Fallbacks
                    \/ result = "retry" /\ n \in Retrying
       IN  \/ /\ result = "completed" /\ Step(p, n, "save")
           \/ /\ again
              /\ Become(p, [proc[p] EXCEPT !.phase[n] = "try", !.attempt[n] = @ + 1])
           \/ /\ conversing \/ (~again /\ result # "completed")    \* or it changed the conversation
              /\ Step(p, n, "failed")
    /\ UNCHANGED <<binding, dir, standing, calls>>

\* The engine checkpoints a node that ended, unless it has already given up.
Save(p, n) ==
    /\ Alive(p) /\ proc[p].phase[n] = "save"
    /\ Step(p, n, "waiting")
    /\ IF At(p, "graph") THEN Store(p, [Run(p) EXCEPT !.done = @ \cup {n}]) ELSE UNCHANGED dir
    /\ UNCHANGED <<binding, standing, calls>>

\* The timer: time limit, a cancel request, a lapsed context, or the caller's signal.
Abort(p) ==
    /\ At(p, "graph") /\ ~proc[p].aborted
    /\ Become(p, [proc[p] EXCEPT !.aborted = TRUE])
    /\ UNCHANGED <<binding, dir, standing, calls>>

GraphFails(p) ==
    /\ At(p, "graph") /\ (Failed(p) # {} \/ proc[p].aborted)
    /\ Become(p, [proc[p] EXCEPT !.pc = "closing", !.aborted = TRUE])
    /\ Store(p, Stopped(Run(p), proc[p].aborted))
    /\ UNCHANGED <<binding, standing, calls>>

EndEarly(p) ==    \* mutant: the end does not wait for pending approvals
    /\ At(p, "graph") /\ Failed(p) = {} /\ ~proc[p].aborted /\ Active(p) = {}
    /\ Ready(p) \subseteq Run(p).pending \ proc[p].granted
    /\ Goto(p, "closing")
    /\ Store(p, [Run(p) EXCEPT !.status = "completed"])
    /\ UNCHANGED <<binding, standing, calls>>

GraphEnds(p) ==
    /\ At(p, "graph") /\ Failed(p) = {} /\ ~proc[p].aborted /\ Active(p) = {}
    /\ Ready(p) \subseteq Run(p).pending \ proc[p].granted
    /\ Goto(p, "closing")
    /\ Store(p, [Run(p) EXCEPT !.status =
                    IF Run(p).pending # {} THEN "awaiting-approval" ELSE "completed"])
    /\ UNCHANGED <<binding, standing, calls>>

-----------------------------------------------------------------------------
(* The finally block. *)

RetainUnsettled(p) ==    \* mutant: the five second timer is missing
    /\ At(p, "closing") /\ proc[p].unsettled
    /\ Goto(p, "retained")
    /\ Store(p, [Run(p) EXCEPT !.status = "blocked"])
    /\ UNCHANGED <<binding, standing, calls>>

\* Some adapter did not settle within five seconds, or said it cannot tell.
Retain(p) ==
    /\ At(p, "closing") /\ (Active(p) # {} \/ proc[p].unsettled)
    /\ Goto(p, "retained")
    /\ Store(p, [Run(p) EXCEPT !.status = "blocked"])
    /\ UNCHANGED <<binding, standing, calls>>

\* The receipt of a confirmed interruption, written once.
Settlement(p) ==
    LET d == Run(p) IN
    IF /\ d.settlement = None /\ ~proc[p].jammed
       /\ \E o \in proc[p].known : d.ops[o] = "interrupted"
       /\ \A o \in proc[p].known : d.ops[o] \in Results
    THEN [o \in Operations |-> IF o \in proc[p].known THEN d.ops[o] ELSE "none"]
    ELSE d.settlement

Settle(p) ==
    /\ At(p, "closing") /\ Active(p) = {} /\ ~proc[p].unsettled
    /\ Goto(p, "unlock")
    /\ Store(p, [Run(p) EXCEPT !.settlement = Settlement(p)])
    /\ UNCHANGED <<binding, standing, calls>>

\* unlock: the token is compared, then the name is unlinked.
CompareToken(p) ==
    /\ At(p, "unlock")
    /\ IF Run(p).lock = p THEN Goto(p, "unlink") ELSE Become(p, Rested)
    /\ UNCHANGED <<binding, dir, standing, calls>>

Unlink(p) ==
    /\ At(p, "unlink")
    /\ Store(p, [Run(p) EXCEPT !.lock = None])
    /\ Become(p, Rested)
    /\ UNCHANGED <<binding, standing, calls>>

-----------------------------------------------------------------------------
(* Around the runners. *)

\* A process dies, or one that retained its lock exits.
Die(p) ==
    /\ proc[p].pc \notin {"idle", "dead"}
    /\ Become(p, [Rested EXCEPT !.pc = "dead"])
    /\ UNCHANGED <<binding, dir, standing, calls>>

\* cancelWorkflow
RequestCancel(r) ==
    /\ dir[r].run /\ ~dir[r].cancel
    /\ dir' = [dir EXCEPT ![r].cancel = TRUE]
    /\ UNCHANGED <<binding, proc, standing, calls>>

\* recoverWorkflowLock: the lock names a dead process, twice read ...
Recover(p, r) ==
    /\ At(p, "idle") /\ p \in Recoverers
    /\ standing /\ dir[r].run
    /\ dir[r].lock # None /\ proc[dir[r].lock].pc = "dead"
    /\ Become(p, [Rested EXCEPT !.pc = "recover", !.run = r])
    /\ UNCHANGED <<binding, dir, standing, calls>>

\* ... and is then unlinked by its name.
RemoveLock(p) ==
    /\ At(p, "recover")
    /\ Store(p, [Run(p) EXCEPT !.lock = None])
    /\ Become(p, Rested)
    /\ UNCHANGED <<binding, standing, calls>>

\* The claim is released, the policy edited, the approval expires, or is restored.
Lapse ==
    /\ Revocable
    /\ standing' = ~standing
    /\ UNCHANGED <<binding, dir, proc, calls>>

NodeStep(p) ==
    \E n \in Nodes :
        \/ Visit(p, n) \/ Try(p, n) \/ WriteInventory(p, n) \/ WriteRecord(p, n)
        \/ CallAdapter(p, n) \/ Consider(p, n) \/ Save(p, n)

AdapterStep(p) ==
    \E n \in Nodes : AdapterThrows(p, n) \/ \E result \in Answers : Answer(p, n, result)

RunnerStep(p) ==
    \/ Bind(p) \/ Lock(p) \/ Open(p) \/ CreateInventory(p) \/ ReadJournal(p)
    \/ OpenDatabase(p) \/ Refuse(p) \/ Admit(p) \/ AdmitNothing(p)
    \/ NodeStep(p) \/ \E g \in Gates : VisitGate(p, g)
    \/ Abort(p) \/ GraphFails(p) \/ GraphEnds(p)
    \/ Retain(p) \/ Settle(p) \/ CompareToken(p) \/ Unlink(p) \/ RemoveLock(p)

Next ==
    \/ \E p \in Runners :
        \/ RunnerStep(p) \/ AdapterStep(p) \/ Die(p)
        \/ \E r \in Runs : Execute(p, r) \/ Recover(p, r)
    \/ \E r \in Runs : RequestCancel(r)
    \/ Lapse

Spec == Init /\ [][Next]_vars

\* A live runner goes on: its own steps wait for nothing but its adapters, and
\* those for at most the time limit (Abort) and the five seconds of Retain.
FairSpec == Spec /\ \A p \in Runners : WF_vars(RunnerStep(p))

-----------------------------------------------------------------------------
\* The type of every variable.
TypeOK ==
    /\ binding \in Runs \cup {None}
    /\ dir \in [Runs -> Directory]
    /\ proc \in [Runners -> Process]
    /\ standing \in BOOLEAN
    /\ calls \in [Runs -> [Operations -> Seq(Runners)]]

\* The live runners of a run, from its lock to its unlock.
Inside(r) ==
    {p \in Runners : proc[p].run = r /\
        proc[p].pc \in {"open", "inventory", "journal", "database", "admit",
                       "graph", "closing", "unlock", "unlink", "retained"}}

\* One dispatcher at a time: a dead runner's lock is only ever replaced through
\* recovery, so no second runner gets in while one is at work or retained its
\* lock.  It takes a single recoverer: two of them may break it.
OneDispatcher == \A r \in Runs : \A p, q \in Inside(r) : p = q

\* No operation is dispatched twice or before its record exists, by one runner or
\* by two, whatever died in between and even when two runners are at work: the
\* record is created once, and the adapter is called by whoever created it.
DispatchedOnce ==
    \A r \in Runs, o \in Operations :
        /\ Len(calls[r][o]) <= 1
        /\ calls[r][o] # <<>> => dir[r].ops[o] # "none"

\* The adapter is called for at most one run of a claim.
OneRunPerClaim ==
    \A r, s \in Runs :
        (\E o, q \in Operations : calls[r][o] # <<>> /\ calls[s][q] # <<>>) => r = s

\* While a runner has a call out, every unanswered operation of the run is its
\* own: nothing is dispatched on top of what an earlier runner left uncertain.
NothingOnUncertainty ==
    \A p \in Runners :
        (Alive(p) /\ \E n \in Nodes : proc[p].phase[n] = "running") =>
            Unanswered(Run(p)) \subseteq {Op(p, n) : n \in Nodes \ {m \in Nodes : proc[p].phase[m] = "waiting"}}

\* A completed run is complete: every node ended with a completed operation, every
\* approval was given, and nothing in the journal is missing or unanswered.
CompletedIsComplete ==
    \A r \in Runs : LET d == dir[r] IN
        d.status = "completed" =>
            /\ d.done = Nodes \cup Gates /\ Gates \subseteq d.approved
            /\ \A n \in Nodes : \E k \in 0..Attempts - 1 : d.ops[<<n, k>>] = "completed"
            /\ d.inventory = Recorded(d) /\ Unanswered(d) = {}

\* A result on record is never replaced, not by a late answer, a reconciliation
\* or another runner.
AnswersStand ==
    [][\A r \in Runs, o \in Operations :
        dir[r].ops[o] \in Results => dir'[r].ops[o] = dir[r].ops[o]]_vars

\* A finished run is over once the runner that finished it is gone: later calls,
\* recoveries and late answers leave its status, journal and checkpoint alone and
\* dispatch nothing.
FinishedIsOver ==
    [][\A r \in Runs :
        dir[r].status \in Finished /\ (\A p \in Runners : proc[p].run = r => ~Alive(p)) =>
            /\ dir'[r] = [dir[r] EXCEPT !.lock = dir'[r].lock, !.cancel = dir'[r].cancel]
            /\ calls'[r] = calls[r]]_vars

\* Every call ends: it returns, retains its lock, or dies with its process, even
\* if an adapter never answers.
CallsEnd ==
    \A p \in Runners : At(p, "bind") ~> proc[p].pc \in {"idle", "retained", "dead"}
=============================================================================
