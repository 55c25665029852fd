----------------------------- MODULE Continuation -----------------------------
(* The continuation of an interrupted run (src/src/workkeel-continuation.mjs):  *)
(* under the lock of the run, an intent, the release of its claim, a new claim  *)
(* and a successor run, each a durable step that a repetition finds done.       *)
(* The task operations are those of TaskLifecycle.                              *)
(*                                                                              *)
(* Abstractions.  A runner is what module WorkflowRun shows of it: it holds the *)
(* lock of its run, works through a journal and closes; a dispatch beyond an    *)
(* interrupted one is another branch of the graph, one is out at a time, and    *)
(* approvals and reconciliations are left to that module.  A lock token is its  *)
(* process; a lock whose process died or left it names nobody.  What can only   *)
(* refuse is not modelled but refused at any time (Refused, Stop): cancel.json, *)
(* the partial source and HEAD against the receipt, the pins, the plan digest.  *)
(* What a process reads and then writes in a run whose lock it holds is one     *)
(* step, which is exact as long as the lock excludes (SoleRecoverer); checks    *)
(* of the claim and of a lock are steps of their own.                           *)
EXTENDS TaskLifecycle

CONSTANTS
    Job,          \* the task
    Runs,         \* run ids
    Procs,        \* processes, each at one call
    Recoverers,   \* those whose operator may recover a lock
    MaxDispatches, \* limits.steps
    MaxByHand     \* bound: task -> the version its operations by hand lead up to

Gone == "gone"
Ended == {"completed", "cancelled"}     \* not taken up again
Stopped == {"blocked", "cancelled"}

\* successor.json
Intent == [run : Runs, version : Nat, claim : Nat, base : Revisions]

ASSUME ContinuationAssumption ==
    /\ Job \in Tasks
    /\ Recoverers \subseteq Procs
    /\ None \notin Procs \cup Runs \cup Intent \cup Nat /\ Gone \notin Procs \cup {None}
    /\ (Runs \cup {None}) \X (1 .. MaxVersion) \subseteq Derived
    /\ MaxDispatches \in Nat /\ MaxByHand \in [Tasks -> Nat]

VARIABLES
    runs,     \* run -> its execution directory
    binding,  \* claim -> the run it is bound to
    proc,     \* process -> where it is
    begun     \* history: the <<source, successor>> that continuations began

runVars == <<runs, binding, proc, begun>>
allVars == <<vars, runVars>>

NoRun == [status |-> "absent", lock |-> None, claim |-> None, journal |-> <<>>,
          settlement |-> None, successor |-> None]
Idle == [at |-> "idle", run |-> None, claim |-> None, source |-> None, fresh |-> FALSE]

Interrupted(journal) == \E n \in DOMAIN journal : journal[n] = "interrupted"
Answered(journal) == \A n \in DOMAIN journal : journal[n] # "open"

\* assertTaskExecutionContext, for the actor of the contract.
Standing(claim) ==
    /\ items[Job].state = "build" /\ items[Job].claim.id = claim
    /\ InContext(Job)
    /\ Dependencies(Job, items[Job])

(***************************************************************************)
(* Steps of a process.                                                     *)
(***************************************************************************)
Become(p, state) == proc' = [proc EXCEPT ![p] = state]
Goto(p, place) == Become(p, [proc[p] EXCEPT !.at = place])
Store(r, contents) == runs' = [runs EXCEPT ![r] = contents]
Opened(p, place) == Become(p, [proc[p] EXCEPT !.at = place, !.fresh = FALSE])
Run(p) == runs[proc[p].run]
Source(p) == runs[proc[p].source]
Unmoved == UNCHANGED <<vars, binding, begun>>

\* A call that ends on its way leaves the lock of the source first.
Leave(p) == Become(p, IF proc[p].source = None THEN Idle
                      ELSE [Idle EXCEPT !.at = "leave", !.source = proc[p].source])

\* unlock: a lock that is another's stays.
Unlocked(d, p) == [d EXCEPT !.lock = IF @ = p THEN None ELSE @]

\* The finally block of continueWorkflow.
UnlockSource(p) ==
    /\ proc[p].at = "leave"
    /\ Store(proc[p].source, Unlocked(Source(p), p))
    /\ Become(p, Idle)
    /\ Unmoved

(***************************************************************************)
(* executeWorkflow                                                         *)
(***************************************************************************)
Execute(p, r, c) ==
    /\ proc[p] = Idle
    /\ Standing(c)
    /\ Become(p, [Idle EXCEPT !.at = "bind", !.run = r, !.claim = c])
    /\ UNCHANGED runs /\ Unmoved

\* The directory, and one run per claim.
Bind(p) ==
    LET c == proc[p].claim
        r == proc[p].run
    IN /\ proc[p].at = "bind"
       /\ runs' = [runs EXCEPT ![r].status = IF @ = "absent" THEN "empty" ELSE @]
       /\ binding' = IF binding[c] = None THEN [binding EXCEPT ![c] = r] ELSE binding
       /\ IF binding[c] \in {None, r}
          THEN Become(p, [proc[p] EXCEPT !.at = "lock", !.fresh = binding[c] = None])
          ELSE Leave(p)
       /\ UNCHANGED <<vars, begun>>

LockRun(p) ==
    /\ proc[p].at = "lock"
    /\ IF Run(p).lock = None
       THEN Store(proc[p].run, [Run(p) EXCEPT !.lock = p]) /\ Goto(p, "open")
       ELSE UNCHANGED runs /\ Leave(p)
    /\ Unmoved

\* run.json is created, or the run is taken up unless it ended or left a dispatch unanswered.
Open(p) ==
    LET d == Run(p)
    IN /\ proc[p].at = "open"
       /\ \/ /\ d.claim = None /\ proc[p].fresh
             /\ Store(proc[p].run, [d EXCEPT !.claim = proc[p].claim, !.status = "running"])
             /\ Opened(p, "graph")
             /\ begun' = IF proc[p].source = None THEN begun
                         ELSE begun \cup {<<proc[p].source, proc[p].run>>}
          \/ /\ d.claim = proc[p].claim /\ d.status \notin Ended
             /\ IF Answered(d.journal)
                THEN Store(proc[p].run, [d EXCEPT !.status = "running"]) /\ Opened(p, "graph")
                ELSE Store(proc[p].run, [d EXCEPT !.status = "blocked"]) /\ Opened(p, "settle")
             /\ UNCHANGED begun
          \/ /\ IF d.claim = None THEN ~proc[p].fresh ELSE d.claim # proc[p].claim \/ d.status \in Ended
             /\ Opened(p, "unlock")
             /\ UNCHANGED <<runs, begun>>
       /\ UNCHANGED <<vars, binding>>

\* The context stands ...
Dispatch(p) ==
    /\ proc[p].at = "graph"
    /\ Standing(proc[p].claim)
    /\ Len(Run(p).journal) < MaxDispatches
    /\ Goto(p, "dispatch")
    /\ UNCHANGED runs /\ Unmoved

\* ... and, whether it still does or not, the dispatch goes on record ...
RecordDispatch(p) ==
    /\ proc[p].at = "dispatch"
    /\ Store(proc[p].run, [Run(p) EXCEPT !.journal = Append(@, "open")])
    /\ Goto(p, "call")
    /\ Unmoved

\* ... and is answered.  Whatever else happens to it ends the run.
Answer(p, answer) ==
    /\ proc[p].at = "call"
    /\ Store(proc[p].run, [Run(p) EXCEPT !.journal[Len(Run(p).journal)] = answer])
    /\ Goto(p, "graph")
    /\ Unmoved

Stop(p) ==
    /\ proc[p].at \in {"graph", "dispatch", "call"}
    /\ \E status \in Stopped : Store(proc[p].run, [Run(p) EXCEPT !.status = status])
    /\ Goto(p, "settle")
    /\ Unmoved

\* An adapter that does not settle: the lock stays behind.  (Nobody reads the run before the process
\* is gone, so an answer until then may as well come first.)
Retain(p) ==
    /\ proc[p].at = "call"
    /\ Store(proc[p].run, [Run(p) EXCEPT !.status = "blocked", !.lock = IF @ = p THEN Gone ELSE @])
    /\ Leave(p)
    /\ Unmoved

Complete(p) ==
    /\ proc[p].at = "graph"
    /\ Run(p).journal # <<>> /\ ~Interrupted(Run(p).journal)
    /\ Store(proc[p].run, [Run(p) EXCEPT !.status = "completed"])
    /\ Goto(p, "settle")
    /\ Unmoved

\* The receipt of a confirmed interruption, written once.
Settle(p) ==
    LET d == Run(p)
    IN /\ proc[p].at = "settle"
       /\ Store(proc[p].run,
                IF d.settlement = None /\ Interrupted(d.journal) /\ Answered(d.journal)
                THEN [d EXCEPT !.settlement = d.journal] ELSE d)
       /\ Goto(p, "unlock")
       /\ Unmoved

UnlockRun(p) ==
    /\ proc[p].at = "unlock"
    /\ Store(proc[p].run, Unlocked(Run(p), p))
    /\ Leave(p)
    /\ Unmoved

(***************************************************************************)
(* continueWorkflow                                                        *)
(***************************************************************************)
\* inspect: with the intent on record, the claim may be another and the successor may be there.
Inspected(s, r, resumed) ==
    LET d == runs[s]
    IN /\ d.claim # None
       /\ items[Job].claim # None /\ Standing(items[Job].claim.id)
       /\ ~resumed => runs[r].status = "absent" /\ items[Job].claim.id = d.claim
       /\ d.status \in Stopped
       /\ d.settlement # None
       /\ d.settlement = d.journal

ContinueUnlocked(p, s, r) ==    \* mutant: the source is not locked
    /\ proc[p] = Idle
    /\ s # r /\ runs[s].status # "absent"
    /\ Become(p, [Idle EXCEPT !.at = "intent", !.run = r, !.source = s])
    /\ UNCHANGED runs /\ Unmoved

\* The lock of the source.
ContinueWorkflow(p, s, r) ==
    /\ proc[p] = Idle
    /\ s # r /\ runs[s].status # "absent"
    /\ runs[s].lock = None
    /\ Store(s, [runs[s] EXCEPT !.lock = p])
    /\ Become(p, [Idle EXCEPT !.at = "intent", !.run = r, !.source = s])
    /\ Unmoved

\* The intent on record is taken up, unless it names another run or that run is there.
ReadIntent(p) ==
    LET intent == Source(p).successor
    IN /\ proc[p].at = "intent"
       /\ \/ intent # None /\ intent.run = proc[p].run /\ Run(p).claim = None /\ Goto(p, "release")
          \/ intent # None /\ (intent.run # proc[p].run \/ Run(p).claim # None) /\ Leave(p)
          \/ intent = None /\ Inspected(proc[p].source, proc[p].run, FALSE) /\ Goto(p, "record")
          \/ intent = None /\ ~Inspected(proc[p].source, proc[p].run, FALSE) /\ Leave(p)
       /\ UNCHANGED runs /\ Unmoved

\* successor.json, from the record of the task as it is read now; it is created and never replaced.
RecordIntent(p) ==
    /\ proc[p].at = "record"
    /\ IF items[Job].claim = None \/ Source(p).successor # None
       THEN Leave(p) /\ UNCHANGED runs
       ELSE /\ Store(proc[p].source, [Source(p) EXCEPT !.successor =
                   [run |-> proc[p].run, version |-> items[Job].version,
                    claim |-> items[Job].claim.id, base |-> head]])
            /\ Goto(p, "release")
    /\ Unmoved

\* The requests of an intent; their operation ids are digests of source and successor.
ReleaseRequest(s) ==
    LET intent == runs[s].successor
    IN Ask(<<s, 1>>, intent.version, items[Job].contract.actor, intent.claim, None, None)
ClaimRequest(s) ==
    LET intent == runs[s].successor
    IN Ask(<<s, 2>>, intent.version + 1, items[Job].contract.actor, None, intent.base, None)

Replayed(request) == request.op \in OperationsOf(items[Job])

ReleaseClaim(p) ==
    /\ proc[p].at = "release"
    /\ IF Replayed(ReleaseRequest(proc[p].source))
       THEN UNCHANGED vars
       ELSE Release(Job, ReleaseRequest(proc[p].source))
    /\ Goto(p, "claim")
    /\ UNCHANGED <<runs, binding, begun>>

\* A replay answers with the claim there is by now.
ClaimAgain(p) ==
    /\ proc[p].at = "claim"
    /\ IF Replayed(ClaimRequest(proc[p].source))
       THEN UNCHANGED vars
       ELSE Claim(Job, ClaimRequest(proc[p].source))
    /\ Become(p, [proc[p] EXCEPT !.at = "inspect",
                     !.claim = IF items'[Job].claim = None THEN None ELSE items'[Job].claim.id])
    /\ UNCHANGED <<runs, binding, begun>>

NotInspected(p) ==    \* mutant: the source is not inspected again
    /\ proc[p].at = "inspect"
    /\ IF proc[p].claim # None THEN Goto(p, "load") ELSE Leave(p)
    /\ UNCHANGED runs /\ Unmoved

InspectAgain(p) ==
    /\ proc[p].at = "inspect"
    /\ IF Inspected(proc[p].source, proc[p].run, TRUE) /\ proc[p].claim # None
       THEN Goto(p, "load") ELSE Leave(p)
    /\ UNCHANGED runs /\ Unmoved

\* From here on it is executeWorkflow.
Load(p) ==
    /\ proc[p].at = "load"
    /\ IF Standing(proc[p].claim) THEN Goto(p, "bind") ELSE Leave(p)
    /\ UNCHANGED runs /\ Unmoved

\* A step of the continuation is refused for what is not modelled, or fails.
Refused(p) ==
    /\ proc[p].at \in {"intent", "record", "release", "claim", "inspect", "load"}
    /\ Leave(p)
    /\ UNCHANGED runs /\ Unmoved

(***************************************************************************)
(* Around them.                                                            *)
(***************************************************************************)
Crash(p) ==
    /\ proc[p] # Idle
    /\ runs' = [r \in Runs |-> [runs[r] EXCEPT !.lock = IF @ = p THEN Gone ELSE @]]
    /\ Become(p, Idle)
    /\ Unmoved

\* recoverWorkflowLock: the claim of the run stands ...
Recover(p, r) ==
    /\ proc[p] = Idle /\ p \in Recoverers
    /\ runs[r].claim # None /\ Standing(runs[r].claim)
    /\ Become(p, [Idle EXCEPT !.at = "examine", !.run = r])
    /\ UNCHANGED runs /\ Unmoved

\* ... the lock names a process that is gone, and is the same when it is read again ...
ExamineLock(p) ==
    /\ proc[p].at = "examine"
    /\ IF Run(p).lock = Gone THEN Goto(p, "remove") ELSE Leave(p)
    /\ UNCHANGED runs /\ Unmoved

\* ... and then whatever lock has its name is unlinked.
RemoveLock(p) ==
    /\ proc[p].at = "remove"
    /\ Store(proc[p].run, [Run(p) EXCEPT !.lock = None])
    /\ Leave(p)
    /\ Unmoved

\* Task operations by hand, each a request of its own (bound: those that give or take a claim;
\* a task cancelled by hand loses its claim as one handed off does).
ByHand(t) ==
    LET v == items[t].version
    IN \E actor \in KnownActors :
         \/ \E c \in Contracts[t] : Create(t, c, Ask(<<None, 1>>, 0, actor, None, None, None))
         \/ Claim(t, Ask(<<None, v + 1>>, v, actor, None, head, None))
         \/ \E id \in ClaimIds(t) :
              \/ Release(t, Ask(<<None, v + 1>>, v, actor, id, None, None))
              \/ Handoff(t, Ask(<<None, v + 1>>, v, actor, id, head, None))

AroundTheRuns ==
    /\ \E t \in Tasks : items[t].version < MaxByHand[t] /\ ByHand(t)
    /\ UNCHANGED runVars

(***************************************************************************)
(* The system.                                                             *)
(***************************************************************************)
ContinuationInit ==
    /\ Init
    /\ runs = [r \in Runs |-> NoRun]
    /\ binding = [c \in 1 .. MaxVersion |-> None]
    /\ proc = [p \in Procs |-> Idle]
    /\ begun = {}

ProcStep(p) ==
    \/ Bind(p) \/ LockRun(p) \/ Open(p) \/ Dispatch(p) \/ RecordDispatch(p) \/ Stop(p) \/ Retain(p)
    \/ \E answer \in {"completed", "interrupted"} : Answer(p, answer)
    \/ Complete(p) \/ Settle(p) \/ UnlockRun(p)
    \/ ReadIntent(p) \/ RecordIntent(p) \/ ReleaseClaim(p) \/ ClaimAgain(p)
    \/ InspectAgain(p) \/ Load(p) \/ Refused(p) \/ UnlockSource(p)
    \/ ExamineLock(p) \/ RemoveLock(p)

ContinuationNext ==
    \/ \E p \in Procs :
         \/ ProcStep(p) \/ Crash(p)
         \/ \E r \in Runs : \/ Recover(p, r)
                           \/ \E c \in 1 .. items[Job].version : Execute(p, r, c)
                           \/ \E s \in Runs : ContinueWorkflow(p, s, r)
    \/ AroundTheRuns

ContinuationSpec == ContinuationInit /\ [][ContinuationNext]_allVars

(***************************************************************************)
(* Properties.                                                             *)
(***************************************************************************)
GivenUp(s) == runs[s].successor # None /\ Replayed(ReleaseRequest(s))

\* Once a continuation has released the claim, the run it continues stands still: whoever dies, repeats
\* the continuation or takes the run up again, a runner that had its context checked before the release
\* included, nothing is dispatched or answered in it (workkeel-continuation.mjs:99-131).  It holds as long
\* as recoveries do not overlap; two of them may let a runner in beside the continuation.
SourceStandsStill ==
    [][\A s \in Runs : GivenUp(s) => runs'[s].journal = runs[s].journal]_allVars

\* A run begins as the continuation of another only when that one has settled: every dispatch is
\* answered, one was interrupted, and the receipt is about this very journal, although the source may have
\* been taken up again after the intent was recorded (workkeel-continuation.mjs:127-128).  This, too, as
\* long as recoveries do not overlap.
ContinuedFromRest ==
    \A s, r \in Runs : <<s, r>> \in begun =>
        /\ runs[s].successor # None /\ runs[s].successor.run = r
        /\ Answered(runs[s].journal) /\ Interrupted(runs[s].journal)
        /\ runs[s].settlement = runs[s].journal
=============================================================================
