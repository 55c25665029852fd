---------------------------- MODULE TaskLifecycle ----------------------------
(***************************************************************************)
(* The native task lifecycle of src/workkeel-tasks.mjs: create, claim,     *)
(* release, handoff, review, rework, close and cancel, each one operation  *)
(* under the project mutation lock (module MutationLock says when that     *)
(* lock excludes), reading the task records, the project policy, the       *)
(* pinned files and the Git checkout, and writing one record.              *)
(*                                                                         *)
(* Abstractions.  A record digest is the record itself: equal digests mean *)
(* equal documents.  Claim ids are random UUIDs in the code; here a claim  *)
(* is named by the version of its task at the claim, unique for the task.  *)
(* A replayed request changes nothing and is left to stuttering.  Bounds:  *)
(* MaxVersion stands for the 1 MiB limit on a record, MaxRevision (module  *)
(* Checkout) for the commits of the repository.                            *)
(***************************************************************************)
EXTENDS Checkout, Sequences

CONSTANTS
    Agents, Principals,
    Policies,         \* the task policies the project may be given
    Contracts,        \* Contracts[t]: the contracts that may be proposed for t
    Derived,          \* operation ids derived from what they are about; the others are numbers
    MaxVersion,       \* bound: the record size limit, in operations
    Perishable,       \* bound: the <<task, kind>> pins whose files may change
    MayExpire,        \* bound: the tasks whose authorization has an expiry
    None

Actor == [agent : Agents, principal : Principals]
Separations == {"distinct-agent", "distinct-principal"}
Policy == [agents : SUBSET Actor, approvers : SUBSET Principals, separation : Separations]
Contract == [actor : Actor, approvedBy : Principals, separation : Separations,
             roots : SUBSET Roots, deps : SUBSET Tasks]
PinKinds == {"authority", "delivery", "review", "closeout"}

ASSUME LifecycleAssumption ==
    /\ MaxVersion \in Nat
    /\ Policies \subseteq Policy
    /\ \A t \in Tasks : Contracts[t] \subseteq Contract
    /\ Perishable \subseteq Tasks \X PinKinds
    /\ MayExpire \subseteq Tasks

VARIABLES
    items,     \* items[t]: the canonical record of task t
    policy,    \* the project's current task policy
    altered,   \* the <<task, kind>> whose pinned files differ from their digests
    expired    \* tasks whose authorization has run out

lifecycleVars == <<items, policy, altered, expired>>
vars == <<lifecycleVars, checkoutVars>>

States == {"absent", "intake", "build", "test", "release_gate", "done", "cancelled"}
Terminal == {"done", "cancelled"}
Actions == {"create", "claim", "release", "handoff", "review", "rework", "close", "cancel"}
Judgments == {"pass", "fail"}

Request == [op : Nat \cup Derived, expected : Nat, actor : Actor, claim : Nat \cup {None},
            revision : Revisions \cup {None}, judgment : Judgments \cup {None}]
Event == [action : Actions, request : Request, state : States,
          revision : Revisions \cup {None}]
Claimed == [id : Nat, actor : Actor]
Delivery == [revision : Revisions, implementer : Actor, claim : Nat]
Review == [actor : Actor, revision : Revisions, judgment : Judgments]
Closeout == [actor : Actor, revision : Revisions \cup {None}]
Attempt == [kind : {"released", "rejected"}, base : Revisions, revision : Revisions \cup {None}]

\* No record: the file .ai-org/work-items/<id>.json does not exist.
NoItem == [state |-> "absent", version |-> 0, contract |-> None, policy |-> None,
           claim |-> None, base |-> None, pins |-> None, delivery |-> None,
           review |-> None, closeout |-> None, attempts |-> <<>>, history |-> <<>>]

\* None is no agent, no revision and no record: "null" in the code.
ASSUME NoneAssumption ==
    /\ None \notin Agents \cup Revisions
    /\ None \notin Claimed \cup Delivery \cup Review \cup Closeout
    /\ None \notin [Tasks -> Nat]

Item == [state : States, version : Nat, contract : Contract, policy : Policies,
         claim : Claimed \cup {None}, base : Revisions \cup {None},
         pins : [Tasks -> Nat] \cup {None}, delivery : Delivery \cup {None},
         review : Review \cup {None}, closeout : Closeout \cup {None},
         attempts : Seq(Attempt), history : Seq(Event)]

Exists(t) == items[t].state # "absent"
RecordVersions == [t \in Tasks |-> items[t].version]

-----------------------------------------------------------------------------
(* Requests. *)

Ask(op, expected, actor, claim, revision, judgment) ==
    [op |-> op, expected |-> expected, actor |-> actor, claim |-> claim,
     revision |-> revision, judgment |-> judgment]

OperationsOf(item) == {item.history[i].request.op : i \in DOMAIN item.history}

AdmitsReplays(t, req) ==    \* mutant: a repeated operation id is not recognised
    /\ Exists(t) /\ req.actor \in policy.agents
    /\ req.expected = items[t].version
    /\ items[t].state \notin Terminal /\ items[t].version < MaxVersion

\* assertActor, replay, the version check and the terminal check of
\* mutateNativeTask, in that order, with the record bound of the write.
Admits(t, req) ==
    /\ Exists(t)
    /\ req.actor \in policy.agents
    /\ req.op \notin OperationsOf(items[t])
    /\ req.expected = items[t].version
    /\ items[t].state \notin Terminal
    /\ items[t].version < MaxVersion

IsApprover(actor) == actor \in policy.agents /\ actor.principal \in policy.approvers

\* append: the next version, and one event that carries the whole request.
Recorded(item, action, req) ==
    [item EXCEPT
        !.version = @ + 1,
        !.history = Append(@, [action |-> action, request |-> req, state |-> item.state,
            revision |-> IF item.delivery = None THEN None ELSE item.delivery.revision])]

Save(t, action, req, item) == items' = [items EXCEPT ![t] = Recorded(item, action, req)]

-----------------------------------------------------------------------------
(* The checks an operation makes before it writes. *)

MeetsPolicy(contract, p) ==
    /\ contract.actor \in p.agents
    /\ contract.approvedBy \in p.approvers
    /\ p.separation = "distinct-principal" => contract.separation = "distinct-principal"

\* context: the approval still stands.
InContext(t) ==
    /\ items[t].policy = policy
    /\ MeetsPolicy(items[t].contract, policy)
    /\ t \notin expired
    /\ <<t, "authority">> \notin altered

Passed(item) == item.review # None /\ item.review.judgment = "pass"

Accepted(item) ==
    /\ item.state = "done"
    /\ item.delivery # None
    /\ Passed(item)
    /\ item.closeout # None /\ item.closeout.revision = item.delivery.revision

PinsOf(deps) == [d \in Tasks |-> IF d \in deps THEN items[d].version ELSE 0]

DependenciesHoldUnfinished(item) ==    \* mutant: they need not be accepted yet
    /\ \A d \in item.contract.deps : Exists(d)
    /\ item.pins # None => item.pins = PinsOf(item.contract.deps)

\* One level of the recursive function "dependencies".
DependenciesHold(item) ==
    /\ \A d \in item.contract.deps :
          /\ Accepted(items[d])
          /\ \A kind \in PinKinds : <<d, kind>> \notin altered
          /\ item.base # None => IsAncestor(items[d].delivery.revision, item.base)
    /\ item.pins # None => item.pins = PinsOf(item.contract.deps)

\* The tasks the recursion visits below item: the least set that holds its
\* dependencies and, with a task, the dependencies of that task.
Below(item) ==
    {x \in Tasks : \A S \in SUBSET Tasks :
        (/\ item.contract.deps \subseteq S
         /\ \A y \in S : Exists(y) => items[y].contract.deps \subseteq S) => x \in S}

\* The whole recursion: every level holds and none leads back to t.
Dependencies(t, item) ==
    /\ DependenciesHold(item)
    /\ t \notin Below(item)
    /\ \A x \in Below(item) : Exists(x) /\ DependenciesHold(items[x])

CandidateAnyScope(t, item, r) ==    \* mutant: only the working tree is compared
    /\ IsCommit(r) /\ IsAncestor(item.base, r) /\ DriftedRoots(r) = {}

\* candidateFiles finds no issue: the candidate descends from the base, stays
\* in the write roots, and the working tree is that candidate, own record apart.
CandidateOK(t, item, r) ==
    /\ IsCommit(r)
    /\ IsAncestor(item.base, r)
    /\ ChangedRoots(item.base, r) \subseteq item.contract.roots
    /\ DriftedRoots(r) = {}
    /\ RecordsTracked =>
          /\ ChangedRecords(item.base, r) \subseteq {t}
          /\ \A u \in Tasks \ {t} : seen[r][u] = items[u].version

\* assertDelivery
DeliveryOK(t) ==
    /\ items[t].delivery # None
    /\ CandidateOK(t, items[t], items[t].delivery.revision)
    /\ <<t, "delivery">> \notin altered
    /\ Dependencies(t, items[t])

\* Two declared write roots are nested or equal.
Overlap(c, d) == c.roots \cap d.roots # {}

CompetesWithOthers(t) ==    \* mutant: an agent does not compete with itself
    \E u \in Tasks \ {t} :
        /\ items[u].state = "build" /\ items[u].claim.actor # items[t].contract.actor
        /\ Overlap(items[t].contract, items[u].contract)

\* An active task holds overlapping write roots.
Competes(t) ==
    \E u \in Tasks \ {t} :
        items[u].state = "build" /\ Overlap(items[t].contract, items[u].contract)

\* A task may depend on tasks that exist, never on itself.
DependsOnExisting(t, deps) == t \notin deps /\ \A d \in deps : Exists(d)

-----------------------------------------------------------------------------
(* The operations. *)

Create(t, contract, req) ==
    /\ req.expected = 0 /\ MaxVersion > 0
    /\ IsApprover(req.actor)
    /\ ~Exists(t)
    /\ MeetsPolicy(contract, policy)
    /\ contract.approvedBy = req.actor.principal
    /\ DependsOnExisting(t, contract.deps)
    /\ t \notin expired
    /\ Save(t, "create", req,
            [NoItem EXCEPT !.state = "intake", !.contract = contract, !.policy = policy])
    /\ UNCHANGED <<policy, altered, expired, checkoutVars>>

Claim(t, req) ==
    /\ Admits(t, req) /\ InContext(t)
    /\ items[t].state = "intake" /\ items[t].claim = None
    /\ req.actor = items[t].contract.actor
    /\ IsCommit(req.revision) /\ req.revision = head
    /\ Dependencies(t, [items[t] EXCEPT !.base = req.revision])
    /\ ~Competes(t)
    /\ Save(t, "claim", req,
            [items[t] EXCEPT !.state = "build", !.base = req.revision,
                !.claim = [id |-> items[t].version + 1, actor |-> req.actor],
                !.pins = PinsOf(items[t].contract.deps)])
    /\ UNCHANGED <<policy, altered, expired, checkoutVars>>

HoldsSomeClaim(t, req) ==    \* mutant: the claim id is not compared
    /\ items[t].state = "build" /\ items[t].claim # None
    /\ items[t].claim.actor = req.actor

\* The current matching implementation claim.
HoldsClaim(t, req) ==
    /\ items[t].state = "build" /\ items[t].claim # None
    /\ items[t].claim.id = req.claim /\ items[t].claim.actor = req.actor

Release(t, req) ==
    /\ Admits(t, req) /\ InContext(t) /\ HoldsClaim(t, req)
    /\ Save(t, "release", req,
            [items[t] EXCEPT !.state = "intake", !.claim = None, !.pins = None,
                !.attempts = Append(@, [kind |-> "released", base |-> items[t].base,
                                        revision |-> None])])
    /\ UNCHANGED <<policy, altered, expired, checkoutVars>>

RejectedRevisions(item) ==
    {item.attempts[i].revision :
        i \in {j \in DOMAIN item.attempts : item.attempts[j].kind = "rejected"}}

FreshSinceLastAttempt(item, r) ==    \* mutant: only the latest attempt counts
    item.attempts # <<>> => item.attempts[Len(item.attempts)].revision # r

\* A candidate is not one that a review rejected.
FreshCandidate(item, r) == r \notin RejectedRevisions(item)

Delivered(item, req) ==
    [revision |-> req.revision, implementer |-> req.actor, claim |-> item.claim.id]

Handoff(t, req) ==
    /\ Admits(t, req) /\ InContext(t) /\ HoldsClaim(t, req)
    /\ FreshCandidate(items[t], req.revision)
    /\ CandidateOK(t, items[t], req.revision) /\ head = req.revision
    /\ Dependencies(t, items[t])
    /\ Save(t, "handoff", req,
            [items[t] EXCEPT !.state = "test", !.claim = None,
                !.delivery = Delivered(items[t], req)])
    /\ altered' = altered \ {<<t, "delivery">>}
    /\ UNCHANGED <<policy, expired, checkoutVars>>

SeparatedByAgent(actor, item) ==    \* mutant: principals are not compared
    actor.agent # item.delivery.implementer.agent

\* A reviewer is not the implementing agent, nor, where the contract says so,
\* an agent of the same principal.
Separated(actor, item) ==
    /\ actor.agent # item.delivery.implementer.agent
    /\ item.contract.separation = "distinct-principal" =>
          actor.principal # item.delivery.implementer.principal

ReviewTask(t, req) ==
    /\ Admits(t, req) /\ InContext(t)
    /\ items[t].state = "test" /\ items[t].review = None
    /\ req.judgment \in Judgments
    /\ Separated(req.actor, items[t])
    /\ req.revision = items[t].delivery.revision
    /\ DeliveryOK(t)
    /\ Save(t, "review", req,
            [items[t] EXCEPT !.state = IF req.judgment = "pass" THEN "release_gate" ELSE @,
                !.review = [actor |-> req.actor, revision |-> req.revision,
                            judgment |-> req.judgment]])
    /\ altered' = altered \ {<<t, "review">>}
    /\ UNCHANGED <<policy, expired, checkoutVars>>

AttemptsOnly(item) == item.attempts    \* mutant: the rejection is not kept

\* The rejected delivery joins the attempts.
WithRejection(item) ==
    Append(item.attempts, [kind |-> "rejected", base |-> item.base,
                           revision |-> item.delivery.revision])

Rework(t, req) ==
    /\ Admits(t, req) /\ InContext(t) /\ IsApprover(req.actor)
    /\ items[t].state = "test"
    /\ items[t].review # None /\ items[t].review.judgment = "fail"
    /\ Save(t, "rework", req,
            [items[t] EXCEPT !.state = "intake", !.claim = None, !.pins = None,
                !.delivery = None, !.review = None,
                !.attempts = WithRejection(items[t])])
    /\ UNCHANGED <<policy, altered, expired, checkoutVars>>

Close(t, req) ==
    /\ Admits(t, req) /\ InContext(t) /\ IsApprover(req.actor)
    /\ items[t].state = "release_gate" /\ Passed(items[t])
    /\ req.revision = items[t].delivery.revision
    /\ DeliveryOK(t) /\ <<t, "review">> \notin altered
    /\ Save(t, "close", req,
            [items[t] EXCEPT !.state = "done",
                !.closeout = [actor |-> req.actor, revision |-> req.revision]])
    /\ UNCHANGED <<policy, altered, expired, checkoutVars>>

\* Cancellation asks for no context: it stays possible after the approval lapsed.
Cancel(t, req) ==
    /\ Admits(t, req) /\ IsApprover(req.actor)
    /\ Save(t, "cancel", req,
            [items[t] EXCEPT !.state = "cancelled", !.claim = None,
                !.closeout = [actor |-> req.actor, revision |-> None]])
    /\ UNCHANGED <<policy, altered, expired, checkoutVars>>

-----------------------------------------------------------------------------
(* What happens to the project's files outside the framework. *)

EditPolicy(p) ==
    /\ p # policy /\ policy' = p
    /\ UNCHANGED <<items, altered, expired, checkoutVars>>

\* The record of t holds digests of files of this kind.
HasPins(t, kind) ==
    /\ Exists(t)
    /\ kind = "delivery" => items[t].delivery # None
    /\ kind = "review" => items[t].review # None
    /\ kind = "closeout" => items[t].closeout # None

\* A pinned file changes, or gets its pinned content back.
Alter(t, kind) ==
    /\ <<t, kind>> \in Perishable /\ HasPins(t, kind)
    /\ altered' = IF <<t, kind>> \in altered THEN altered \ {<<t, kind>>}
                                            ELSE altered \cup {<<t, kind>>}
    /\ UNCHANGED <<items, policy, expired, checkoutVars>>

Expire(t) ==
    /\ t \in MayExpire \ expired
    /\ expired' = expired \cup {t}
    /\ UNCHANGED <<items, policy, altered, checkoutVars>>

WorkInCheckout ==
    /\ CheckoutNext(RecordVersions)
    /\ UNCHANGED lifecycleVars

-----------------------------------------------------------------------------
Init ==
    /\ CheckoutInit
    /\ items = [t \in Tasks |-> NoItem]
    /\ policy \in Policies
    /\ altered = {}
    /\ expired = {}

\* The version a client last saw: the current one or, bound, the one before.
Observed(t) == {v \in 0..items[t].version : items[t].version <= v + 1}

\* The operation id of a request: a new one or, bound, the latest one again.
\* Ids are opaque, so naming new ones in order loses nothing.
OperationIds(t) == items[t].version..(items[t].version + 1)

\* Who may sign a request: everyone some policy registers.
KnownActors == UNION {p.agents : p \in Policies}

\* The claim ids a client may have been given for t.
ClaimIds(t) == {i \in 1..items[t].version : items[t].history[i].action = "claim"}

Operate(t) ==
    \E op \in OperationIds(t), expected \in Observed(t), actor \in KnownActors :
        LET ask(claim, revision, judgment) ==
                Ask(op, expected, actor, claim, revision, judgment)
        IN  \/ \E c \in Contracts[t] : Create(t, c, ask(None, None, None))
            \/ \E r \in 0..tip : Claim(t, ask(None, r, None))
            \/ \E id \in ClaimIds(t) : Release(t, ask(id, None, None))
            \/ \E id \in ClaimIds(t), r \in 0..tip : Handoff(t, ask(id, r, None))
            \/ \E r \in 0..tip, j \in Judgments : ReviewTask(t, ask(None, r, j))
            \/ Rework(t, ask(None, None, None))
            \/ \E r \in 0..tip : Close(t, ask(None, r, None))
            \/ Cancel(t, ask(None, None, None))

Environment ==
    \/ \E p \in Policies : EditPolicy(p)
    \/ \E t \in Tasks : Expire(t) \/ \E kind \in PinKinds : Alter(t, kind)
    \/ WorkInCheckout

Next == (\E t \in Tasks : Operate(t)) \/ Environment

Spec == Init /\ [][Next]_vars

-----------------------------------------------------------------------------
(* Properties. *)

\* The type of every variable.
TypeOK ==
    /\ CheckoutTypeOK
    /\ items \in [Tasks -> Item \cup {NoItem}]
    /\ policy \in Policies
    /\ altered \subseteq Tasks \X PinKinds
    /\ expired \subseteq Tasks

\* A task that reached acceptance was delivered by the contract's agent, passed
\* by a reviewer separated from that implementer as the contract and the policy
\* it was approved under demand, and closed by an approver of that policy, all
\* three about one revision.  Claim, handoff, review and close are four calls
\* of four actors, with policy edits, rework and retries between them.
IndependentAcceptance ==
    \A t \in Tasks : LET item == items[t] IN
        item.state = "done" =>
            /\ item.delivery # None /\ item.review # None /\ item.closeout # None
            /\ item.delivery.implementer = item.contract.actor
            /\ item.review.judgment = "pass"
            /\ item.review.actor.agent # item.delivery.implementer.agent
            /\ "distinct-principal" \in {item.contract.separation, item.policy.separation} =>
                  item.review.actor.principal # item.delivery.implementer.principal
            /\ item.closeout.actor.principal \in item.policy.approvers
            /\ item.review.revision = item.delivery.revision
            /\ item.closeout.revision = item.delivery.revision

\* The history of an accepted task ends with one unbroken lineage: the claim the
\* delivery names, its handoff, its passing review and its close, with no
\* release, rework or other claim in between.
AcceptedLineage ==
    \A t \in Tasks : LET h == items[t].history
                          n == Len(h)
                      IN
        items[t].state = "done" =>
            /\ n >= 5
            /\ [i \in 1..4 |-> h[n - 4 + i].action] = <<"claim", "handoff", "review", "close">>
            /\ items[t].delivery.claim = n - 3
            /\ h[n - 2].request.claim = n - 3
            /\ h[n - 3].request.revision = items[t].base
            /\ h[n - 2].request.revision = items[t].delivery.revision

\* A revision some review rejected never becomes a candidate of that task again,
\* through any number of reworks and fresh claims.
RejectedStaysRejected ==
    \A t \in Tasks :
        items[t].delivery # None =>
            items[t].delivery.revision \notin RejectedRevisions(items[t])

\* Two tasks under implementation never share a write root: the claim of the
\* later one saw the earlier one, whatever was released, handed off or
\* cancelled in the meantime.
BuildersDisjoint ==
    \A t, u \in Tasks :
        t # u /\ items[t].state = "build" /\ items[u].state = "build" =>
            ~Overlap(items[t].contract, items[u].contract)

\* The accepted revision of a task contains the accepted revision of every task
\* it depends on, at any depth, and those tasks are themselves accepted.
AcceptedContainsDependencies ==
    \A t \in Tasks : items[t].state = "done" =>
        \A d \in Below(items[t]) :
            /\ Accepted(items[d])
            /\ IsAncestor(items[d].delivery.revision, items[t].delivery.revision)

\* What an accepted task changed since its claim lies in its declared write
\* roots, and its own record is the only one: work of other tasks committed in
\* between is never accepted with it.
AcceptedInScope ==
    \A t \in Tasks : LET item == items[t] IN
        item.state = "done" =>
            /\ ChangedRoots(item.base, item.delivery.revision) \subseteq item.contract.roots
            /\ ChangedRecords(item.base, item.delivery.revision) \subseteq {t}

\* The dependencies pinned at the claim stand, at the pinned version, for as long
\* as the pins are kept: no operation of another task can invalidate them, so
\* "Accepted dependency snapshot changed" only ever reports outside edits.
PinnedDependenciesStand ==
    \A t \in Tasks : items[t].state # "absent" /\ items[t].pins # None =>
        /\ \A d \in items[t].contract.deps : Accepted(items[d])
        /\ items[t].pins = PinsOf(items[t].contract.deps)

\* No operation id is applied twice to a task: a retried or duplicated request
\* leaves one event however late it arrives.
OperationsApplyOnce ==
    \A t \in Tasks : \A i, j \in DOMAIN items[t].history :
        items[t].history[i].request.op = items[t].history[j].request.op => i = j

-----------------------------------------------------------------------------
(* The lifecycle implements ChangeAcceptance. *)

PhaseOf(item) ==
    CASE item.state = "absent" -> "unknown"
      [] item.state \in {"intake", "build"} -> "open"
      [] item.state = "test" /\ item.review = None -> "offered"
      [] item.state = "test" /\ item.review # None -> "refused"
      [] item.state = "release_gate" -> "vetted"
      [] item.state = "done" -> "accepted"
      [] item.state = "cancelled" -> "withdrawn"

Promise == INSTANCE ChangeAcceptance WITH
    Changes <- Tasks, Candidates <- Revisions, People <- Agents, Nothing <- None,
    phase <- [t \in Tasks |-> PhaseOf(items[t])],
    candidate <- [t \in Tasks |-> IF items[t].delivery = None THEN None
                                  ELSE items[t].delivery.revision],
    author <- [t \in Tasks |-> IF items[t].delivery = None THEN None
                               ELSE items[t].delivery.implementer.agent],
    refused <- [t \in Tasks |-> RejectedRevisions(items[t])]

\* Whatever the interleaving of operations, edits of the policy and work in the
\* checkout, what an observer sees of a task is the offering, refusing, vetting
\* and accepting of one candidate at a time that ChangeAcceptance allows.
ImplementsAcceptance == Promise!AcceptanceSpec
=============================================================================
