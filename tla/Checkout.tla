------------------------------ MODULE Checkout ------------------------------
(***************************************************************************)
(* The Git checkout a task-first project lives in, as the guards of        *)
(* src/workkeel-tasks.mjs observe it through "git rev-parse", "git         *)
(* merge-base --is-ancestor", "git diff" and "git ls-files --others".      *)
(* Git itself is external: only what those four questions tell apart is    *)
(* kept.                                                                   *)
(*                                                                         *)
(* Roots are pairwise disjoint parts of the product tree; a declared write *)
(* root is a set of them, so two declared roots are nested or equal (the   *)
(* test of "under") exactly when their sets meet.  Every commit writes     *)
(* fresh content, so two trees differ on a root exactly when their         *)
(* ancestries hold different writers of it.  Merge commits are left out:   *)
(* commits form a tree.                                                    *)
(***************************************************************************)
EXTENDS Naturals, FiniteSets

CONSTANTS
    Tasks,        \* task identifiers
    Roots,        \* disjoint parts of the product tree
    MaxRevision,  \* bound: commits 0..MaxRevision
    RecordsTracked \* FALSE when the project's ignore rules hide task records

ASSUME CheckoutAssumption == MaxRevision \in Nat /\ RecordsTracked \in BOOLEAN

Revisions == 0..MaxRevision

VARIABLES
    tip,     \* the newest commit; commits are 0..tip, 0 is the base commit
    anc,     \* anc[r]: the ancestors of commit r, r included
    wrote,   \* wrote[r]: the roots commit r itself changed
    seen,    \* seen[r][t]: version of the record of task t in the tree of r, 0 if none
    head,    \* the commit checked out
    dirty    \* roots with changes, tracked or untracked, not in head

checkoutVars == <<tip, anc, wrote, seen, head, dirty>>

NothingRecorded == [t \in Tasks |-> 0]

CheckoutInit ==
    /\ tip = 0
    /\ anc = [r \in Revisions |-> IF r = 0 THEN {0} ELSE {}]
    /\ wrote = [r \in Revisions |-> {}]
    /\ seen = [r \in Revisions |-> NothingRecorded]
    /\ head = 0
    /\ dirty = {}

-----------------------------------------------------------------------------
(* What the guards ask. *)

\* git rev-parse --verify r^{commit}
IsCommit(r) == r \in 0..tip

\* git merge-base --is-ancestor a b
IsAncestor(a, b) == a \in anc[b]

\* git diff --name-only a b, over the product tree
ChangedRoots(a, b) ==
    UNION {wrote[r] : r \in (anc[a] \ anc[b]) \cup (anc[b] \ anc[a])}

\* git diff --name-only a b, over .ai-org/work-items
ChangedRecords(a, b) == {t \in Tasks : seen[a][t] # seen[b][t]}

\* git diff r plus the untracked files, over the product tree
DriftedRoots(r) == dirty \cup ChangedRoots(r, head)

-----------------------------------------------------------------------------
(* What people and agents do with Git between the framework's operations.  *)
(* "version" is the version of each task record in the working tree.       *)

Edit(root) ==
    /\ root \notin dirty
    /\ dirty' = dirty \cup {root}
    /\ UNCHANGED <<tip, anc, wrote, seen, head>>

Discard(root) ==
    /\ root \in dirty
    /\ dirty' = dirty \ {root}
    /\ UNCHANGED <<tip, anc, wrote, seen, head>>

\* Commit the roots W, and the task records too when they are staged (git add
\* stages no ignored file).
Commit(W, staged, version) ==
    /\ tip < MaxRevision
    /\ W \subseteq dirty
    /\ staged => RecordsTracked
    /\ W # {} \/ (staged /\ seen[head] # version)
    /\ tip' = tip + 1
    /\ anc' = [anc EXCEPT ![tip + 1] = anc[head] \cup {tip + 1}]
    /\ wrote' = [wrote EXCEPT ![tip + 1] = W]
    /\ seen' = [seen EXCEPT ![tip + 1] = IF staged THEN version ELSE seen[head]]
    /\ head' = tip + 1
    /\ dirty' = dirty \ W

\* Bound: a checkout that would roll a tracked task record back is left out;
\* the framework reads whatever record the working tree then holds.
Switch(r) ==
    /\ IsCommit(r) /\ r # head
    /\ dirty = {}
    /\ seen[r] = seen[head]
    /\ head' = r
    /\ UNCHANGED <<tip, anc, wrote, seen, dirty>>

CheckoutNext(version) ==
    \/ \E root \in Roots : Edit(root) \/ Discard(root)
    \/ \E W \in SUBSET dirty, staged \in BOOLEAN : Commit(W, staged, version)
    \/ \E r \in Revisions : Switch(r)

-----------------------------------------------------------------------------
CheckoutTypeOK ==
    /\ tip \in Revisions
    /\ anc \in [Revisions -> SUBSET Revisions]
    /\ wrote \in [Revisions -> SUBSET Roots]
    /\ seen \in [Revisions -> [Tasks -> Nat]]
    /\ head \in 0..tip
    /\ dirty \subseteq Roots

\* Ancestry is what the lifecycle relies on when it composes "--is-ancestor"
\* answers: reflexive on commits, transitive, and never reaching past the tip.
AncestryOK ==
    /\ \A r \in 0..tip : r \in anc[r] /\ anc[r] \subseteq 0..tip
    /\ \A r \in Revisions : \A x \in anc[r] : anc[x] \subseteq anc[r]
=============================================================================
