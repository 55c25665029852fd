--------------------------- MODULE Reconciliation ---------------------------
(***************************************************************************)
(* applyReconciliation and recoverReconciliation of src/reconciliation.mjs *)
(* with the commands of src/field-commands.mjs that call them: a previewed *)
(* merge of canonical records is journalled in the Git directory, written  *)
(* record by record, and rolled back from the journal when a step of it    *)
(* fails or a later command finds the journal.                             *)
(*                                                                         *)
(* Two locks guard it.  The door is the project mutation lock, a file in   *)
(* the host's temporary directory, one per host and checkout; its own life *)
(* is module MutationLock's subject, here it opens to one process at a     *)
(* time once its holder is gone.  The lock is mutation.lock in the Git directory, which all hosts *)
(* that share the checkout see; it names its owner, and only a dead owner  *)
(* of the same host is pushed aside.                                       *)
(*                                                                         *)
(* A process is one command, from its start to its exit or its death.      *)
(***************************************************************************)
EXTENDS FiniteSets

CONSTANTS
    Processes,
    HostOf,    \* the host each process runs on
    Paths,     \* the selected canonical records
    Bodies,    \* what a record's file may contain
    Merge,     \* of each content of the records, its merge with the incoming revision
    MayRace,   \* bound: whether records are edited while a command is at work
    None       \* no process, no journal, no record; a merge that conflicts

Contents == [Paths -> Bodies]

Journals == [before : Contents, after : Contents]
Receipts == [journal : Journals, status : {"applied", "rolled-back"}]

ASSUME ReconciliationAssumption ==
    /\ Merge \in [Contents -> Contents \union {None}]
    /\ None \notin Contents \union Processes \union Paths \union Journals \union Receipts
    /\ MayRace \in BOOLEAN

VARIABLES
    files,     \* the canonical records in the checkout
    pending,   \* pending.json: the journal of an unfinished reconciliation
    receipt,   \* the journal kept under its transaction's name: the latest
    door,      \* the project mutation lock of each host
    lock,      \* mutation.lock in the Git directory
    pc,        \* where each process is
    task,      \* what it was called for
    seen,      \* the contents named by the preview or transaction it was given
    plan,      \* the journal it works from
    left,      \* the records it has yet to write
    at         \* the record it has checked and is about to write

disk == <<files, pending, receipt>>
locks == <<door, lock>>
local == <<task, seen, plan, left, at>>
vars == <<disk, locks, pc, local>>

Hosts == {HostOf[p] : p \in Processes}

\* Between the creation of the lock and its removal.
Working == {"begin", "journal", "check", "write", "record", "commit",
            "preflight", "restore", "revert", "discard", "unlock"}

Entering == {"lock", "inspect", "steal", "retake", "leave"}

Alive(p) == pc[p] # "gone"

Changes(j) == {x \in Paths : j.before[x] # j.after[x]}

\* The records as they count: what an unfinished reconciliation has written
\* is still to be taken back.
Committed ==
    [x \in Paths |-> IF pending # None /\ files[x] = pending.after[x]
                     THEN pending.before[x] ELSE files[x]]

AtWork(p) == pc[p] \in Working

Inside == \E p \in Processes : AtWork(p)

Atomic == INSTANCE AtomicReconciliation WITH content <- Committed, inside <- Inside

Init ==
    /\ files \in Contents
    /\ pending = None
    /\ receipt = None
    /\ door = [h \in Hosts |-> None]
    /\ lock = None
    /\ pc = [p \in Processes |-> "idle"]
    /\ task = [p \in Processes |-> "apply"]
    /\ seen = [p \in Processes |-> None]
    /\ plan = [p \in Processes |-> None]
    /\ left = [p \in Processes |-> {}]
    /\ at = [p \in Processes |-> None]

Goto(p, from, to) == pc[p] = from /\ pc' = [pc EXCEPT ![p] = to]

Forget(p) ==
    /\ task' = [task EXCEPT ![p] = "apply"]
    /\ seen' = [seen EXCEPT ![p] = None]
    /\ plan' = [plan EXCEPT ![p] = None]
    /\ left' = [left EXCEPT ![p] = {}]
    /\ at' = [at EXCEPT ![p] = None]
-----------------------------------------------------------------------------
\* previewReconciliation: what every selected record merges to, if none of them
\* conflicts and together they are valid.
Preview(c) == Merge[c]

\* A command, with the preview its caller reviewed, or with the identifier of
\* the transaction its caller found pending.
Call(p) ==
    /\ Goto(p, "idle", "door")
    /\ \/ /\ Preview(files) # None
          /\ task' = [task EXCEPT ![p] = "apply"]
          /\ seen' = [seen EXCEPT ![p] = files]
       \/ /\ pending # None
          /\ task' = [task EXCEPT ![p] = "recover"]
          /\ seen' = [seen EXCEPT ![p] = pending.before]
    /\ UNCHANGED <<disk, locks, plan, left, at>>

DoorShut(h) == \E q \in Processes : door[h] = q /\ Alive(q)

\* withProjectMutationLock; everything but a recovery is refused while a
\* journal is pending.
Enter(p) ==
    /\ ~DoorShut(HostOf[p])
    /\ IF task[p] = "recover" \/ pending = None
       THEN /\ Goto(p, "door", "lock")
            /\ door' = [door EXCEPT ![HostOf[p]] = p]
            /\ UNCHANGED local
       ELSE /\ Goto(p, "door", "gone")
            /\ door' = [door EXCEPT ![HostOf[p]] = None]
            /\ Forget(p)
    /\ UNCHANGED <<disk, lock>>

\* "Another Temple mutation is still active"
TurnedAway(p) ==
    /\ DoorShut(HostOf[p])
    /\ Goto(p, "door", "gone")
    /\ Forget(p)
    /\ UNCHANGED <<disk, locks>>

\* durableAtomicCreate(lock, identity)
TakeLock(p) ==
    /\ IF lock = None
       THEN Goto(p, "lock", "begin") /\ lock' = p
       ELSE Goto(p, "lock", "inspect") /\ UNCHANGED lock
    /\ UNCHANGED <<disk, door, local>>

InspectPidOnly(p) ==    \* mutant: the owner's host is not compared
    /\ Goto(p, "inspect", IF lock # None /\ (~Alive(lock) \/ HostOf[lock] # HostOf[p])
                          THEN "steal" ELSE "leave")
    /\ UNCHANGED <<disk, locks, local>>

\* lstat, the owner's identity, the signal, lstat again.  A lock that is gone
\* by now is an error too.
Inspect(p) ==
    /\ Goto(p, "inspect", IF lock # None /\ HostOf[lock] = HostOf[p] /\ ~Alive(lock)
                          THEN "steal" ELSE "leave")
    /\ UNCHANGED <<disk, locks, local>>

\* durableUnlink of the name, whatever lock now bears it.
RemoveDeadLock(p) ==
    /\ Goto(p, "steal", IF lock = None THEN "leave" ELSE "retake")
    /\ lock' = None
    /\ UNCHANGED <<disk, door, local>>

Retake(p) ==
    /\ IF lock = None
       THEN Goto(p, "retake", "begin") /\ lock' = p
       ELSE Goto(p, "retake", "leave") /\ UNCHANGED lock
    /\ UNCHANGED <<disk, door, local>>

\* The finally block: only a lock that still names this process.
Unlock(p) ==
    /\ Goto(p, "unlock", "leave")
    /\ lock' = IF lock = p THEN None ELSE lock
    /\ UNCHANGED <<disk, door, local>>

\* The end of withProjectMutationLock, on every path.
Leave(p) ==
    /\ Goto(p, "leave", "gone")
    /\ door' = [door EXCEPT ![HostOf[p]] = None]
    /\ Forget(p)
    /\ UNCHANGED <<disk, lock>>
-----------------------------------------------------------------------------
\* applyReconciliation: no journal pending, a fresh preview without conflicts
\* and with the reviewed fingerprint, something to change.
Begin(p) ==
    /\ task[p] = "apply"
    /\ IF pending = None /\ files = seen[p] /\ Preview(files) \notin {None, files}
       THEN /\ Goto(p, "begin", "journal")
            /\ plan' = [plan EXCEPT ![p] = [before |-> files, after |-> Preview(files)]]
       ELSE Goto(p, "begin", "unlock") /\ UNCHANGED plan
    /\ UNCHANGED <<disk, locks, task, seen, left, at>>

\* durableAtomicCreate(pendingPath, ...), or its failure.
CreateJournal(p) ==
    /\ \/ /\ pending = None
          /\ Goto(p, "journal", "check")
          /\ pending' = plan[p]
          /\ left' = [left EXCEPT ![p] = Changes(plan[p])]
       \/ Goto(p, "journal", "unlock") /\ UNCHANGED <<pending, left>>
    /\ UNCHANGED <<files, receipt, locks, task, seen, plan, at>>

\* "Current content changed before write" ends in the rollback.
Check(p) ==
    /\ \E x \in left[p] :
          IF files[x] = plan[p].before[x]
          THEN Goto(p, "check", "write") /\ at' = [at EXCEPT ![p] = x]
          ELSE Goto(p, "check", "preflight") /\ UNCHANGED at
    /\ UNCHANGED <<disk, locks, task, seen, plan, left>>

Write(p) ==
    /\ LET rest == left[p] \ {at[p]}
       IN  /\ Goto(p, "write", IF rest = {} THEN "record" ELSE "check")
           /\ left' = [left EXCEPT ![p] = rest]
    /\ files' = [files EXCEPT ![at[p]] = plan[p].after[at[p]]]
    /\ at' = [at EXCEPT ![p] = None]
    /\ UNCHANGED <<pending, receipt, locks, task, seen, plan>>

Keep(j, status) == receipt' = [journal |-> j, status |-> status]

Record(p) ==
    /\ Goto(p, "record", "commit")
    /\ Keep(plan[p], "applied")
    /\ UNCHANGED <<files, pending, locks, local>>

Commit(p) ==
    /\ Goto(p, "commit", "unlock")
    /\ pending' = None
    /\ UNCHANGED <<files, receipt, locks, local>>

FailTidily(p) ==    \* mutant: a failure removes the journal on the way out
    /\ pc[p] \in {"check", "write", "record", "commit"}
    /\ pc' = [pc EXCEPT ![p] = "unlock"]
    /\ pending' = None
    /\ UNCHANGED <<files, receipt, locks, local>>

\* Reading, writing or unlinking throws: the catch block rolls back.
Fail(p) ==
    /\ pc[p] \in {"check", "write", "record", "commit"}
    /\ pc' = [pc EXCEPT ![p] = "preflight"]
    /\ UNCHANGED <<disk, locks, local>>
-----------------------------------------------------------------------------
\* recoverReconciliation: the transaction its caller names is the pending one.
BeginRecovery(p) ==
    /\ task[p] = "recover"
    /\ IF pending # None /\ pending.before = seen[p]
       THEN Goto(p, "begin", "preflight")
       ELSE Goto(p, "begin", "unlock")
    /\ UNCHANGED <<disk, locks, local>>

PreflightNothing(p) ==    \* mutant: restoring starts without looking at every record first
    /\ IF pending # None
       THEN /\ Goto(p, "preflight", "restore")
            /\ plan' = [plan EXCEPT ![p] = pending]
            /\ left' = [left EXCEPT ![p] = Changes(pending)]
       ELSE Goto(p, "preflight", "unlock") /\ UNCHANGED <<plan, left>>
    /\ at' = [at EXCEPT ![p] = None]
    /\ UNCHANGED <<disk, locks, task, seen>>

\* rollback reads the journal and every record of it: with an edit it does
\* not know, it restores nothing and the journal stays.
Preflight(p) ==
    /\ IF pending # None /\ \A x \in Changes(pending) :
                               files[x] \in {pending.before[x], pending.after[x]}
       THEN /\ Goto(p, "preflight", "restore")
            /\ plan' = [plan EXCEPT ![p] = pending]
            /\ left' = [left EXCEPT ![p] = Changes(pending)]
       ELSE Goto(p, "preflight", "unlock") /\ UNCHANGED <<plan, left>>
    /\ at' = [at EXCEPT ![p] = None]
    /\ UNCHANGED <<disk, locks, task, seen>>

Restore(p) ==
    /\ \E x \in left[p] :
          /\ files' = [files EXCEPT ![x] = plan[p].before[x]]
          /\ left' = [left EXCEPT ![p] = @ \ {x}]
          /\ Goto(p, "restore", IF left[p] = {x} THEN "revert" ELSE "restore")
    /\ UNCHANGED <<pending, receipt, locks, task, seen, plan, at>>

SkipReceipt(p) ==    \* mutant: a rollback leaves the receipt as it was
    /\ Goto(p, "revert", "discard")
    /\ UNCHANGED <<disk, locks, local>>

Revert(p) ==
    /\ Goto(p, "revert", "discard")
    /\ Keep(plan[p], "rolled-back")
    /\ UNCHANGED <<files, pending, locks, local>>

Discard(p) ==
    /\ Goto(p, "discard", "unlock")
    /\ pending' = None
    /\ UNCHANGED <<files, receipt, locks, local>>

\* A rollback that throws leaves the journal to the next recovery.
FailToRestore(p) ==
    /\ pc[p] \in {"preflight", "restore", "revert", "discard"}
    /\ pc' = [pc EXCEPT ![p] = "unlock"]
    /\ UNCHANGED <<disk, locks, local>>
-----------------------------------------------------------------------------
Die(p) ==
    /\ pc[p] \notin {"idle", "gone"}
    /\ pc' = [pc EXCEPT ![p] = "gone"]
    /\ Forget(p)
    /\ UNCHANGED <<disk, locks>>

\* A person, or a command of another host, replaces a record.
Edit ==
    /\ MayRace \/ ~Inside
    /\ \E x \in Paths, b \in Bodies : files' = [files EXCEPT ![x] = b]
    /\ UNCHANGED <<pending, receipt, locks, pc, local>>

Apply(p) ==
    \/ Begin(p) \/ CreateJournal(p) \/ Check(p) \/ Write(p)
    \/ Record(p) \/ Commit(p) \/ Fail(p)

Recover(p) ==
    \/ BeginRecovery(p) \/ Preflight(p) \/ Restore(p) \/ Revert(p)
    \/ Discard(p) \/ FailToRestore(p)

Pass(p) ==
    \/ Call(p) \/ Enter(p) \/ TurnedAway(p) \/ TakeLock(p) \/ Inspect(p)
    \/ RemoveDeadLock(p) \/ Retake(p) \/ Unlock(p) \/ Leave(p)

Next ==
    \/ \E p \in Processes : Pass(p) \/ Apply(p) \/ Recover(p) \/ Die(p)
    \/ Edit

Spec == Init /\ [][Next]_vars
-----------------------------------------------------------------------------
TypeOK ==
    /\ files \in Contents
    /\ pending \in Journals \union {None}
    /\ receipt \in Receipts \union {None}
    /\ door \in [Hosts -> Processes \union {None}]
    /\ lock \in Processes \union {None}
    /\ pc \in [Processes -> Working \union Entering \union {"idle", "door", "gone"}]
    /\ task \in [Processes -> {"apply", "recover"}]
    /\ seen \in [Processes -> Contents \union {None}]
    /\ plan \in [Processes -> Journals \union {None}]
    /\ left \in [Processes -> SUBSET Paths]
    /\ at \in [Processes -> Paths \union {None}]

\* withReconciliationLock: whatever dies and whoever pushes its lock aside,
\* no two processes, of one host or of two, are inside at once.
OneWriter == \A p, q \in Processes : AtWork(p) /\ AtWork(q) => p = q

\* The journal goes away only with a receipt of its own transaction that says
\* what the records then are: all merged, or all as they were before.
Settles ==
    pending # None /\ pending' = None =>
        /\ receipt # None /\ receipt.journal = pending
        /\ \A x \in Changes(pending) :
              files[x] = IF receipt.status = "applied" THEN pending.after[x]
                         ELSE pending.before[x]

ReceiptIsTrue == [][Settles]_vars

Spares(Step(_)) ==
    \A p \in Processes, x \in Paths :
        files'[x] # files[x] /\ Step(p) =>
            /\ pending # None
            /\ files[x] \in {pending.before[x], pending.after[x]}

\* The checks ahead of every write and every restore: a command replaces
\* nothing but what its journal has recorded, however it got where it is.
EditsSurvive == [][Spares(Apply) /\ Spares(Recover)]_vars

\* rollback: "Preflight every path before restoring any: edits made after
\* failure must survive."
RestoresSpareEdits == [][Spares(Recover)]_vars

\* The merge of all the records, or none of it, through failures, crashes and
\* edits between them: applyReconciliation implements AtomicReconciliation.
Implements == Atomic!Spec
=============================================================================
