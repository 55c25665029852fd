------------------------ MODULE ReconciliationProofs ------------------------
(***************************************************************************)
(* Proofs about Reconciliation, for any processes, hosts, records, bodies  *)
(* and merge.                                                              *)
(*                                                                         *)
(* The argument has three layers, each resting on the one below: what a    *)
(* process has in hand at each place (Equipped), who is behind which lock  *)
(* (Guarded), and how far the records have got at each place of the one    *)
(* process that is inside (Progress).  What the records are merged to is   *)
(* the subject of ThreeWayMergeProofs; that the journals hold just that is *)
(* shown last (Genuine).                                                   *)
(***************************************************************************)
EXTENDS ContractMerge, ThreeWayMergeProofs

USE ReconciliationAssumption

\* The places at which the journal has been read, and at which a record has
\* been chosen.
Equipped ==
    \A p \in Processes :
        /\ pc[p] \in {"journal", "check", "write", "record", "commit",
                      "restore", "revert", "discard"} => plan[p] # None
        /\ pc[p] = "write" => at[p] \in left[p]

Typed == TypeOK /\ Equipped

\* The door's holder, the lock's holder, and the only lock anybody removes.
Guarded ==
    /\ \A p \in Processes : pc[p] \in Working \union Entering => door[HostOf[p]] = p
    /\ \A p \in Processes : AtWork(p) => lock = p
    /\ \A p \in Processes : pc[p] = "steal" =>
          /\ lock \in Processes
          /\ pc[lock] = "gone"
          /\ HostOf[lock] = HostOf[p]

-----------------------------------------------------------------------------
(* The first layer.                                                        *)

LEMMA TypedInit == Init => Typed
  BY DEF Init, Typed, TypeOK, Equipped

LEMMA TypedStep == Typed /\ [Next]_vars => Typed'
<1> SUFFICES ASSUME Typed, [Next]_vars PROVE Typed'
  OBVIOUS
<1> USE DEF Typed, TypeOK, Equipped, Goto, disk, locks, local, Working, Entering
<1>1. ASSUME NEW p \in Processes, Call(p) PROVE Typed'
  BY <1>1 DEF Call, Journals
<1>2. ASSUME NEW p \in Processes, Enter(p) PROVE Typed'
  BY <1>2 DEF Enter, Forget
<1>3. ASSUME NEW p \in Processes, TurnedAway(p) PROVE Typed'
  BY <1>3 DEF TurnedAway, Forget
<1>4. ASSUME NEW p \in Processes, TakeLock(p) PROVE Typed'
  BY <1>4 DEF TakeLock
<1>5. ASSUME NEW p \in Processes, Inspect(p) PROVE Typed'
  BY <1>5 DEF Inspect
<1>6. ASSUME NEW p \in Processes, RemoveDeadLock(p) PROVE Typed'
  BY <1>6 DEF RemoveDeadLock
<1>7. ASSUME NEW p \in Processes, Retake(p) PROVE Typed'
  BY <1>7 DEF Retake
<1>8. ASSUME NEW p \in Processes, Unlock(p) PROVE Typed'
  BY <1>8 DEF Unlock
<1>9. ASSUME NEW p \in Processes, Leave(p) PROVE Typed'
  BY <1>9 DEF Leave, Forget
<1>10. ASSUME NEW p \in Processes, Begin(p) PROVE Typed'
  BY <1>10 DEF Begin, Preview, Journals
<1>11. ASSUME NEW p \in Processes, CreateJournal(p) PROVE Typed'
  BY <1>11 DEF CreateJournal, Changes
<1>12. ASSUME NEW p \in Processes, Check(p) PROVE Typed'
  BY <1>12 DEF Check
<1>13. ASSUME NEW p \in Processes, Write(p) PROVE Typed'
  BY <1>13 DEF Write, Journals, Contents
<1>14. ASSUME NEW p \in Processes, Record(p) PROVE Typed'
  BY <1>14 DEF Record, Keep, Receipts
<1>15. ASSUME NEW p \in Processes, Commit(p) PROVE Typed'
  BY <1>15 DEF Commit
<1>16. ASSUME NEW p \in Processes, Fail(p) PROVE Typed'
  BY <1>16 DEF Fail
<1>17. ASSUME NEW p \in Processes, BeginRecovery(p) PROVE Typed'
  BY <1>17 DEF BeginRecovery
<1>18. ASSUME NEW p \in Processes, Preflight(p) PROVE Typed'
  BY <1>18 DEF Preflight, Changes
<1>19. ASSUME NEW p \in Processes, Restore(p) PROVE Typed'
  BY <1>19 DEF Restore, Journals, Contents
<1>20. ASSUME NEW p \in Processes, Revert(p) PROVE Typed'
  BY <1>20 DEF Revert, Keep, Receipts
<1>21. ASSUME NEW p \in Processes, Discard(p) PROVE Typed'
  BY <1>21 DEF Discard
<1>22. ASSUME NEW p \in Processes, FailToRestore(p) PROVE Typed'
  BY <1>22 DEF FailToRestore
<1>23. ASSUME NEW p \in Processes, Die(p) PROVE Typed'
  BY <1>23 DEF Die, Forget
<1>24. ASSUME Edit PROVE Typed'
  BY <1>24 DEF Edit, Contents
<1>25. CASE UNCHANGED vars
  BY <1>25 DEF vars
<1>26. QED
  BY <1>1, <1>2, <1>3, <1>4, <1>5, <1>6, <1>7, <1>8, <1>9, <1>10, <1>11, <1>12, <1>13,
     <1>14, <1>15, <1>16, <1>17, <1>18, <1>19, <1>20, <1>21, <1>22, <1>23, <1>24, <1>25
     DEF Next, Pass, Apply, Recover

\* Every variable keeps its type: the journal and its receipt are whole.
THEOREM TypeCorrect == Spec => []TypeOK
<1>1. Typed => TypeOK
  BY DEF Typed
<1>2. QED
  BY TypedInit, TypedStep, <1>1, PTL DEF Spec

-----------------------------------------------------------------------------
(* The second layer: the door keeps the processes of one host apart, so a   *)
(* lock that was found dead is still that lock when it is removed.          *)

LEMMA GuardedInit == Init => Guarded
  BY DEF Init, Guarded, AtWork, Working, Entering

LEMMA GuardedStep == Typed /\ Guarded /\ [Next]_vars => Guarded'
<1> SUFFICES ASSUME Typed, Guarded, [Next]_vars PROVE Guarded'
  OBVIOUS
<1> USE DEF Typed, TypeOK, Guarded, AtWork, Goto, Working, Entering, Hosts
\* Steps inside the lock leave both locks alone.
<1>1. ASSUME NEW p \in Processes, pc[p] \in Working, pc' = [pc EXCEPT ![p] = pc'[p]],
             pc'[p] \in Working, UNCHANGED locks
      PROVE  Guarded'
  BY <1>1 DEF locks
<1>2. ASSUME NEW p \in Processes, Apply(p) PROVE Guarded'
  BY <1>1, <1>2 DEF Apply, Begin, CreateJournal, Check, Write, Record, Commit, Fail
<1>3. ASSUME NEW p \in Processes, Recover(p) PROVE Guarded'
  BY <1>1, <1>3 DEF Recover, BeginRecovery, Preflight, Restore, Revert, Discard, FailToRestore
<1>4. ASSUME NEW p \in Processes, Call(p) PROVE Guarded'
  BY <1>4 DEF Call, locks
<1>5. ASSUME NEW p \in Processes, Enter(p) PROVE Guarded'
  BY <1>5 DEF Enter, DoorShut, Alive
<1>6. ASSUME NEW p \in Processes, TurnedAway(p) PROVE Guarded'
  BY <1>6 DEF TurnedAway, locks
<1>7. ASSUME NEW p \in Processes, TakeLock(p) PROVE Guarded'
  BY <1>7 DEF TakeLock
<1>8. ASSUME NEW p \in Processes, Inspect(p) PROVE Guarded'
  BY <1>8 DEF Inspect, Alive, locks
<1>9. ASSUME NEW p \in Processes, RemoveDeadLock(p) PROVE Guarded'
  BY <1>9 DEF RemoveDeadLock
<1>10. ASSUME NEW p \in Processes, Retake(p) PROVE Guarded'
  BY <1>10 DEF Retake
<1>11. ASSUME NEW p \in Processes, Unlock(p) PROVE Guarded'
  BY <1>11 DEF Unlock
<1>12. ASSUME NEW p \in Processes, Leave(p) PROVE Guarded'
  BY <1>12 DEF Leave
<1>13. ASSUME NEW p \in Processes, Die(p) PROVE Guarded'
  BY <1>13 DEF Die, locks
<1>14. ASSUME Edit PROVE Guarded'
  BY <1>14 DEF Edit, locks
<1>15. CASE UNCHANGED vars
  BY <1>15 DEF vars, locks
<1>16. QED
  BY <1>2, <1>3, <1>4, <1>5, <1>6, <1>7, <1>8, <1>9, <1>10, <1>11, <1>12, <1>13, <1>14, <1>15
     DEF Next, Pass

LEMMA OneInside == Guarded => OneWriter
  BY DEF Guarded, OneWriter

\* At most one process is between the creation and the removal of the lock,
\* whatever dies and whoever pushes a dead lock aside.
THEOREM WritersExclude == Spec => []OneWriter
<1>1. Init => Typed /\ Guarded
  BY TypedInit, GuardedInit
<1>2. Typed /\ Guarded /\ [Next]_vars => (Typed /\ Guarded)'
  BY TypedStep, GuardedStep
<1>3. QED
  BY <1>1, <1>2, OneInside, PTL DEF Spec

-----------------------------------------------------------------------------
(* The third layer: what the records are at each place inside the lock.     *)
(* While nobody edits them under the process's hands, they are what it last *)
(* found and wrote.                                                         *)

\* A journal is the content it was made from and its merge.
Merges(j) == j.after = Merge[j.before]

\* Applying: what is left is as it was, the rest is merged.
Applied(p) ==
    /\ pending = plan[p]
    /\ \A x \in Paths : files[x] = IF x \in left[p] THEN pending.before[x] ELSE pending.after[x]

\* Restoring: what is left is either, the rest is as it was.
Restored(p) ==
    /\ pending = plan[p]
    /\ left[p] \subseteq Changes(pending)
    /\ \A x \in left[p] : files[x] \in {pending.before[x], pending.after[x]}
    /\ \A x \in Changes(pending) \ left[p] : files[x] = pending.before[x]

Progress(p) ==
    /\ pc[p] = "journal" => Merges(plan[p]) /\ plan[p].before = files
    /\ pc[p] \in {"check", "write", "record", "commit"} => Applied(p)
    /\ pc[p] \in {"record", "commit"} => left[p] = {}
    /\ pc[p] = "commit" => receipt = [journal |-> plan[p], status |-> "applied"]
    /\ pc[p] \in {"restore", "revert", "discard"} => Restored(p)
    /\ pc[p] \in {"revert", "discard"} => left[p] = {}
    /\ pc[p] = "discard" => receipt = [journal |-> plan[p], status |-> "rolled-back"]

Recorded ==
    /\ pending # None => Merges(pending)
    /\ \A p \in Processes : Progress(p)

LEMMA RecordedInit == Init => Recorded
  BY DEF Init, Recorded, Progress

\* A step of one process finds the others outside, and outside Progress asks
\* for nothing.
LEMMA OthersAreOut ==
    ASSUME Typed, Guarded, Recorded,
           NEW p \in Processes, AtWork(p),
           pc' = [pc EXCEPT ![p] = pc'[p]],
           pending' # None => Merges(pending)',
           Progress(p)'
    PROVE  Recorded'
<1>1. \A q \in Processes \ {p} : ~AtWork(q)
  BY DEF Guarded
<1>2. \A q \in Processes \ {p} : ~AtWork(q)'
  BY <1>1 DEF AtWork, Typed, TypeOK
<1>3. ASSUME NEW q \in Processes, q # p PROVE Progress(q)'
  BY <1>2, <1>3 DEF Progress, AtWork, Working
<1>4. QED
  BY <1>3 DEF Recorded

\* Outside the lock nothing of this changes.
LEMMA OutsideKeeps ==
    ASSUME Typed, Recorded, NEW p \in Processes,
           pc' = [pc EXCEPT ![p] = pc'[p]],
           pc'[p] \notin Working \ {"begin", "preflight", "unlock"},
           UNCHANGED disk,
           \A q \in Processes \ {p} : plan'[q] = plan[q] /\ left'[q] = left[q]
    PROVE  Recorded'
<1>1. Progress(p)'
  BY DEF Progress, Working, Typed, TypeOK
<1>2. ASSUME NEW q \in Processes, q # p PROVE Progress(q)'
  BY <1>2 DEF Recorded, Progress, Applied, Restored, Merges, Changes, Typed, TypeOK, disk
<1>3. (pending # None => Merges(pending))'
  BY DEF Recorded, disk, Merges
<1>4. QED
  BY <1>1, <1>2, <1>3 DEF Recorded

LEMMA RecordedStep ==
    ASSUME MayRace = FALSE, Typed, Guarded, Recorded, [Next]_vars
    PROVE  Recorded'
<1> USE DEF Goto, disk, locks, local
<1>1. ASSUME NEW p \in Processes, Pass(p) \/ Die(p) PROVE Recorded'
  BY <1>1, OutsideKeeps
     DEF Pass, Die, Forget, Call, Enter, TurnedAway, TakeLock, Inspect, RemoveDeadLock, Retake,
         Unlock, Leave, Working, Typed, TypeOK
<1>2. ASSUME NEW p \in Processes,
             Fail(p) \/ BeginRecovery(p) \/ FailToRestore(p)
      PROVE  Recorded'
  BY <1>2, OutsideKeeps DEF Fail, BeginRecovery, FailToRestore, Working, Typed, TypeOK
<1> USE DEF AtWork, Working, Typed, TypeOK
<1>3. ASSUME NEW p \in Processes, Begin(p) PROVE Recorded'
  <2>1. Progress(p)'
    BY <1>3 DEF Begin, Preview, Progress, Merges
  <2>2. QED
    BY <1>3, <2>1, OthersAreOut DEF Begin, Recorded, Merges
<1>4. ASSUME NEW p \in Processes, CreateJournal(p) PROVE Recorded'
  <2>1. Progress(p)'
    BY <1>4 DEF CreateJournal, Recorded, Progress, Applied, Changes
  <2>2. (pending # None => Merges(pending))'
    BY <1>4 DEF CreateJournal, Recorded, Progress, Merges
  <2>3. QED
    BY <1>4, <2>1, <2>2, OthersAreOut DEF CreateJournal
<1>5. ASSUME NEW p \in Processes, Check(p) PROVE Recorded'
  <2>1. Progress(p)'
    BY <1>5 DEF Check, Recorded, Progress, Applied
  <2>2. QED
    BY <1>5, <2>1, OthersAreOut DEF Check, Recorded, Merges
<1>6. ASSUME NEW p \in Processes, Write(p) PROVE Recorded'
  <2>1. pending = plan[p] /\ plan[p] # None /\ at[p] \in left[p] /\ at[p] \in Paths
    BY <1>6 DEF Write, Recorded, Progress, Applied, Equipped
  <2>2. Applied(p)'
    BY <1>6, <2>1 DEF Write, Recorded, Progress, Applied, Contents
  <2>3. Progress(p)'
    BY <1>6, <2>2 DEF Write, Progress
  <2>4. QED
    BY <1>6, <2>3, OthersAreOut DEF Write, Recorded, Merges
<1>7. ASSUME NEW p \in Processes, Record(p) PROVE Recorded'
  <2>1. Progress(p)'
    BY <1>7 DEF Record, Keep, Recorded, Progress, Applied
  <2>2. QED
    BY <1>7, <2>1, OthersAreOut DEF Record, Recorded, Merges
<1>8. ASSUME NEW p \in Processes, Commit(p) PROVE Recorded'
  <2>1. Progress(p)'
    BY <1>8 DEF Commit, Progress
  <2>2. QED
    BY <1>8, <2>1, OthersAreOut DEF Commit
<1>9. ASSUME NEW p \in Processes, Preflight(p) PROVE Recorded'
  <2>1. Progress(p)'
    BY <1>9 DEF Preflight, Progress, Restored, Changes
  <2>2. QED
    BY <1>9, <2>1, OthersAreOut DEF Preflight, Recorded, Merges
<1>10. ASSUME NEW p \in Processes, Restore(p) PROVE Recorded'
  <2>1. PICK x \in left[p] :
          /\ files' = [files EXCEPT ![x] = plan[p].before[x]]
          /\ left' = [left EXCEPT ![p] = @ \ {x}]
          /\ Goto(p, "restore", IF left[p] = {x} THEN "revert" ELSE "restore")
    BY <1>10 DEF Restore
  <2>2. Restored(p) /\ pending' = pending /\ plan' = plan /\ x \in Paths
    BY <1>10, <2>1 DEF Restore, Recorded, Progress
  <2>3. Restored(p)'
    BY <2>1, <2>2 DEF Restored, Changes, Contents
  <2>4. Progress(p)'
    BY <2>1, <2>3 DEF Progress
  <2>5. QED
    BY <1>10, <2>1, <2>4, OthersAreOut DEF Restore, Recorded, Merges
<1>11. ASSUME NEW p \in Processes, Revert(p) PROVE Recorded'
  <2>1. Progress(p)'
    BY <1>11 DEF Revert, Keep, Recorded, Progress, Restored, Changes
  <2>2. QED
    BY <1>11, <2>1, OthersAreOut DEF Revert, Recorded, Merges
<1>12. ASSUME NEW p \in Processes, Discard(p) PROVE Recorded'
  <2>1. Progress(p)'
    BY <1>12 DEF Discard, Progress
  <2>2. QED
    BY <1>12, <2>1, OthersAreOut DEF Discard
<1>13. ASSUME Edit PROVE Recorded'
  BY <1>13 DEF Edit, Inside, Recorded, Progress, Merges
<1>14. CASE UNCHANGED vars
  BY <1>14 DEF vars, Recorded, Progress, Applied, Restored, Merges, Changes
<1>15. QED
  BY <1>1, <1>2, <1>3, <1>4, <1>5, <1>6, <1>7, <1>8, <1>9, <1>10, <1>11, <1>12, <1>13, <1>14
     DEF Next, Apply, Recover

-----------------------------------------------------------------------------
(* What follows from the three layers.                                     *)

Inductive == Typed /\ Guarded /\ Recorded

LEMMA InductiveInvariant == ASSUME MayRace = FALSE PROVE Spec => []Inductive
<1>1. Init => Inductive
  BY TypedInit, GuardedInit, RecordedInit DEF Inductive
<1>2. Inductive /\ [Next]_vars => Inductive'
  BY TypedStep, GuardedStep, RecordedStep DEF Inductive
<1>3. QED
  BY <1>1, <1>2, PTL DEF Spec

LEMMA SettlesStep == Inductive /\ [Next]_vars => [Settles]_vars
<1> SUFFICES ASSUME Inductive, Next, pending # None, pending' = None PROVE Settles
  BY DEF Settles, vars
<1> USE DEF Inductive, Recorded, Progress, Goto, disk, locks, local
<1>1. PICK p \in Processes : Commit(p) \/ Discard(p)
  BY DEF Next, Pass, Apply, Recover, Call, Enter, TurnedAway, TakeLock, Inspect, RemoveDeadLock,
         Retake, Unlock, Leave, Begin, CreateJournal, Check, Write, Record, Fail, BeginRecovery,
         Preflight, Restore, Revert, FailToRestore, Die, Edit
<1>2. CASE Commit(p)
  BY <1>2 DEF Commit, Applied, Changes, Settles, Receipts, Typed, TypeOK, Equipped
<1>3. CASE Discard(p)
  BY <1>3 DEF Discard, Restored, Changes, Settles, Receipts, Typed, TypeOK, Equipped
<1>4. QED
  BY <1>1, <1>2, <1>3

\* A journal goes away only with its own receipt, and the receipt is true.
THEOREM ReceiptsAreTrue == ASSUME MayRace = FALSE PROVE Spec => ReceiptIsTrue
  BY InductiveInvariant, SettlesStep, PTL DEF Spec, ReceiptIsTrue

LEMMA SparesStep == Inductive /\ [Next]_vars => [Spares(Apply) /\ Spares(Recover)]_vars
<1> SUFFICES ASSUME Inductive, NEW p \in Processes, NEW x \in Paths,
                    Apply(p) \/ Recover(p), files'[x] # files[x]
             PROVE  /\ pending # None
                    /\ files[x] \in {pending.before[x], pending.after[x]}
  BY DEF Spares
<1> USE DEF Inductive, Typed, TypeOK, Equipped, Recorded, Progress, Goto, disk
<1>1. CASE Write(p)
  BY <1>1 DEF Write, Applied, Contents
<1>2. CASE Restore(p)
  <2>1. PICK y \in left[p] : files' = [files EXCEPT ![y] = plan[p].before[y]]
    BY <1>2 DEF Restore
  <2>2. x = y /\ Restored(p) /\ plan[p] # None
    BY <1>2, <2>1 DEF Restore, Contents
  <2>3. QED
    BY <2>1, <2>2 DEF Restored
<1>3. QED
  BY <1>1, <1>2
     DEF Apply, Recover, Begin, CreateJournal, Check, Record, Commit, Fail, BeginRecovery,
         Preflight, Revert, Discard, FailToRestore

\* Edits made while no command is at work are never overwritten, whatever the
\* commands before and after them did.
THEOREM KnownEditsSurvive == ASSUME MayRace = FALSE PROVE Spec => EditsSurvive
  BY InductiveInvariant, SparesStep, PTL DEF Spec, EditsSurvive

-----------------------------------------------------------------------------
(* The refinement: Committed moves when the journal of a finished merge is  *)
(* removed, and with an edit.                                               *)

LEMMA CommittedAlone ==
    ASSUME UNCHANGED <<files, pending>> PROVE UNCHANGED Committed
  BY DEF Committed

LEMMA AtomicStep == MayRace = FALSE /\ Inductive /\ [Next]_vars => [Atomic!Next]_<<Committed, Inside>>
<1> SUFFICES ASSUME MayRace = FALSE, Inductive, [Next]_vars PROVE [Atomic!Next]_<<Committed, Inside>>
  OBVIOUS
<1> USE DEF Inductive, Typed, TypeOK, Equipped, Recorded, Progress, Goto, disk, locks, local
<1>1. ASSUME NEW p \in Processes, CreateJournal(p) PROVE UNCHANGED Committed
  <2>1. CASE UNCHANGED pending
    BY <1>1, <2>1, CommittedAlone DEF CreateJournal
  <2>2. CASE pending = None /\ pending' = plan[p] /\ plan[p] # None
    BY <1>1, <2>2 DEF CreateJournal, Committed
  <2>3. QED
    BY <1>1, <2>1, <2>2 DEF CreateJournal
<1>2. ASSUME NEW p \in Processes, Write(p) PROVE UNCHANGED Committed
  <2>1. /\ pending = plan[p] /\ pending # None
        /\ files' = [files EXCEPT ![at[p]] = pending.after[at[p]]]
        /\ files[at[p]] = pending.before[at[p]]
    BY <1>2 DEF Write, Applied
  <2>2. QED
    BY <1>2, <2>1 DEF Write, Committed, Contents
<1>3. ASSUME NEW p \in Processes, Restore(p) PROVE UNCHANGED Committed
  <2>1. PICK y \in left[p] : files' = [files EXCEPT ![y] = plan[p].before[y]]
    BY <1>3 DEF Restore
  <2>2. /\ pending = plan[p] /\ pending # None /\ pending' = pending
        /\ files[y] \in {pending.before[y], pending.after[y]}
    BY <1>3, <2>1 DEF Restore, Restored
  <2>3. QED
    BY <2>1, <2>2 DEF Committed, Contents
<1>4. ASSUME NEW p \in Processes, Commit(p) PROVE Atomic!Reconcile
  <2>1. /\ pending \in Journals /\ pending' = None /\ files' = files
        /\ \A x \in Paths : files[x] = pending.after[x]
        /\ pending.after = Merge[pending.before]
    BY <1>4 DEF Commit, Applied, Merges
  <2>2. Committed = pending.before
    BY <2>1 DEF Committed, Journals, Contents
  <2>3. Committed' = pending.after
    BY <2>1 DEF Committed, Journals, Contents
  <2>4. Merge[pending.before] # None
    BY <2>1 DEF Journals
  <2>5. Inside /\ Inside'
    BY <1>4 DEF Commit, Inside, AtWork, Working
  <2>6. QED
    BY <2>1, <2>2, <2>3, <2>4, <2>5 DEF Atomic!Reconcile
<1>5. ASSUME NEW p \in Processes, Discard(p) PROVE UNCHANGED Committed
  <2>1. /\ pending # None /\ pending \in Journals /\ pending' = None /\ files' = files
        /\ \A x \in Changes(pending) : files[x] = pending.before[x]
    BY <1>5 DEF Discard, Restored
  <2>2. ASSUME NEW x \in Paths
        PROVE  (IF files[x] = pending.after[x] THEN pending.before[x] ELSE files[x]) = files[x]
    BY <2>1 DEF Changes
  <2>3. QED
    BY <2>1, <2>2 DEF Committed
<1>6. ASSUME Edit PROVE Atomic!Edit
  <2>1. PICK x \in Paths, b \in Bodies : files' = [files EXCEPT ![x] = b]
    BY <1>6 DEF Edit
  <2>2. pending' = pending /\ pc' = pc
    BY <1>6 DEF Edit
  <2> DEFINE body == IF pending # None /\ b = pending.after[x] THEN pending.before[x] ELSE b
  <2>3. body \in Bodies
    BY DEF Journals, Contents
  <2>4. Committed' = [Committed EXCEPT ![x] = body]
    BY <2>1, <2>2 DEF Committed, Contents
  <2>5. ~Inside /\ UNCHANGED Inside
    BY <1>6 DEF Edit, Inside, AtWork
  <2>6. QED
    BY <2>3, <2>4, <2>5 DEF Atomic!Edit
<1>7. ASSUME UNCHANGED <<files, pending>> PROVE UNCHANGED Committed
  BY <1>7, CommittedAlone
<1>8. UNCHANGED Committed \/ Atomic!Reconcile \/ Atomic!Edit
  BY <1>1, <1>2, <1>3, <1>4, <1>5, <1>6, <1>7
     DEF Next, vars, Pass, Apply, Recover, Call, Enter, TurnedAway, TakeLock, Inspect,
         RemoveDeadLock, Retake, Unlock, Leave, Begin, Check, Record, Fail, BeginRecovery,
         Preflight, Revert, FailToRestore, Die
<1>9. UNCHANGED Committed => UNCHANGED Inside \/ Atomic!Pass
  BY DEF Atomic!Pass, Inside
<1>10. QED
  BY <1>8, <1>9 DEF Atomic!Next

\* The records are merged whole or not at all.
THEOREM MergesWholly == ASSUME MayRace = FALSE PROVE Spec => Implements
<1>1. Init => Atomic!Init
  BY DEF Init, Atomic!Init, Contents, Committed, Inside, AtWork, Working
<1>2. QED
  BY <1>1, InductiveInvariant, AtomicStep, PTL DEF Spec, Atomic!Spec, Implements

-----------------------------------------------------------------------------
(* What the journals hold, whoever edits the records and whenever.          *)

Genuine ==
    /\ pending # None => Merges(pending)
    /\ \A p \in Processes : plan[p] # None => Merges(plan[p])

LEMMA GenuineInit == Init => Genuine
  BY DEF Init, Genuine

LEMMA GenuineStep == Typed /\ Genuine /\ [Next]_vars => Genuine'
<1> SUFFICES ASSUME Typed, Genuine, [Next]_vars PROVE Genuine'
  OBVIOUS
<1> USE DEF Typed, TypeOK, Equipped, Goto, disk, locks, local
<1>1. ASSUME NEW p \in Processes, Begin(p) PROVE Genuine'
  <2>1. plan' = plan \/ (\E j : j.before = files /\ j.after = Merge[files] /\ plan' = [plan EXCEPT ![p] = j])
    BY <1>1 DEF Begin, Preview
  <2>. QED BY <1>1, <2>1 DEF Begin, Genuine, Merges
<1>2. ASSUME NEW p \in Processes, CreateJournal(p) PROVE Genuine'
  BY <1>2 DEF CreateJournal, Genuine, Merges
<1>3. ASSUME NEW p \in Processes, Preflight(p) PROVE Genuine'
  BY <1>3 DEF Preflight, Genuine, Merges
<1>4. ASSUME NEW p \in Processes, Commit(p) \/ Discard(p) PROVE Genuine'
  BY <1>4 DEF Commit, Discard, Genuine, Merges
<1>5. ASSUME NEW p \in Processes, Die(p) \/ TurnedAway(p) \/ Leave(p) \/ Enter(p) PROVE Genuine'
  BY <1>5 DEF Die, TurnedAway, Leave, Enter, Forget, Genuine, Merges
<1>6. ASSUME UNCHANGED <<pending, plan>> PROVE Genuine'
  BY <1>6 DEF Genuine, Merges
<1>. QED
  BY <1>1, <1>2, <1>3, <1>4, <1>5, <1>6
     DEF Next, vars, Pass, Apply, Recover, Call, TakeLock, Inspect, RemoveDeadLock, Retake, Unlock,
         Check, Write, Record, Fail, BeginRecovery, Restore, Revert, FailToRestore, Edit

\* Any three revisions of a record are merged place by place or not at all; and what a pending journal has a
\* record become is that merge, whoever edits the records meanwhile.
THEOREM ContractsMerge == Spec => []MergesRecords
<1>1. Typed /\ Genuine => MergesRecords
  <2> SUFFICES ASSUME Typed, Genuine, pending # None, NEW x \in Paths
               PROVE  IsMerge(Document[x][pending.after[x]],
                              Document[x][Base[x]], Document[x][pending.before[x]], Document[x][Incoming[x]])
    BY RecordsAlwaysMerge DEF MergesRecords
  <2>1. pending \in Journals /\ pending.after = Merge[pending.before]
    BY DEF Genuine, Merges, Typed, TypeOK
  <2>2. pending.before \in Contents /\ pending.after \in Contents
    BY <2>1 DEF Journals
  <2>3. Document[x][pending.after[x]] =
          Reconciled(Document[x][Base[x]], Document[x][pending.before[x]], Document[x][Incoming[x]])
    BY <2>1, <2>2, ContractAssumption DEF Merged
  <2>4. PICK documents \in Documents : \A body \in Bodies : Document[x][body] \in documents
    BY ContractAssumption
  <2>5. Base[x] \in Bodies /\ pending.before[x] \in Bodies /\ Incoming[x] \in Bodies
    BY <2>2, ContractAssumption DEF Contents
  <2>. QED BY <2>3, <2>4, <2>5, RecordsAlwaysMerge DEF RecordsMerge
<1>2. Init => Typed /\ Genuine
  BY TypedInit, GenuineInit
<1>3. Typed /\ Genuine /\ [Next]_vars => (Typed /\ Genuine)'
  BY TypedStep, GenuineStep
<1>. QED BY <1>1, <1>2, <1>3, PTL DEF Spec

\* A merge of histories loses no event, adds none, and does not fail where both sides only added to the past.
THEOREM HistoriesMerge == Spec => []MergesEvents
<1>1. MergesEvents
  BY EventsAlwaysSurvive DEF MergesEvents
<1>. QED BY <1>1, PTL
=============================================================================
