----------------------------- MODULE LeanDelivery -----------------------------
(* The completion of a Lean stage (src/src/lean-delivery.mjs, lean-finish.mjs, *)
(* lean-finish-recovery.mjs, lean-delivery-state.mjs): a journal of the files  *)
(* to write, the writes, the record of its diagnostics, and the recovery of a  *)
(* finish whose diagnostics failed.                                            *)
(*                                                                             *)
(* A request runs under the project mutation lock, but its process may die     *)
(* after any write; while the journal exists the lock admits no other command. *)
(*                                                                             *)
(* Left out: mechanical and autonomous (workflow stage) completion, the Git    *)
(* and product scope checks, dry runs, edits of the output files by hand, the  *)
(* refresh of the views (no input of a completion), and that other commands    *)
(* write in more than one step.                                                *)
EXTENDS Naturals, Sequences, FiniteSets

CONSTANTS
    Items,
    Claims,
    Ops,        \* the requests, each with its operation id
    ItemOf,     \* request -> its item
    StageOf,    \* request -> "build" (Developer) or "test" (Quality Evaluator)
    ClaimOf,    \* request -> the claim it names
    FirstClaim, \* item -> its active claim at the beginning
    Finishing,  \* the requests to finish, the others deliver
    Amendable,  \* bound: the requests whose evidence is edited
    Expiring,   \* bound: the requests whose actor may lose the qualification for the position
    Policies,   \* bound: the contents of the other bound inputs
    MaxEvents,  \* bound: the events other commands add
    MaxTroubles, \* bound: crashes and disturbances together
    None

Events == Seq(Ops \cup {"other"})
ItemStates == [stage : {"build", "test", "done"}, claim : Claims \cup {None}, claims : SUBSET Claims]
Files == {"handoff", "item", "events", "receipt"}
Contents == UNION {[files -> ItemStates \cup Events \cup BOOLEAN] : files \in SUBSET Files}
Bindings == [policy : Policies, evidence : {0, 1}]
Journals == [op : Ops, inputs : Bindings, before : Contents, after : Contents]

ASSUME LeanAssumption ==
    /\ None \notin Ops \cup Claims \cup Journals
    /\ "other" \notin Ops
    /\ ItemOf \in [Ops -> Items] /\ StageOf \in [Ops -> {"build", "test"}] /\ ClaimOf \in [Ops -> Claims]
    /\ FirstClaim \in [Items -> Claims]
    /\ Finishing \subseteq Ops /\ Amendable \subseteq Ops /\ Expiring \subseteq Ops
    /\ 0 \in Policies /\ MaxEvents \in Nat /\ MaxTroubles \in Nat

VARIABLES
    disk,      \* the items, the events, the handoffs and the receipts
    pending,   \* pending.json: the journal of the completion under way, or None
    record,    \* request -> the diagnostic record of its finish, or None
    observed,  \* request -> the portable copy of its status, or None
    artifact,  \* request -> the recovery artifact, or None
    inputs,    \* the other files a completion is bound to: common ones, evidence of each request
    expired,   \* the requests whose actor is no longer qualified
    healthy,   \* whether the doctor finds nothing but unsettled finishes
    proc,      \* the command that holds the lock: where it is
    troubles   \* bound: the crashes and disturbances so far

vars == <<disk, pending, record, observed, artifact, inputs, expired, healthy, proc, troubles>>

After == [stage \in {"build", "test"} |-> IF stage = "build" THEN "test" ELSE "done"]
Idle == [at |-> "idle", op |-> None, next |-> 0, result |-> None, preview |-> None]
World == <<inputs, expired, healthy>>

(***************************************************************************)
(* A completion: the files it writes, in their order.                      *)
(***************************************************************************)
\* mutant: the receipt is written ahead of what it vouches for
ReceiptFirst(o) == <<"receipt">> \o (IF StageOf[o] = "build" THEN <<"handoff">> ELSE <<>>) \o <<"item", "events">>
Outputs(o) == (IF StageOf[o] = "build" THEN <<"handoff">> ELSE <<>>) \o <<"item", "events", "receipt">>

\* What a file of the completion holds, and what it is to hold.
Actual(o, file) ==
    CASE file = "item" -> disk.items[ItemOf[o]]
      [] file = "events" -> disk.events
      [] file = "handoff" -> o \in disk.handoffs
      [] file = "receipt" -> o \in disk.receipts
Content(o, file) ==
    CASE file = "item" -> [disk.items[ItemOf[o]] EXCEPT !.stage = After[StageOf[o]], !.claim = None]
      [] file = "events" -> Append(disk.events, o)
      [] file \in {"handoff", "receipt"} -> TRUE

WriteOutput(o, file, content) ==
    CASE file = "item" -> [disk EXCEPT !.items[ItemOf[o]] = content]
      [] file = "events" -> [disk EXCEPT !.events = content]
      [] file = "handoff" -> [disk EXCEPT !.handoffs = @ \cup {o}]
      [] file = "receipt" -> [disk EXCEPT !.receipts = @ \cup {o}]

BoundInputs(o) == [policy |-> inputs.policy, evidence |-> inputs.evidence[o]]
Journal(o) ==
    LET files == {Outputs(o)[n] : n \in 1 .. Len(Outputs(o))}
    IN [op |-> o, inputs |-> BoundInputs(o),
        before |-> [f \in files |-> Actual(o, f)], after |-> [f \in files |-> Content(o, f)]]

\* validateLeanCompletionSnapshot
InputsStand(journal) == journal.op \notin expired /\ journal.inputs = BoundInputs(journal.op)
\* mutant: a file already written counts as changed
UntouchedSnapshot(journal) ==
    InputsStand(journal) /\ \A f \in DOMAIN journal.after : Actual(journal.op, f) = journal.before[f]

Snapshot(journal) ==
    /\ InputsStand(journal)
    /\ \A f \in DOMAIN journal.after : Actual(journal.op, f) \in {journal.before[f], journal.after[f]}
\* mutant: the receipt alone is looked at
ReceiptSnapshot(journal) ==
    InputsStand(journal) /\ journal.op \in disk.receipts

AppliedSnapshot(journal) ==
    /\ InputsStand(journal)
    /\ \A f \in DOMAIN journal.after : Actual(journal.op, f) = journal.after[f]

Unsettled(o) == record[o] # None /\ record[o].status # "passed"
Conflicting(o) ==
    o \in disk.receipts /\ observed[o] # (IF record[o] = None THEN "passed" ELSE record[o].status)
\* mutant: the finish being settled counts too
OwnAttention(o) == {p \in Finishing : Unsettled(p) \/ Conflicting(p)}

\* The finishes of other requests that are not settled, or whose two records differ.
Attention(o) == {p \in Finishing \ {o} : Unsettled(p) \/ Conflicting(p)}

(***************************************************************************)
(* deliver and finish.                                                     *)
(***************************************************************************)
Goto(at) == proc' = [proc EXCEPT !.at = at]
\* mutant: the lock does not ask for a journal
DespiteJournal == proc = Idle
\* withProjectMutationLock: a journal admits nothing but its own request.
Admitted == proc = Idle /\ pending = None

\* prepareDelivery, and the journal.
PrepareDelivery(o) ==
    /\ Admitted
    /\ o \notin disk.receipts
    /\ disk.items[ItemOf[o]].stage = StageOf[o] /\ disk.items[ItemOf[o]].claim = ClaimOf[o]
    /\ o \notin expired
    /\ pending' = Journal(o)
    /\ proc' = [Idle EXCEPT !.at = "validate", !.op = o]
    /\ UNCHANGED <<disk, record, observed, artifact, World, troubles>>

\* The request is repeated: the journal is taken up, or the diagnostics are.
ResumeDelivery(o) ==
    /\ proc = Idle
    /\ IF pending # None
       THEN /\ pending.op = o
            /\ proc' = [Idle EXCEPT !.at = "validate", !.op = o]
       ELSE /\ o \in disk.receipts \cap Finishing
            /\ record[o] # None
            /\ proc' = [Idle EXCEPT !.at = "inspect", !.op = o]
    /\ UNCHANGED <<disk, pending, record, observed, artifact, World, troubles>>

Validate ==
    /\ proc.at = "validate"
    /\ IF Snapshot(pending) THEN proc' = [proc EXCEPT !.at = "write", !.next = 1] ELSE proc' = Idle
    /\ UNCHANGED <<disk, pending, record, observed, artifact, World, troubles>>

\* What is already there is skipped; whatever else is found stops the request.
ApplyJournal ==
    LET o == proc.op
        file == Outputs(o)[proc.next]
        found == Actual(o, file)
    IN /\ proc.at = "write" /\ proc.next <= Len(Outputs(o))
       /\ IF found \in {pending.before[file], pending.after[file]}
          THEN proc' = [proc EXCEPT !.next = @ + 1]
          ELSE proc' = Idle
       /\ disk' = IF found = pending.before[file] THEN WriteOutput(o, file, pending.after[file]) ELSE disk
       /\ UNCHANGED <<pending, record, observed, artifact, World, troubles>>

\* The portable observation, then the record, unless there is one.
Observe ==
    LET o == proc.op
    IN /\ proc.at = "write" /\ proc.next > Len(Outputs(o))
       /\ IF o \in Finishing /\ record[o] = None
          THEN observed' = [observed EXCEPT ![o] = "pending"] /\ Goto("record")
          ELSE UNCHANGED observed /\ Goto("unlink")
       /\ UNCHANGED <<disk, pending, record, artifact, World, troubles>>

RecordPending ==
    /\ proc.at = "record"
    /\ record' = [record EXCEPT ![proc.op] = [status |-> "pending", journal |-> pending, recovered |-> FALSE]]
    /\ Goto("unlink")
    /\ UNCHANGED <<disk, pending, observed, artifact, World, troubles>>

Unlink ==
    /\ proc.at = "unlink"
    /\ pending' = None
    /\ IF proc.op \in Finishing THEN Goto("inspect") ELSE proc' = Idle
    /\ UNCHANGED <<disk, record, observed, artifact, World, troubles>>

(***************************************************************************)
(* The diagnostics of a finish.                                            *)
(***************************************************************************)
\* A finish that passed is history.
Inspect ==
    /\ proc.at = "inspect"
    /\ IF record[proc.op].status # "passed" /\ AppliedSnapshot(record[proc.op].journal)
       THEN Goto("doctor") ELSE proc' = Idle
    /\ UNCHANGED <<disk, pending, record, observed, artifact, World, troubles>>

Doctor ==
    /\ proc.at = "doctor"
    /\ proc' = [proc EXCEPT !.at = "recheck",
                            !.result = IF healthy /\ Attention(proc.op) = {} THEN "passed" ELSE "failed"]
    /\ UNCHANGED <<disk, pending, record, observed, artifact, World, troubles>>

\* Checked again after the diagnostics; then the observation and the record.
Recheck ==
    /\ proc.at = "recheck"
    /\ IF AppliedSnapshot(record[proc.op].journal)
       THEN Goto("settle") /\ observed' = [observed EXCEPT ![proc.op] = proc.result]
       ELSE proc' = Idle /\ UNCHANGED observed
    /\ UNCHANGED <<disk, pending, record, artifact, World, troubles>>

Settle ==
    /\ proc.at = "settle"
    /\ record' = [record EXCEPT ![proc.op].status = proc.result]
    /\ proc' = Idle
    /\ UNCHANGED <<disk, pending, observed, artifact, World, troubles>>

(***************************************************************************)
(* finish-recover.                                                         *)
(***************************************************************************)
\* previewLeanFinishRecovery: the events may have grown, the evidence may have been amended.
Recoverable(o) ==
    LET journal == record[o].journal
    IN /\ pending = None
       /\ record[o] # None /\ record[o].status = "failed"
       /\ StageOf[o] = "build"
       /\ o \notin expired
       /\ o \in disk.receipts /\ o \in disk.handoffs
       /\ disk.items[ItemOf[o]] = journal.after["item"]
       /\ Len(disk.events) >= Len(journal.after["events"])
       /\ SubSeq(disk.events, 1, Len(journal.after["events"])) = journal.after["events"]
       /\ inputs.policy = journal.inputs.policy

Preview(o) == [events |-> disk.events, inputs |-> BoundInputs(o)]

RecoverLeanFinish(o) ==
    /\ Admitted
    /\ Recoverable(o)
    /\ artifact[o] \in {None, Preview(o)}
    /\ proc' = [Idle EXCEPT !.at = "diagnose", !.op = o, !.preview = Preview(o)]
    /\ UNCHANGED <<disk, pending, record, observed, artifact, World, troubles>>

Unchanged == Recoverable(proc.op) /\ Preview(proc.op) = proc.preview

\* Clean diagnostics, the same preview, and the artifact unless it is there already.
RecordRecovery ==
    LET o == proc.op
    IN /\ proc.at = "diagnose"
       /\ IF healthy /\ Attention(o) = {} /\ Unchanged
          THEN artifact' = [artifact EXCEPT ![o] = proc.preview] /\ Goto("confirm")
          ELSE UNCHANGED artifact /\ proc' = Idle
       /\ UNCHANGED <<disk, pending, record, observed, World, troubles>>

Confirm ==
    /\ proc.at = "confirm"
    /\ IF Unchanged
       THEN observed' = [observed EXCEPT ![proc.op] = "passed"] /\ Goto("recovered")
       ELSE UNCHANGED observed /\ proc' = Idle
    /\ UNCHANGED <<disk, pending, record, artifact, World, troubles>>

SettleRecovery ==
    /\ proc.at = "recovered"
    /\ record' = [record EXCEPT ![proc.op].status = "passed", ![proc.op].recovered = TRUE]
    /\ proc' = Idle
    /\ UNCHANGED <<disk, pending, observed, artifact, World, troubles>>

(***************************************************************************)
(* Other commands, each with its event, and the world.                     *)
(***************************************************************************)
OtherEvents == Len(SelectSeq(disk.events, LAMBDA e : e = "other"))
Recorded(items) ==
    /\ Admitted
    /\ OtherEvents < MaxEvents
    /\ disk' = [disk EXCEPT !.items = items, !.events = Append(@, "other")]
    /\ UNCHANGED <<pending, record, observed, artifact, World, proc, troubles>>

ClaimWorkItem(i, k) ==
    /\ disk.items[i].claim = None /\ k \notin disk.items[i].claims
    /\ Recorded([disk.items EXCEPT ![i].claim = k, ![i].claims = @ \cup {k}])

ReworkWorkItem(i) ==
    /\ disk.items[i].stage = "test" /\ disk.items[i].claim # None
    /\ Recorded([disk.items EXCEPT ![i].stage = "build", ![i].claim = None])

OtherCommand == Recorded(disk.items)

Crash ==
    /\ proc # Idle
    /\ troubles < MaxTroubles
    /\ troubles' = troubles + 1
    /\ proc' = Idle
    /\ UNCHANGED <<disk, pending, record, observed, artifact, World>>

\* Files are edited, and edited back; time passes; something is broken, or repaired
\* (bound: only while a completion is under way or unsettled).
Disturb ==
    /\ pending # None \/ \E o \in Ops : Unsettled(o)
    /\ \/ \E policy \in Policies : inputs' = [inputs EXCEPT !.policy = policy] /\ UNCHANGED <<expired, healthy>>
       \/ \E o \in Amendable : inputs' = [inputs EXCEPT !.evidence[o] = 1 - @] /\ UNCHANGED <<expired, healthy>>
       \/ \E o \in Expiring : expired' = expired \cup {o} /\ UNCHANGED <<inputs, healthy>>
       \/ healthy' = ~healthy /\ UNCHANGED <<inputs, expired>>
    /\ World' # World
    /\ troubles < MaxTroubles
    /\ troubles' = troubles + 1
    /\ UNCHANGED <<disk, pending, record, observed, artifact, proc>>

(***************************************************************************)
(* The system.                                                             *)
(***************************************************************************)
Init ==
    /\ disk = [items |-> [i \in Items |-> [stage |-> "build", claim |-> FirstClaim[i], claims |-> {FirstClaim[i]}]],
               events |-> <<>>, handoffs |-> {}, receipts |-> {}]
    /\ pending = None
    /\ record = [o \in Ops |-> None]
    /\ observed = [o \in Ops |-> None]
    /\ artifact = [o \in Ops |-> None]
    /\ inputs = [policy |-> 0, evidence |-> [o \in Ops |-> 0]]
    /\ expired = {}
    /\ healthy \in BOOLEAN
    /\ proc = Idle
    /\ troubles = 0

Step ==
    \/ Validate \/ ApplyJournal \/ Observe \/ RecordPending \/ Unlink
    \/ Inspect \/ Doctor \/ Recheck \/ Settle
    \/ RecordRecovery \/ Confirm \/ SettleRecovery

Next ==
    \/ \E o \in Ops : PrepareDelivery(o) \/ ResumeDelivery(o) \/ RecoverLeanFinish(o)
    \/ Step
    \/ \E i \in Items : ReworkWorkItem(i) \/ \E k \in Claims : ClaimWorkItem(i, k)
    \/ OtherCommand
    \/ Crash
    \/ Disturb

\* A command that started goes on, and an interrupted or failed request is repeated: the caller is told to.
Fairness == WF_vars(Step) /\ \A o \in Ops : SF_vars(ResumeDelivery(o))

Spec == Init /\ [][Next]_vars
FairSpec == Spec /\ Fairness

(***************************************************************************)
(* Properties.                                                             *)
(***************************************************************************)
IsJournal(j) ==
    /\ j.op \in Ops
    /\ j.inputs \in Bindings
    /\ \A f \in {"item", "events", "receipt"} : f \in DOMAIN j.before
    /\ DOMAIN j.after = DOMAIN j.before
    /\ j.before["item"] \in ItemStates /\ j.after["item"] \in ItemStates

\* Files, journals, records and the command under way have their types.
TypeOK ==
    /\ disk.items \in [Items -> ItemStates]
    /\ disk.events \in Events
    /\ disk.handoffs \subseteq Ops /\ disk.receipts \subseteq Ops
    /\ pending # None => IsJournal(pending)
    /\ \A o \in Ops :
         /\ record[o] # None => /\ record[o].status \in {"pending", "failed", "passed"}
                                /\ IsJournal(record[o].journal) /\ record[o].journal.op = o
         /\ observed[o] \in {None, "pending", "failed", "passed"}
    /\ expired \subseteq Ops /\ healthy \in BOOLEAN
    /\ proc.op \in Ops \cup {None} /\ (proc.at = "idle" <=> proc.op = None)
    /\ proc.at \in {"validate", "write", "record", "unlink"} => pending # None /\ pending.op = proc.op

\* Whoever finds a receipt finds all it vouches for, wherever the writing was interrupted: the handoff, and
\* the events, which are there once (lean-delivery.mjs:339, the order of the output paths, and 441).
ReceiptLast ==
    \A o \in disk.receipts :
        /\ StageOf[o] = "build" => o \in disk.handoffs
        /\ Cardinality({n \in DOMAIN disk.events : disk.events[n] = o}) = 1

Alone(o) == \A p \in Finishing \ {o} : ~Unsettled(p) /\ ~Conflicting(p)

\* What the files hold once the journal is applied.
AppliedItems ==
    IF pending = None THEN disk.items ELSE [disk.items EXCEPT ![ItemOf[pending.op]] = pending.after["item"]]
AppliedEvents == IF pending = None THEN disk.events ELSE pending.after["events"]
AppliedHandoffs ==
    IF pending = None \/ StageOf[pending.op] = "test" THEN disk.handoffs ELSE disk.handoffs \cup {pending.op}
AppliedReceipts == IF pending = None THEN disk.receipts ELSE disk.receipts \cup {pending.op}
Atomic == INSTANCE AtomicCompletion WITH
    items <- AppliedItems, events <- AppliedEvents, handoffs <- AppliedHandoffs, completed <- AppliedReceipts

\* From the journal on, a completion has happened, once and as a whole: it is rolled forward whatever is
\* interrupted, and nobody else writes before it is (lean-delivery.mjs:453-486, project.mjs:178).
CompletesAtomically == Atomic!Spec

\* A finish is settled only while its item is as the finish left it and no other finish needs attention;
\* by its repetition only when no command has run in between (lean-finish.mjs:52 and 91,
\* lean-finish-recovery.mjs:105-135, doctor.mjs:927).
SettledInPlace ==
    [][\A o \in Ops :
         record[o] # None /\ record[o].status # "passed" /\ record'[o].status = "passed" =>
            LET after == record[o].journal.after
            IN /\ disk.items[ItemOf[o]] = after["item"]
               /\ Alone(o)
               /\ record'[o].recovered \/ disk.events = after["events"]]_record

\* A journal does not stay: as long as the inputs it is bound to stand, the repeated request brings it to
\* its end, however often it was interrupted (lean-delivery.mjs:441, project.mjs:178).
JournalsAreApplied == []<>(pending # None => ~InputsStand(pending))

\* A finish whose diagnostics were interrupted or failed is settled by its repetition, as long as nothing
\* it is bound to changes, the doctor finds nothing else, and no other finish is unsettled.
Settleable(o) ==
    /\ pending = None /\ record[o] # None
    /\ healthy /\ Alone(o) /\ AppliedSnapshot(record[o].journal)
FinishesSettle ==
    \A o \in Finishing : []<>(Settleable(o) => record[o].status = "passed")
=============================================================================
