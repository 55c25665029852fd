--------------------------- MODULE LeanDeliveryProofs ---------------------------
(***************************************************************************)
(* Proofs about LeanDelivery, for any items, claims, requests, policies    *)
(* and bounds.                                                             *)
(***************************************************************************)
EXTENDS LeanDelivery, FiniteSetTheorems, TLAPS

USE LeanAssumption

\* The files of a completion, as a set.
FilesOf(o) == {"item", "events", "receipt"} \cup (IF StageOf[o] = "build" THEN {"handoff"} ELSE {})

\* A journal whose files are all there.
Sound(j) ==
    /\ j \in Journals
    /\ DOMAIN j.before = FilesOf(j.op) /\ DOMAIN j.after = FilesOf(j.op)
    /\ j.before["item"] \in ItemStates /\ j.after["item"] \in ItemStates
    /\ j.before["events"] \in Events /\ j.after["events"] = Append(j.before["events"], j.op)
    /\ \A f \in {"handoff", "receipt"} \cap FilesOf(j.op) : j.after[f] = TRUE

Applying == {"validate", "write", "record", "unlink"}
Diagnosing == {"inspect", "doctor", "recheck", "settle", "diagnose", "confirm", "recovered"}

Disks == [items : [Items -> ItemStates], events : Events, handoffs : SUBSET Ops, receipts : SUBSET Ops]
Records == [status : {"pending", "failed", "passed"}, journal : Journals, recovered : BOOLEAN]
Commands == [at : {"idle"} \cup Applying \cup Diagnosing, op : Ops \cup {None}, next : Nat,
             result : {None, "passed", "failed"},
             preview : [events : Events, inputs : Bindings] \cup {None}]

\* The contents of the files, and what the command under way has in hand at each place.
TypedFiles ==
    /\ disk \in Disks
    /\ pending # None => Sound(pending)
    /\ observed \in [Ops -> {None, "pending", "failed", "passed"}]
    /\ inputs \in [policy : Policies, evidence : [Ops -> {0, 1}]]
    /\ expired \subseteq Ops /\ healthy \in BOOLEAN
RecordOf(o, found) == found \in Records /\ Sound(found.journal) /\ found.journal.op = o
Kept(o) == RecordOf(o, record[o])
TypedRecords ==
    /\ record \in [Ops -> Records \cup {None}]
    /\ \A o \in Ops : record[o] # None => Kept(o)
Equipped ==
    /\ proc \in Commands
    /\ proc.at = "idle" <=> proc.op = None
    /\ proc.at \in Applying => pending # None /\ pending.op = proc.op
    /\ proc.at = "unlink" /\ proc.op \in Finishing => Kept(proc.op)
    /\ proc.at \in Diagnosing => Kept(proc.op)
    /\ proc.at = "write" => proc.next # 0
    /\ proc.at \in {"recheck", "settle"} => proc.result \in {"passed", "failed"}
Typed == TypedFiles /\ TypedRecords /\ Equipped

-----------------------------------------------------------------------------
(* The files of a completion.                                              *)

LEMMA OutputFiles ==
    ASSUME NEW o \in Ops
    PROVE  /\ Len(Outputs(o)) \in Nat
           /\ \A n \in 1 .. Len(Outputs(o)) : Outputs(o)[n] \in FilesOf(o)
           /\ \A f \in FilesOf(o) : \E n \in 1 .. Len(Outputs(o)) : Outputs(o)[n] = f
<1>1. CASE StageOf[o] = "build"
  <2>1. Outputs(o) = <<"handoff">> \o <<"item", "events", "receipt">>
    BY <1>1 DEF Outputs
  <2>2. /\ Len(Outputs(o)) = 4
        /\ Outputs(o)[1] = "handoff" /\ Outputs(o)[2] = "item"
        /\ Outputs(o)[3] = "events" /\ Outputs(o)[4] = "receipt"
    BY <2>1
  <2>3. \A n \in 1 .. 4 : n = 1 \/ n = 2 \/ n = 3 \/ n = 4
    OBVIOUS
  <2>4. FilesOf(o) = {"item", "events", "receipt", "handoff"}
    BY <1>1 DEF FilesOf
  <2>. QED BY <2>2, <2>3, <2>4
<1>2. CASE StageOf[o] # "build"
  <2>1. Outputs(o) = <<"item", "events", "receipt">>
    BY <1>2 DEF Outputs
  <2>2. Len(Outputs(o)) = 3
    BY <2>1
  <2>3. \A n \in 1 .. 3 : n = 1 \/ n = 2 \/ n = 3
    OBVIOUS
  <2>4. FilesOf(o) = {"item", "events", "receipt"}
    BY <1>2 DEF FilesOf
  <2>. QED BY <2>1, <2>2, <2>3, <2>4
<1>. QED BY <1>1, <1>2

\* What a file of the completion holds, and is to hold, is one of the contents.
LEMMA FileTyped ==
    ASSUME disk \in Disks, NEW o \in Ops
    PROVE  /\ Actual(o, "item") \in ItemStates /\ Content(o, "item") \in ItemStates
           /\ Actual(o, "events") \in Events /\ Content(o, "events") = Append(Actual(o, "events"), o)
           /\ \A f \in {"handoff", "receipt"} : Actual(o, f) \in BOOLEAN /\ Content(o, f) = TRUE
<1>1. disk.items[ItemOf[o]] \in ItemStates /\ disk.events \in Events
  BY DEF Disks
<1>2. [disk.items[ItemOf[o]] EXCEPT !.stage = After[StageOf[o]], !.claim = None] \in ItemStates
  <2>1. After[StageOf[o]] \in {"build", "test", "done"}
    BY DEF After
  <2>. QED BY <1>1, <2>1 DEF ItemStates
<1>3. (o \in disk.handoffs) \in BOOLEAN /\ (o \in disk.receipts) \in BOOLEAN
  OBVIOUS
<1>. QED BY <1>1, <1>2, <1>3 DEF Actual, Content

LEMMA JournalSound ==
    ASSUME TypedFiles, NEW o \in Ops
    PROVE  /\ Sound(Journal(o)) /\ Journal(o) # None /\ Journal(o).op = o
           /\ \A f \in FilesOf(o) : Journal(o).before[f] = Actual(o, f) /\ Journal(o).after[f] = Content(o, f)
<1> DEFINE values == ItemStates \cup Events \cup BOOLEAN
<1>1. disk \in Disks
  BY DEF TypedFiles
<1>2. {Outputs(o)[n] : n \in 1 .. Len(Outputs(o))} = FilesOf(o)
  BY OutputFiles
<1>3. Journal(o) = [op |-> o, inputs |-> BoundInputs(o),
                    before |-> [f \in FilesOf(o) |-> Actual(o, f)], after |-> [f \in FilesOf(o) |-> Content(o, f)]]
  BY <1>2 DEF Journal
<1>4. FilesOf(o) \in SUBSET Files
  BY DEF FilesOf, Files
<1>5. \A f \in FilesOf(o) : Actual(o, f) \in values /\ Content(o, f) \in values
  <2>1. Actual(o, "events") \in Events /\ Content(o, "events") = Append(Actual(o, "events"), o)
    BY <1>1, FileTyped
  <2>2. Content(o, "events") \in Events
    BY <2>1 DEF Events
  <2>3. /\ Actual(o, "item") \in ItemStates /\ Content(o, "item") \in ItemStates
        /\ \A f \in {"handoff", "receipt"} : Actual(o, f) \in BOOLEAN /\ Content(o, f) \in BOOLEAN
    BY <1>1, FileTyped
  <2>4. \A f \in FilesOf(o) : f \in {"item", "events", "handoff", "receipt"}
    BY DEF FilesOf
  <2>. QED BY <2>1, <2>2, <2>3, <2>4
<1>6. BoundInputs(o) \in Bindings
  BY DEF BoundInputs, Bindings, TypedFiles
<1>7. [f \in FilesOf(o) |-> Actual(o, f)] \in [FilesOf(o) -> values]
      /\ [f \in FilesOf(o) |-> Content(o, f)] \in [FilesOf(o) -> values]
  BY <1>5
<1>8. Journal(o) \in Journals
  <2>. HIDE DEF values
  <2>1. [FilesOf(o) -> values] \in {[files -> values] : files \in SUBSET Files}
    BY <1>4
  <2>2. [FilesOf(o) -> values] \subseteq Contents
    BY <2>1 DEF Contents, values
  <2>. QED BY <1>3, <1>6, <1>7, <2>2 DEF Journals
<1>9. {"item", "events"} \subseteq FilesOf(o)
  BY DEF FilesOf
<1>10. Sound(Journal(o))
  <2>1. /\ DOMAIN Journal(o).before = FilesOf(o) /\ DOMAIN Journal(o).after = FilesOf(o)
        /\ Journal(o).op = o
    BY <1>3
  <2>2. \A f \in FilesOf(o) : Journal(o).before[f] = Actual(o, f) /\ Journal(o).after[f] = Content(o, f)
    BY <1>3
  <2>3. \A f \in {"handoff", "receipt"} : Content(o, f) = TRUE
    BY <1>1, FileTyped
  <2>4. \A f \in {"handoff", "receipt"} \cap FilesOf(o) : Journal(o).after[f] = TRUE
    BY <2>2, <2>3
  <2>5. /\ Actual(o, "item") \in ItemStates /\ Content(o, "item") \in ItemStates
        /\ Actual(o, "events") \in Events /\ Content(o, "events") = Append(Actual(o, "events"), o)
    BY <1>1, FileTyped
  <2>. QED BY <1>8, <1>9, <2>1, <2>2, <2>4, <2>5 DEF Sound
<1>. QED BY <1>3, <1>8, <1>10

\* A write changes its own file.
LEMMA WriteFrame ==
    ASSUME disk \in Disks, NEW o \in Ops, NEW file \in Files, NEW content,
           file = "item" => content \in ItemStates,
           file = "events" => content \in Events,
           file \in {"handoff", "receipt"} => content = TRUE,
           disk' = WriteOutput(o, file, content)
    PROVE  /\ disk' \in Disks
           /\ \A f \in Files : Actual(o, f)' = IF f = file THEN content ELSE Actual(o, f)
           /\ file # "item" => disk'.items = disk.items
           /\ file # "events" => disk'.events = disk.events
           /\ disk'.handoffs = IF file = "handoff" THEN disk.handoffs \cup {o} ELSE disk.handoffs
           /\ disk'.receipts = IF file = "receipt" THEN disk.receipts \cup {o} ELSE disk.receipts
           /\ file = "events" => disk'.events = content
<1>1. CASE file = "item"
  <2>1. disk' = [disk EXCEPT !.items[ItemOf[o]] = content]
    BY <1>1 DEF WriteOutput
  <2>. QED BY <1>1, <2>1 DEF Disks, Files, Actual
<1>2. CASE file = "events"
  <2>1. disk' = [disk EXCEPT !.events = content]
    BY <1>2 DEF WriteOutput
  <2>. QED BY <1>2, <2>1 DEF Disks, Files, Actual
<1>3. CASE file = "handoff"
  <2>1. disk' = [disk EXCEPT !.handoffs = @ \cup {o}]
    BY <1>3 DEF WriteOutput
  <2>2. /\ disk' \in Disks
        /\ disk'.items = disk.items /\ disk'.events = disk.events
        /\ disk'.handoffs = disk.handoffs \cup {o} /\ disk'.receipts = disk.receipts
    BY <2>1 DEF Disks
  <2>3. \A f \in Files \ {file} : Actual(o, f)' = Actual(o, f)
    BY <1>3, <2>2 DEF Files, Actual
  <2>4. Actual(o, file)' = TRUE
    BY <1>3, <2>2 DEF Actual
  <2>5. content = TRUE
    BY <1>3
  <2>. QED BY <1>3, <2>2, <2>3, <2>4, <2>5
<1>4. CASE file = "receipt"
  <2>1. disk' = [disk EXCEPT !.receipts = @ \cup {o}]
    BY <1>4 DEF WriteOutput
  <2>2. /\ disk' \in Disks
        /\ disk'.items = disk.items /\ disk'.events = disk.events
        /\ disk'.receipts = disk.receipts \cup {o} /\ disk'.handoffs = disk.handoffs
    BY <2>1 DEF Disks
  <2>3. \A f \in Files \ {file} : Actual(o, f)' = Actual(o, f)
    BY <1>4, <2>2 DEF Files, Actual
  <2>4. Actual(o, file)' = TRUE
    BY <1>4, <2>2 DEF Actual
  <2>5. content = TRUE
    BY <1>4
  <2>. QED BY <1>4, <2>2, <2>3, <2>4, <2>5
<1>. QED BY <1>1, <1>2, <1>3, <1>4 DEF Files

\* What the writing of the next file finds and leaves.
LEMMA ApplyFrame ==
    ASSUME Typed, ApplyJournal
    PROVE  LET o == proc.op
               file == Outputs(o)[proc.next]
               found == Actual(o, file)
           IN /\ o \in Ops /\ o = pending.op /\ Sound(pending)
              /\ proc.next \in 1 .. Len(Outputs(o)) /\ file \in FilesOf(o) /\ file \in Files
              /\ disk' = disk \/ (found = pending.before[file] /\ disk' = WriteOutput(o, file, pending.after[file]))
              /\ file = "item" => pending.after[file] \in ItemStates
              /\ file = "events" => pending.after[file] \in Events
              /\ file \in {"handoff", "receipt"} => pending.after[file] = TRUE
<1> DEFINE o == proc.op
           file == Outputs(o)[proc.next]
<1>1. o \in Ops /\ o = pending.op /\ Sound(pending) /\ proc.next \in Nat
  BY DEF ApplyJournal, Typed, TypedFiles, Equipped, Applying, Commands
<1>2. proc.next \in 1 .. Len(Outputs(o))

  <2>1. proc.at = "write" /\ proc.next <= Len(Outputs(o))
    BY DEF ApplyJournal
  <2>2. proc.next # 0
    BY <2>1 DEF Typed, Equipped
  <2>. QED BY <1>1, <2>1, <2>2, OutputFiles
<1>3. file \in FilesOf(o) /\ file \in Files
  <2>1. file \in FilesOf(o)
    BY <1>1, <1>2, OutputFiles
  <2>. QED BY <2>1 DEF FilesOf, Files
<1>4. disk' = disk \/ (Actual(o, file) = pending.before[file] /\ disk' = WriteOutput(o, file, pending.after[file]))
  <2>1. disk' = IF Actual(o, file) = pending.before[file] THEN WriteOutput(o, file, pending.after[file]) ELSE disk
    BY DEF ApplyJournal
  <2>. QED BY <2>1
<1>5. /\ file = "item" => pending.after[file] \in ItemStates
      /\ file = "events" => pending.after[file] \in Events
      /\ file \in {"handoff", "receipt"} => pending.after[file] = TRUE
  <2>1. pending.after["item"] \in ItemStates
    BY <1>1 DEF Sound
  <2>2. pending.after["events"] \in Events
    <3>1. pending.op \in Ops
      BY <1>1
    <3>. QED BY <1>1, <3>1 DEF Sound, Events
  <2>3. file \in {"handoff", "receipt"} => pending.after[file] = TRUE
    BY <1>1, <1>3 DEF Sound
  <2>. QED BY <2>1, <2>2, <2>3
<1>. QED BY <1>1, <1>2, <1>3, <1>4, <1>5

LEMMA TypedInit == Init => Typed
<1> SUFFICES ASSUME Init PROVE Typed
  OBVIOUS
<1>1. [i \in Items |-> [stage |-> "build", claim |-> FirstClaim[i], claims |-> {FirstClaim[i]}]] \in [Items -> ItemStates]
  BY DEF ItemStates
<1>2. <<>> \in Events
  BY DEF Events
<1>3. disk \in Disks
  BY <1>1, <1>2 DEF Init, Disks
<1>4. TypedFiles
  BY <1>3 DEF Init, TypedFiles
<1>5. TypedRecords
  BY DEF Init, TypedRecords
<1>6. Equipped
  BY DEF Init, Equipped, Idle, Commands, Applying, Diagnosing
<1>. QED BY <1>4, <1>5, <1>6 DEF Typed

\* The files.
LEMMA DiskTyped == Typed /\ [Next]_vars => disk' \in Disks
<1> SUFFICES ASSUME Typed, [Next]_vars PROVE disk' \in Disks
  OBVIOUS
<1>1. disk \in Disks
  BY DEF Typed, TypedFiles
<1>2. CASE ApplyJournal
  BY <1>1, <1>2, ApplyFrame, WriteFrame
<1>3. ASSUME NEW items \in [Items -> ItemStates], Recorded(items) PROVE disk' \in Disks
  <2>1. Append(disk.events, "other") \in Events
    BY <1>1 DEF Disks, Events
  <2>2. disk' = [disk EXCEPT !.items = items, !.events = Append(@, "other")]
    BY <1>3 DEF Recorded
  <2>. QED BY <1>1, <2>1, <2>2 DEF Disks
<1>4. disk.items \in [Items -> ItemStates]
  BY <1>1 DEF Disks
<1>5. CASE \E i \in Items, k \in Claims : ClaimWorkItem(i, k)
  <2>1. PICK i \in Items, k \in Claims : ClaimWorkItem(i, k)
    BY <1>5
  <2>2. [disk.items EXCEPT ![i].claim = k, ![i].claims = @ \cup {k}] \in [Items -> ItemStates]
    BY <1>4 DEF ItemStates
  <2>. QED BY <1>3, <2>1, <2>2 DEF ClaimWorkItem
<1>6. CASE \E i \in Items : ReworkWorkItem(i)
  <2>1. PICK i \in Items : ReworkWorkItem(i)
    BY <1>6
  <2>2. [disk.items EXCEPT ![i].stage = "build", ![i].claim = None] \in [Items -> ItemStates]
    BY <1>4 DEF ItemStates
  <2>. QED BY <1>3, <2>1, <2>2 DEF ReworkWorkItem
<1>7. CASE OtherCommand
  BY <1>3, <1>4, <1>7 DEF OtherCommand
<1>8. CASE UNCHANGED disk
  BY <1>1, <1>8
<1>. QED
  BY <1>2, <1>5, <1>6, <1>7, <1>8
     DEF Next, Step, vars, PrepareDelivery, ResumeDelivery, RecoverLeanFinish, Validate, Observe, RecordPending,
         Unlink, Inspect, Doctor, Recheck, Settle, RecordRecovery, Confirm, SettleRecovery, Crash, Disturb

LEMMA TypedFilesStep == Typed /\ [Next]_vars => TypedFiles'
<1> SUFFICES ASSUME Typed, [Next]_vars PROVE TypedFiles'
  OBVIOUS
<1>1. disk' \in Disks
  BY DiskTyped
<1>2. pending' # None => Sound(pending')
  <2>1. pending # None => Sound(pending)
    BY DEF Typed, TypedFiles
  <2>2. ASSUME NEW o \in Ops, PrepareDelivery(o) PROVE Sound(pending')
    BY <2>2, JournalSound DEF PrepareDelivery, Typed
  <2>3. pending' \in {pending, None} \/ \E o \in Ops : PrepareDelivery(o)
    BY DEF Next, Step, vars, ResumeDelivery, RecoverLeanFinish, Validate, ApplyJournal, Observe, RecordPending,
           Unlink, Inspect, Doctor, Recheck, Settle, RecordRecovery, Confirm, SettleRecovery,
           ClaimWorkItem, ReworkWorkItem, OtherCommand, Recorded, Crash, Disturb
  <2>. QED BY <2>1, <2>2, <2>3
<1>3. observed' \in [Ops -> {None, "pending", "failed", "passed"}]
  <2>1. observed \in [Ops -> {None, "pending", "failed", "passed"}] /\ proc \in Commands
    BY DEF Typed, TypedFiles, Equipped
  <2>2. observed' = observed \/ \E s \in {"pending", "failed", "passed"} : observed' = [observed EXCEPT ![proc.op] = s]
    <3>1. CASE Recheck
      BY <3>1 DEF Recheck, Typed, Equipped
    <3>. QED
      BY <3>1 DEF Next, Step, vars, PrepareDelivery, ResumeDelivery, RecoverLeanFinish, Validate, ApplyJournal, Observe,
             RecordPending, Unlink, Inspect, Doctor, Settle, RecordRecovery, Confirm, SettleRecovery,
             ClaimWorkItem, ReworkWorkItem, OtherCommand, Recorded, Crash, Disturb
  <2>. QED BY <2>1, <2>2 DEF Commands
<1>4. inputs' \in [policy : Policies, evidence : [Ops -> {0, 1}]] /\ expired' \subseteq Ops /\ healthy' \in BOOLEAN
  <2>1. inputs \in [policy : Policies, evidence : [Ops -> {0, 1}]] /\ expired \subseteq Ops /\ healthy \in BOOLEAN
    BY DEF Typed, TypedFiles
  <2>2. CASE Disturb
    <3>1. CASE \E policy \in Policies : inputs' = [inputs EXCEPT !.policy = policy] /\ UNCHANGED <<expired, healthy>>
      BY <2>1, <3>1
    <3>2. CASE \E o \in Amendable : inputs' = [inputs EXCEPT !.evidence[o] = 1 - @] /\ UNCHANGED <<expired, healthy>>
      <4>1. PICK o \in Amendable : inputs' = [inputs EXCEPT !.evidence[o] = 1 - @] /\ UNCHANGED <<expired, healthy>>
        BY <3>2
      <4>2. \A e \in {0, 1} : 1 - e \in {0, 1}
        OBVIOUS
      <4>. QED BY <2>1, <4>1, <4>2
    <3>3. CASE \E o \in Expiring : expired' = expired \cup {o} /\ UNCHANGED <<inputs, healthy>>
      BY <2>1, <3>3
    <3>4. CASE healthy' = ~healthy /\ UNCHANGED <<inputs, expired>>
      BY <2>1, <3>4
    <3>. QED BY <2>2, <3>1, <3>2, <3>3, <3>4 DEF Disturb
  <2>3. UNCHANGED World \/ Disturb
    BY DEF Next, Step, vars, World, PrepareDelivery, ResumeDelivery, RecoverLeanFinish, Validate, ApplyJournal, Observe,
           RecordPending, Unlink, Inspect, Doctor, Recheck, Settle, RecordRecovery, Confirm, SettleRecovery,
           ClaimWorkItem, ReworkWorkItem, OtherCommand, Recorded, Crash
  <2>. QED BY <2>1, <2>2, <2>3 DEF World
<1>. QED BY <1>1, <1>2, <1>3, <1>4 DEF TypedFiles

\* The diagnostic records: only the request under way changes its own.
LEMMA RecordFrame ==
    ASSUME Typed, NEW o \in Ops,
           \/ o = pending.op /\ pending # None
              /\ record' = [record EXCEPT ![o] = [status |-> "pending", journal |-> pending, recovered |-> FALSE]]
           \/ Kept(o) /\ \E status \in {"passed", "failed"} : record' = [record EXCEPT ![o].status = status]
           \/ Kept(o) /\ record' = [record EXCEPT ![o].status = "passed", ![o].recovered = TRUE]
    PROVE  TypedRecords' /\ Kept(o)'
<1>1. record \in [Ops -> Records \cup {None}] /\ \A p \in Ops : record[p] # None => Kept(p)
  BY DEF Typed, TypedRecords
<1>2. \A p \in Ops \ {o} : record'[p] = record[p]
  BY <1>1
<1>3. Kept(o)'
  <2>1. CASE /\ o = pending.op /\ pending # None
             /\ record' = [record EXCEPT ![o] = [status |-> "pending", journal |-> pending, recovered |-> FALSE]]
    <3>1. Sound(pending)
      BY <2>1 DEF Typed, TypedFiles
    <3>2. record'[o] = [status |-> "pending", journal |-> pending, recovered |-> FALSE]
      BY <1>1, <2>1
    <3>3. pending \in Journals
      BY <3>1 DEF Sound
    <3>4. record'[o] \in Records /\ record'[o].journal = pending
      BY <3>2, <3>3 DEF Records
    <3>. QED BY <2>1, <3>1, <3>4 DEF Kept, RecordOf
  <2>2. ASSUME Kept(o), NEW new, new.journal = record[o].journal, new \in Records, record'[o] = new PROVE Kept(o)'
    BY <2>2 DEF Kept, RecordOf
  <2>3. CASE Kept(o) /\ \E status \in {"passed", "failed"} : record' = [record EXCEPT ![o].status = status]
    <3>1. PICK status \in {"passed", "failed"} : record' = [record EXCEPT ![o].status = status]
      BY <2>3
    <3>2. record'[o] = [record[o] EXCEPT !.status = status]
      BY <1>1, <3>1
    <3>3. [record[o] EXCEPT !.status = status] \in Records /\ [record[o] EXCEPT !.status = status].journal = record[o].journal
      BY <2>3 DEF Kept, RecordOf, Records
    <3>. QED BY <2>2, <2>3, <3>2, <3>3
  <2>4. CASE Kept(o) /\ record' = [record EXCEPT ![o].status = "passed", ![o].recovered = TRUE]
    <3>1. record'[o] = [record[o] EXCEPT !.status = "passed", !.recovered = TRUE]
      BY <1>1, <2>4
    <3>2. /\ [record[o] EXCEPT !.status = "passed", !.recovered = TRUE] \in Records
          /\ [record[o] EXCEPT !.status = "passed", !.recovered = TRUE].journal = record[o].journal
      BY <2>4 DEF Kept, RecordOf, Records
    <3>. QED BY <2>2, <2>4, <3>1, <3>2
  <2>. QED BY <2>1, <2>3, <2>4
<1>4. \A p \in Ops : record'[p] # None => Kept(p)'
  <2>1. ASSUME NEW p \in Ops \ {o}, record'[p] # None PROVE Kept(p)'
    BY <1>1, <1>2, <2>1 DEF Kept
  <2>. QED BY <1>3, <2>1
<1>5. record' \in [Ops -> Records \cup {None}]
  <2>1. record' = [record EXCEPT ![o] = record'[o]]
    BY <1>1
  <2>. QED BY <1>1, <1>3, <2>1 DEF Kept, RecordOf
<1>. QED BY <1>3, <1>4, <1>5 DEF TypedRecords

LEMMA TypedRecordsStep == Typed /\ [Next]_vars => TypedRecords'
<1> SUFFICES ASSUME Typed, [Next]_vars PROVE TypedRecords'
  OBVIOUS
<1>1. CASE RecordPending
  <2>1. pending # None /\ pending.op = proc.op /\ proc.op \in Ops
    BY <1>1 DEF RecordPending, Typed, TypedFiles, Equipped, Applying, Commands, Sound, Journals
  <2>. QED BY <1>1, <2>1, RecordFrame DEF RecordPending
<1>2. ASSUME proc.at \in Diagnosing PROVE Kept(proc.op) /\ proc.op \in Ops
  BY <1>2 DEF Typed, Equipped, Commands, Diagnosing
<1>3. CASE Settle
  <2>1. proc.at = "settle" /\ record' = [record EXCEPT ![proc.op].status = proc.result]
    BY <1>3 DEF Settle
  <2>2. proc.result \in {"passed", "failed"}
    BY <2>1 DEF Typed, Equipped
  <2>. QED BY <1>2, <2>1, <2>2, RecordFrame DEF Diagnosing
<1>4. CASE SettleRecovery
  <2>1. proc.at = "recovered" /\ record' = [record EXCEPT ![proc.op].status = "passed", ![proc.op].recovered = TRUE]
    BY <1>4 DEF SettleRecovery
  <2>. QED BY <1>2, <2>1, RecordFrame DEF Diagnosing
<1>5. CASE UNCHANGED record
  BY <1>5 DEF Typed, TypedRecords, Kept
<1>. QED
  BY <1>1, <1>3, <1>4, <1>5
     DEF Next, Step, vars, PrepareDelivery, ResumeDelivery, RecoverLeanFinish, Validate, ApplyJournal, Observe, Unlink,
         Inspect, Doctor, Recheck, RecordRecovery, Confirm, ClaimWorkItem, ReworkWorkItem, OtherCommand, Recorded,
         Crash, Disturb

\* What the command under way has in hand.
LEMMA EquippedStep == Typed /\ [Next]_vars => Equipped'
<1> SUFFICES ASSUME Typed, [Next]_vars PROVE Equipped'
  OBVIOUS
<1> USE DEF Applying, Diagnosing
<1>1. /\ proc \in Commands
      /\ proc.at \in Applying => pending # None /\ pending.op = proc.op
      /\ proc.at \in Diagnosing => Kept(proc.op)
      /\ proc.at = "idle" <=> proc.op = None
  BY DEF Typed, Equipped
<1>2. ASSUME proc' = Idle PROVE Equipped'
  BY <1>2 DEF Equipped, Idle, Commands
<1>3. ASSUME NEW o \in Ops, NEW at \in {"validate", "inspect"}, proc' = [Idle EXCEPT !.at = at, !.op = o],
             at = "validate" => pending' # None /\ pending'.op = o,
             at = "inspect" => Kept(o) /\ record' = record
      PROVE  Equipped'
  <2>1. proc' = [at |-> at, op |-> o, next |-> 0, result |-> None, preview |-> None]
    BY <1>3 DEF Idle
  <2>2. proc' \in Commands
    BY <2>1 DEF Commands
  <2>3. at = "inspect" => Kept(o)'
    BY <1>3 DEF Kept, RecordOf
  <2>. QED BY <1>3, <2>1, <2>2, <2>3 DEF Equipped
<1>4. CASE \E o \in Ops : PrepareDelivery(o)
  <2>1. PICK o \in Ops : PrepareDelivery(o)
    BY <1>4
  <2>2. pending' # None /\ pending'.op = o
    BY <2>1, JournalSound DEF PrepareDelivery, Typed
  <2>. QED BY <1>3, <2>1, <2>2 DEF PrepareDelivery
<1>5. CASE \E o \in Ops : ResumeDelivery(o)
  <2>1. PICK o \in Ops : ResumeDelivery(o)
    BY <1>5
  <2>2. record[o] # None => Kept(o)
    BY DEF Typed, TypedRecords
  <2>. QED BY <1>3, <2>1, <2>2 DEF ResumeDelivery
<1>6. CASE \E o \in Ops : RecoverLeanFinish(o)
  <2>1. PICK o \in Ops : RecoverLeanFinish(o)
    BY <1>6
  <2>2. Kept(o) /\ record' = record
    BY <2>1 DEF RecoverLeanFinish, Recoverable, Typed, TypedRecords
  <2>3. Preview(o) \in [events : Events, inputs : Bindings]
    BY DEF Preview, BoundInputs, Bindings, Typed, TypedFiles, Disks
  <2>4. proc' = [at |-> "diagnose", op |-> o, next |-> 0, result |-> None, preview |-> Preview(o)]
    BY <2>1 DEF RecoverLeanFinish, Idle
  <2>5. proc' \in Commands
    BY <2>3, <2>4 DEF Commands
  <2>6. Kept(o)'
    BY <2>2 DEF Kept, RecordOf
  <2>. QED BY <2>4, <2>5, <2>6 DEF Equipped
<1>7. CASE Validate
  <2>1. CASE proc' = [proc EXCEPT !.at = "write", !.next = 1]
    <3>1. /\ proc' \in Commands /\ proc'.at = "write" /\ proc'.op = proc.op /\ proc'.next = 1
      BY <1>1, <2>1 DEF Commands
    <3>2. pending' = pending /\ proc.at = "validate"
      BY <1>7 DEF Validate
    <3>. QED BY <1>1, <3>1, <3>2 DEF Equipped
  <2>. QED BY <1>2, <1>7, <2>1 DEF Validate
<1>8. CASE ApplyJournal
  <2>1. CASE proc' = [proc EXCEPT !.next = @ + 1]
    <3>1. /\ proc' \in Commands /\ proc'.at = proc.at /\ proc'.op = proc.op /\ proc'.next # 0
      BY <1>1, <2>1 DEF Commands
    <3>2. pending' = pending /\ proc.at = "write"
      BY <1>8 DEF ApplyJournal
    <3>. QED BY <1>1, <3>1, <3>2 DEF Equipped
  <2>2. proc' = Idle \/ proc' = [proc EXCEPT !.next = @ + 1]
    BY <1>8 DEF ApplyJournal
  <2>. QED BY <1>2, <2>1, <2>2
<1>9. ASSUME NEW at \in Applying \cup Diagnosing, proc' = [proc EXCEPT !.at = at]
      PROVE  proc' \in Commands /\ proc'.at = at /\ proc'.op = proc.op /\ proc'.result = proc.result
  BY <1>1, <1>9 DEF Commands
<1>10. CASE Observe
  <2>1. pending' = pending /\ record' = record /\ proc.at = "write"
    BY <1>10 DEF Observe
  <2>2. proc.op \in Ops
    BY <1>1, <2>1 DEF Commands
  <2>3. CASE Goto("record")
    BY <1>1, <1>9, <2>1, <2>3 DEF Goto, Equipped, Kept
  <2>4. CASE Goto("unlink") /\ ~(proc.op \in Finishing /\ record[proc.op] = None)
    <3>1. proc.op \in Finishing => RecordOf(proc.op, record'[proc.op])
      BY <2>1, <2>2, <2>4 DEF Typed, TypedRecords, Kept
    <3>. QED BY <1>1, <1>9, <2>1, <2>4, <3>1 DEF Goto, Equipped, Kept
  <2>. QED BY <1>10, <2>3, <2>4 DEF Observe
<1>11. CASE RecordPending
  <2>1. proc.at = "record" /\ pending' = pending /\ Goto("unlink")
    BY <1>11 DEF RecordPending
  <2>2. proc.op \in Ops
    BY <1>1, <2>1 DEF Commands
  <2>3. RecordOf(proc.op, record'[proc.op])
    BY <1>1, <1>11, <2>1, <2>2, RecordFrame DEF RecordPending, Kept
  <2>. QED BY <1>1, <1>9, <2>1, <2>3 DEF Goto, Equipped, Kept
<1>12. CASE Unlink
  <2>1. proc.at = "unlink" /\ record' = record
    BY <1>12 DEF Unlink
  <2>2. CASE proc.op \in Finishing /\ Goto("inspect")
    <3>1. RecordOf(proc.op, record'[proc.op])
      BY <2>1, <2>2 DEF Typed, Equipped, Kept, RecordOf
    <3>2. proc.op # None
      BY <1>1, <2>1
    <3>. QED BY <1>9, <2>2, <3>1, <3>2 DEF Goto, Equipped, Kept
  <2>. QED BY <1>2, <1>12, <2>2 DEF Unlink
<1>13. ASSUME NEW at \in Diagnosing, proc.at \in Diagnosing, Goto(at), record' = record,
              at \in {"recheck", "settle"} => proc.result \in {"passed", "failed"}
       PROVE  Equipped'
  <2>1. RecordOf(proc.op, record'[proc.op])
    BY <1>1, <1>13 DEF Kept, RecordOf
  <2>2. proc.op # None
    BY <1>1, <1>13
  <2>. QED BY <1>9, <1>13, <2>1, <2>2 DEF Goto, Equipped, Kept
<1>14. CASE Inspect
  BY <1>2, <1>13, <1>14 DEF Inspect
<1>15. CASE Doctor
  <2>1. proc.at = "doctor" /\ record' = record
    BY <1>15 DEF Doctor
  <2>2. PICK result \in {"passed", "failed"} : proc' = [proc EXCEPT !.at = "recheck", !.result = result]
    BY <1>15 DEF Doctor
  <2>3. proc' \in Commands /\ proc'.at = "recheck" /\ proc'.op = proc.op /\ proc'.result = result
    BY <1>1, <2>2 DEF Commands
  <2>4. RecordOf(proc.op, record'[proc.op])
    BY <1>1, <2>1 DEF Kept, RecordOf
  <2>. QED BY <1>1, <2>1, <2>3, <2>4 DEF Equipped, Kept
<1>16. CASE Recheck
  <2>1. proc.at = "recheck" => proc.result \in {"passed", "failed"}
    BY DEF Typed, Equipped
  <2>. QED BY <1>2, <1>13, <1>16, <2>1 DEF Recheck
<1>17. CASE RecordRecovery
  BY <1>2, <1>13, <1>17 DEF RecordRecovery
<1>18. CASE Confirm
  BY <1>2, <1>13, <1>18 DEF Confirm
<1>19. CASE Settle \/ SettleRecovery \/ Crash
  BY <1>2, <1>19 DEF Settle, SettleRecovery, Crash
<1>20. CASE UNCHANGED <<proc, pending, record>>
  BY <1>20 DEF Typed, Equipped, Kept, RecordOf
<1>. QED
  BY <1>4, <1>5, <1>6, <1>7, <1>8, <1>10, <1>11, <1>12, <1>14, <1>15, <1>16, <1>17, <1>18, <1>19, <1>20
     DEF Next, Step, vars, ClaimWorkItem, ReworkWorkItem, OtherCommand, Recorded, Disturb

LEMMA TypedAlways == Spec => []Typed
<1>1. Typed /\ [Next]_vars => Typed'
  BY TypedFilesStep, TypedRecordsStep, EquippedStep DEF Typed
<1>. QED BY <1>1, TypedInit, PTL DEF Spec

\* Files, journals, records and the command under way have their types.
THEOREM TypeCorrect == Spec => []TypeOK
<1>1. ASSUME NEW j, Sound(j) PROVE IsJournal(j)
  BY <1>1 DEF Sound, IsJournal, Journals, FilesOf
<1>2. Typed => TypeOK
  BY <1>1 DEF Typed, TypedFiles, TypedRecords, Equipped, Applying, Kept, RecordOf, Records, Disks, Commands, TypeOK
<1>. QED BY <1>2, TypedAlways, PTL

-----------------------------------------------------------------------------
(* How far the writing is.                                                  *)

\* What was written stays written until the journal goes.
Rolling ==
    /\ proc.at = "write" =>
          \A n \in 1 .. Len(Outputs(proc.op)) :
              n < proc.next => Actual(proc.op, Outputs(proc.op)[n]) = pending.after[Outputs(proc.op)[n]]
    /\ proc.at \in {"record", "unlink"} => \A f \in FilesOf(proc.op) : Actual(proc.op, f) = pending.after[f]

LEMMA RollingInit == Init => Rolling
  BY DEF Init, Idle, Rolling

LEMMA RollingStep == Typed /\ Rolling /\ [Next]_vars => Rolling'
<1> SUFFICES ASSUME Typed, Rolling, [Next]_vars PROVE Rolling'
  OBVIOUS
<1>1. proc \in Commands
  BY DEF Typed, Equipped
<1>2. ASSUME proc'.at \notin {"write", "record", "unlink"} PROVE Rolling'
  BY <1>2 DEF Rolling
<1>3. CASE Validate
  <2>1. CASE proc' = [proc EXCEPT !.at = "write", !.next = 1]
    <3>1. proc'.at = "write" /\ proc'.next = 1
      BY <1>1, <2>1 DEF Commands
    <3>. QED BY <3>1 DEF Rolling
  <2>. QED BY <1>2, <1>3, <2>1 DEF Validate, Idle
<1>4. CASE ApplyJournal
  <2>1. PICK o \in Ops, file \in Files :
        /\ o = proc.op /\ file = Outputs(o)[proc.next]
        /\ o = pending.op /\ proc.next \in 1 .. Len(Outputs(o)) /\ Sound(pending)
        /\ disk' = disk \/ (Actual(o, file) = pending.before[file] /\ disk' = WriteOutput(o, file, pending.after[file]))
        /\ file = "item" => pending.after[file] \in ItemStates
        /\ file = "events" => pending.after[file] \in Events
        /\ file \in {"handoff", "receipt"} => pending.after[file] = TRUE
    BY <1>4, ApplyFrame
  <2>2. CASE proc' = Idle
    BY <1>2, <2>2 DEF Idle
  <2>3. CASE proc' = [proc EXCEPT !.next = @ + 1] /\ Actual(o, file) \in {pending.before[file], pending.after[file]}
    <3>1. proc'.at = "write" /\ proc'.op = o /\ proc'.next = proc.next + 1 /\ pending' = pending
      BY <1>1, <1>4, <2>1, <2>3 DEF Commands, ApplyJournal
    <3>2. disk \in Disks
      BY DEF Typed, TypedFiles
    <3> DEFINE content == pending.after[file]
    <3>6. ASSUME disk' = WriteOutput(o, file, content)
          PROVE  \A f \in Files : Actual(o, f)' = IF f = file THEN content ELSE Actual(o, f)
      <4>1. /\ file = "item" => content \in ItemStates
            /\ file = "events" => content \in Events
            /\ file \in {"handoff", "receipt"} => content = TRUE
        BY <2>1
      <4> HIDE DEF content
      <4>. QED BY <3>2, <3>6, <4>1, WriteFrame
    <3>3. \A f \in Files : Actual(o, f)' = Actual(o, f) \/ (f = file /\ Actual(o, f)' = pending.after[f])
      <4>1. CASE disk' = disk
        BY <4>1 DEF Actual
      <4>2. CASE disk' = WriteOutput(o, file, pending.after[file])
        BY <3>6, <4>2
      <4>. QED BY <2>1, <4>1, <4>2
    <3>4. Actual(o, file)' = pending.after[file]
      <4>1. CASE Actual(o, file) = pending.before[file]
        <5>1. disk' = WriteOutput(o, file, pending.after[file])
          BY <1>4, <2>1, <4>1 DEF ApplyJournal
        <5>. QED BY <3>6, <5>1
      <4>2. CASE Actual(o, file) = pending.after[file]
        BY <2>1, <3>3, <4>2
      <4>. QED BY <2>3, <4>1, <4>2
    <3>5. ASSUME NEW n \in 1 .. Len(Outputs(o)), n < proc.next + 1
          PROVE  Actual(o, Outputs(o)[n])' = pending.after[Outputs(o)[n]]
      <4>1. CASE n = proc.next
        BY <2>1, <3>4, <4>1
      <4>2. CASE n < proc.next
        <5>1. Actual(o, Outputs(o)[n]) = pending.after[Outputs(o)[n]]
          BY <1>4, <2>1, <4>2 DEF Rolling, ApplyJournal
        <5>2. Outputs(o)[n] \in Files
          BY <2>1, OutputFiles DEF FilesOf, Files
        <5>. QED BY <3>3, <5>1, <5>2
      <4>3. n < proc.next \/ n = proc.next
        BY <2>1, <3>5, OutputFiles
      <4>. QED BY <4>1, <4>2, <4>3
    <3>. QED BY <3>1, <3>5 DEF Rolling
  <2>. QED BY <1>4, <2>1, <2>2, <2>3 DEF ApplyJournal
<1>5. CASE Observe
  <2>1. proc.at = "write" /\ proc.next > Len(Outputs(proc.op)) /\ disk' = disk /\ pending' = pending
    BY <1>5 DEF Observe
  <2>2. proc'.op = proc.op /\ proc'.at \in {"record", "unlink"}
    BY <1>1, <1>5 DEF Observe, Goto, Commands
  <2>3. proc.op \in Ops /\ proc.next \in Nat
    BY <1>1, <2>1 DEF Typed, Equipped, Applying, Commands
  <2>4. ASSUME NEW f \in FilesOf(proc.op) PROVE Actual(proc.op, f) = pending.after[f]
    <3>1. PICK n \in 1 .. Len(Outputs(proc.op)) : Outputs(proc.op)[n] = f
      BY <2>3, OutputFiles
    <3>2. Len(Outputs(proc.op)) \in Nat
      BY <2>3, OutputFiles
    <3>3. n < proc.next
      BY <2>1, <2>3, <3>1, <3>2
    <3>4. Actual(proc.op, Outputs(proc.op)[n]) = pending.after[Outputs(proc.op)[n]]
      BY <2>1, <3>3 DEF Rolling
    <3>. QED BY <3>1, <3>4
  <2>. QED BY <2>1, <2>2, <2>4 DEF Rolling, Actual
<1>6. CASE RecordPending
  <2>1. proc'.op = proc.op /\ proc'.at = "unlink" /\ proc.at = "record" /\ disk' = disk /\ pending' = pending
    BY <1>1, <1>6 DEF RecordPending, Goto, Commands
  <2>. QED BY <2>1 DEF Rolling, Actual
<1>7. CASE \E o \in Ops : PrepareDelivery(o) \/ ResumeDelivery(o) \/ RecoverLeanFinish(o)
  BY <1>2, <1>7 DEF PrepareDelivery, ResumeDelivery, RecoverLeanFinish, Idle
<1>8. CASE Unlink \/ Inspect \/ Doctor \/ Recheck \/ Settle \/ RecordRecovery \/ Confirm \/ SettleRecovery \/ Crash
  <2>1. \/ proc' = Idle
        \/ \E at \in Diagnosing : proc' = [proc EXCEPT !.at = at]
        \/ \E result : proc' = [proc EXCEPT !.at = "recheck", !.result = result]
    BY <1>8 DEF Unlink, Inspect, Doctor, Recheck, Settle, RecordRecovery, Confirm, SettleRecovery, Crash, Goto, Diagnosing
  <2>2. ASSUME NEW at \in Diagnosing, proc' = [proc EXCEPT !.at = at] PROVE proc'.at = at
    BY <1>1, <2>2 DEF Commands
  <2>3. ASSUME NEW result, proc' = [proc EXCEPT !.at = "recheck", !.result = result] PROVE proc'.at = "recheck"
    BY <1>1, <2>3 DEF Commands
  <2>4. proc'.at \in {"idle"} \cup Diagnosing
    <3>1. CASE proc' = Idle
      BY <3>1 DEF Idle
    <3>2. CASE \E at \in Diagnosing : proc' = [proc EXCEPT !.at = at]
      BY <2>2, <3>2
    <3>3. CASE \E result : proc' = [proc EXCEPT !.at = "recheck", !.result = result]
      BY <2>3, <3>3 DEF Diagnosing
    <3>. QED BY <2>1, <3>1, <3>2, <3>3
  <2>. QED BY <1>2, <2>4 DEF Diagnosing
<1>9. ASSUME NEW items, Recorded(items) PROVE Rolling'
  BY <1>2, <1>9 DEF Recorded, Admitted, Idle
<1>10. CASE UNCHANGED <<disk, pending, proc>>
  BY <1>10 DEF Rolling, Actual
<1>. QED
  BY <1>3, <1>4, <1>5, <1>6, <1>7, <1>8, <1>9, <1>10
     DEF Next, Step, vars, ClaimWorkItem, ReworkWorkItem, OtherCommand, Disturb

-----------------------------------------------------------------------------
(* The refinement: a completion happens when its journal is written.        *)

Applied == <<AppliedItems, AppliedEvents, AppliedHandoffs, AppliedReceipts>>

LEMMA CompleteStep ==
    ASSUME Typed, NEW o \in Ops, PrepareDelivery(o)
    PROVE  Atomic!Complete(o)
<1>1. /\ pending = None /\ disk' = disk /\ pending' = Journal(o) /\ o \notin disk.receipts
      /\ disk.items[ItemOf[o]].stage = StageOf[o] /\ disk.items[ItemOf[o]].claim = ClaimOf[o]
  BY DEF PrepareDelivery, Admitted
<1>2. /\ pending' # None /\ pending'.op = o
      /\ \A f \in FilesOf(o) : pending'.after[f] = Content(o, f)
  BY <1>1, JournalSound DEF Typed
<1>3. disk \in Disks
  BY DEF Typed, TypedFiles
<1>4. /\ AppliedItems = disk.items /\ AppliedEvents = disk.events
      /\ AppliedHandoffs = disk.handoffs /\ AppliedReceipts = disk.receipts
  BY <1>1 DEF AppliedItems, AppliedEvents, AppliedHandoffs, AppliedReceipts
<1>5. AppliedItems' = [AppliedItems EXCEPT ![ItemOf[o]].stage = After[StageOf[o]], ![ItemOf[o]].claim = None]
  <2>1. pending'.after["item"] = [disk.items[ItemOf[o]] EXCEPT !.stage = After[StageOf[o]], !.claim = None]
    BY <1>2 DEF FilesOf, Content
  <2>2. AppliedItems' = [disk.items EXCEPT ![ItemOf[o]] = pending'.after["item"]]
    BY <1>1, <1>2 DEF AppliedItems
  <2>. QED BY <1>3, <1>4, <2>1, <2>2 DEF Disks
<1>6. AppliedEvents' = Append(AppliedEvents, o)
  BY <1>2, <1>4 DEF AppliedEvents, FilesOf, Content
<1>7. AppliedHandoffs' = IF StageOf[o] = "build" THEN AppliedHandoffs \cup {o} ELSE AppliedHandoffs
  <2>1. StageOf[o] \in {"build", "test"}
    OBVIOUS
  <2>. QED BY <1>1, <1>2, <1>4, <2>1 DEF AppliedHandoffs
<1>8. AppliedReceipts' = AppliedReceipts \cup {o}
  BY <1>1, <1>2, <1>4 DEF AppliedReceipts
<1>. QED BY <1>1, <1>4, <1>5, <1>6, <1>7, <1>8 DEF Atomic!Complete

\* A write of the journal changes nothing: its effect is there already.
LEMMA ApplyStutters == Typed /\ ApplyJournal => UNCHANGED Applied
<1> SUFFICES ASSUME Typed, ApplyJournal PROVE UNCHANGED Applied
  OBVIOUS
<1>1. PICK o \in Ops, file \in Files :
          /\ o = pending.op /\ Sound(pending) /\ file \in FilesOf(o)
          /\ disk' = disk \/ disk' = WriteOutput(o, file, pending.after[file])
          /\ file = "item" => pending.after[file] \in ItemStates
          /\ file = "events" => pending.after[file] \in Events
          /\ file \in {"handoff", "receipt"} => pending.after[file] = TRUE
  BY ApplyFrame
<1>2. pending # None /\ pending' = pending /\ disk \in Disks
  BY DEF ApplyJournal, Typed, TypedFiles, Equipped, Applying
<1>3. CASE disk' = disk
  BY <1>2, <1>3 DEF Applied, AppliedItems, AppliedEvents, AppliedHandoffs, AppliedReceipts
<1>4. CASE disk' = WriteOutput(o, file, pending.after[file])
  <2> DEFINE content == pending.after[file]
  <2>6. /\ disk' = WriteOutput(o, file, content)
        /\ file = "item" => content \in ItemStates
        /\ file = "events" => content \in Events
        /\ file \in {"handoff", "receipt"} => content = TRUE
    BY <1>1, <1>4
  <2>1. /\ file # "item" => disk'.items = disk.items
        /\ disk'.handoffs = IF file = "handoff" THEN disk.handoffs \cup {o} ELSE disk.handoffs
        /\ disk'.receipts = IF file = "receipt" THEN disk.receipts \cup {o} ELSE disk.receipts
        /\ file = "item" => disk'.items = [disk.items EXCEPT ![ItemOf[o]] = content]
    <3> HIDE DEF content
    <3>1. /\ file # "item" => disk'.items = disk.items
          /\ disk'.handoffs = IF file = "handoff" THEN disk.handoffs \cup {o} ELSE disk.handoffs
          /\ disk'.receipts = IF file = "receipt" THEN disk.receipts \cup {o} ELSE disk.receipts
      BY <1>2, <2>6, WriteFrame
    <3>2. file = "item" => disk'.items = [disk.items EXCEPT ![ItemOf[o]] = content]
      BY <1>2, <2>6 DEF WriteOutput, Disks
    <3>. QED BY <3>1, <3>2
  <2>2. UNCHANGED AppliedItems
    BY <1>1, <1>2, <2>1 DEF AppliedItems, Disks
  <2>3. UNCHANGED AppliedEvents
    BY <1>2 DEF AppliedEvents
  <2>4. UNCHANGED AppliedHandoffs
    <3>1. file = "handoff" => StageOf[o] = "build"
      BY <1>1 DEF FilesOf
    <3>. QED BY <1>1, <1>2, <2>1, <3>1 DEF AppliedHandoffs
  <2>5. UNCHANGED AppliedReceipts
    BY <1>1, <1>2, <2>1 DEF AppliedReceipts
  <2>. QED BY <2>2, <2>3, <2>4, <2>5 DEF Applied
<1>. QED BY <1>1, <1>3, <1>4

\* The journal goes when all it says is so.
LEMMA UnlinkStutters == Typed /\ Rolling /\ Unlink => UNCHANGED Applied
<1> SUFFICES ASSUME Typed, Rolling, Unlink PROVE UNCHANGED Applied
  OBVIOUS
<1>1. proc.at = "unlink" /\ pending' = None /\ disk' = disk
  BY DEF Unlink
<1>2. PICK o \in Ops : o = pending.op /\ o = proc.op /\ pending # None /\ Sound(pending)
  BY <1>1 DEF Typed, TypedFiles, Equipped, Applying, Sound, Journals
<1>3. \A f \in FilesOf(o) : Actual(o, f) = pending.after[f]
  BY <1>1, <1>2 DEF Rolling
<1>4. disk \in Disks
  BY DEF Typed, TypedFiles
<1>5. disk.items[ItemOf[o]] = pending.after["item"] /\ disk.events = pending.after["events"]
  BY <1>3 DEF FilesOf, Actual
<1>6. o \in disk.receipts
  <2>1. pending.after["receipt"] = TRUE
    BY <1>2 DEF Sound, FilesOf
  <2>. QED BY <1>3, <2>1 DEF FilesOf, Actual
<1>7. StageOf[o] = "build" => o \in disk.handoffs
  <2> SUFFICES ASSUME StageOf[o] = "build" PROVE o \in disk.handoffs
    OBVIOUS
  <2>1. "handoff" \in FilesOf(o)
    BY DEF FilesOf
  <2>2. pending.after["handoff"] = TRUE
    BY <1>2, <2>1 DEF Sound
  <2>. QED BY <1>3, <2>1, <2>2 DEF Actual
<1>8. UNCHANGED AppliedItems
  BY <1>1, <1>2, <1>4, <1>5 DEF AppliedItems, Disks
<1>9. UNCHANGED AppliedEvents
  BY <1>1, <1>5 DEF AppliedEvents
<1>10. UNCHANGED AppliedHandoffs
  <2>1. StageOf[o] \in {"build", "test"}
    OBVIOUS
  <2>. QED BY <1>1, <1>2, <1>4, <1>7, <2>1 DEF AppliedHandoffs, Disks
<1>11. UNCHANGED AppliedReceipts
  BY <1>1, <1>2, <1>4, <1>6 DEF AppliedReceipts, Disks
<1>. QED BY <1>8, <1>9, <1>10, <1>11 DEF Applied

\* What other commands record is recorded as it is.
LEMMA RecordedStep ==
    ASSUME Typed, NEW items, Recorded(items)
    PROVE  /\ AppliedItems = disk.items /\ AppliedItems' = items
           /\ AppliedEvents' = Append(AppliedEvents, "other")
           /\ UNCHANGED <<AppliedHandoffs, AppliedReceipts>>
<1>1. pending = None /\ pending' = None /\ disk' = [disk EXCEPT !.items = items, !.events = Append(@, "other")]
  BY DEF Recorded, Admitted
<1>2. disk \in Disks
  BY DEF Typed, TypedFiles
<1>. QED BY <1>1, <1>2 DEF AppliedItems, AppliedEvents, AppliedHandoffs, AppliedReceipts, Disks

LEMMA AtomicStep == Typed /\ Rolling /\ [Next]_vars => [Atomic!Next]_Applied
<1> SUFFICES ASSUME Typed, Rolling, [Next]_vars PROVE Atomic!Next \/ UNCHANGED Applied
  OBVIOUS
<1>1. CASE \E o \in Ops : PrepareDelivery(o)
  BY <1>1, CompleteStep DEF Atomic!Next
<1>2. CASE ApplyJournal
  BY <1>2, ApplyStutters
<1>3. CASE Unlink
  BY <1>3, UnlinkStutters
<1>4. ASSUME NEW i \in Items, NEW k \in Claims, ClaimWorkItem(i, k) PROVE Atomic!Next
  <2>1. Recorded([disk.items EXCEPT ![i].claim = k, ![i].claims = @ \cup {k}])
    BY <1>4 DEF ClaimWorkItem
  <2>2. Atomic!Claim(i, k)
    BY <1>4, <2>1, RecordedStep DEF ClaimWorkItem, Atomic!Claim
  <2>. QED BY <2>2 DEF Atomic!Next
<1>5. ASSUME NEW i \in Items, ReworkWorkItem(i) PROVE Atomic!Next
  <2>1. Recorded([disk.items EXCEPT ![i].stage = "build", ![i].claim = None])
    BY <1>5 DEF ReworkWorkItem
  <2>2. Atomic!Rework(i)
    BY <1>5, <2>1, RecordedStep DEF ReworkWorkItem, Atomic!Rework
  <2>. QED BY <2>2 DEF Atomic!Next
<1>6. ASSUME OtherCommand PROVE Atomic!Next
  BY <1>6, RecordedStep DEF OtherCommand, Atomic!Other, Atomic!Next
<1>7. CASE UNCHANGED <<disk, pending>>
  BY <1>7 DEF Applied, AppliedItems, AppliedEvents, AppliedHandoffs, AppliedReceipts
<1>. QED
  BY <1>1, <1>2, <1>3, <1>4, <1>5, <1>6, <1>7
     DEF Next, Step, vars, ResumeDelivery, RecoverLeanFinish, Validate, Observe, RecordPending, Inspect, Doctor,
         Recheck, Settle, RecordRecovery, Confirm, SettleRecovery, Crash, Disturb

LEMMA RollingAlways == Spec => [](Typed /\ Rolling)
  BY TypedAlways, RollingInit, RollingStep, PTL DEF Spec

\* From the journal on, a completion has happened, once and as a whole, whatever is interrupted.
THEOREM CompletionIsAtomic == Spec => CompletesAtomically
<1>1. Init => Atomic!Init
  BY DEF Init, Atomic!Init, AppliedItems, AppliedEvents, AppliedHandoffs, AppliedReceipts
<1>2. [Atomic!Next]_Applied => [Atomic!Next]_(Atomic!vars)
  BY DEF Applied, Atomic!vars
<1>. QED BY <1>1, <1>2, RollingAlways, AtomicStep, PTL DEF Spec, Atomic!Spec, CompletesAtomically

-----------------------------------------------------------------------------
(* What a receipt vouches for.                                              *)

Occurs(o, s) == {n \in DOMAIN s : s[n] = o}

\* A completion without a journal or a receipt left no event; one with a receipt left one, and its handoff.
Accounted ==
    /\ \A o \in Ops \ disk.receipts : (pending # None => pending.op # o) => Occurs(o, disk.events) = {}
    /\ \A o \in disk.receipts :
          /\ StageOf[o] = "build" => o \in disk.handoffs
          /\ \E n : Occurs(o, disk.events) = {n}
    /\ pending # None =>
          /\ disk.events \in {pending.before["events"], pending.after["events"]}
          /\ Occurs(pending.op, pending.before["events"]) = {}

LEMMA OccursAppended ==
    ASSUME NEW s \in Events, NEW e \in Ops \cup {"other"}
    PROVE  /\ Append(s, e) \in Events
           /\ \A o \in Ops \ {e} : Occurs(o, Append(s, e)) = Occurs(o, s)
           /\ Occurs(e, s) = {} => Occurs(e, Append(s, e)) = {Len(s) + 1}
<1>1. /\ s \in Seq(Ops \cup {"other"}) /\ Append(s, e) \in Events
      /\ Len(s) \in Nat /\ DOMAIN s = 1 .. Len(s) /\ Len(Append(s, e)) = Len(s) + 1
      /\ DOMAIN Append(s, e) = 1 .. Len(s) + 1
      /\ \A n \in 1 .. Len(s) : Append(s, e)[n] = s[n]
      /\ Append(s, e)[Len(s) + 1] = e
  BY DEF Events
<1>2. \A n : n \in 1 .. Len(s) + 1 <=> n \in 1 .. Len(s) \/ n = Len(s) + 1
  BY <1>1
<1>4. ASSUME NEW o \in Ops \ {e}
      PROVE  Occurs(o, Append(s, e)) = Occurs(o, s)
  BY <1>1, <1>2 DEF Occurs
<1>5. ASSUME Occurs(e, s) = {} PROVE Occurs(e, Append(s, e)) = {Len(s) + 1}
  BY <1>1, <1>2, <1>5 DEF Occurs
<1>. QED BY <1>1, <1>4, <1>5

\* The receipt is the last file of a completion.
LEMMA ReceiptIsLast ==
    ASSUME NEW o \in Ops, NEW n \in 1 .. Len(Outputs(o)), Outputs(o)[n] = "receipt", NEW f \in FilesOf(o) \ {"receipt"}
    PROVE  \E m \in 1 .. Len(Outputs(o)) : m < n /\ Outputs(o)[m] = f
<1>1. CASE StageOf[o] = "build"
  <2>1. Outputs(o) = <<"handoff">> \o <<"item", "events", "receipt">>
    BY <1>1 DEF Outputs
  <2>2. /\ Len(Outputs(o)) = 4
        /\ Outputs(o)[1] = "handoff" /\ Outputs(o)[2] = "item"
        /\ Outputs(o)[3] = "events" /\ Outputs(o)[4] = "receipt"
    BY <2>1
  <2>3. f \in {"handoff", "item", "events"}
    BY DEF FilesOf
  <2>4. n = 4
    BY <2>2
  <2>5. 1 \in 1 .. 4 /\ 2 \in 1 .. 4 /\ 3 \in 1 .. 4 /\ 1 < 4 /\ 2 < 4 /\ 3 < 4
    OBVIOUS
  <2>. QED BY <2>2, <2>3, <2>4, <2>5
<1>2. CASE StageOf[o] # "build"
  <2>1. Outputs(o) = <<"item", "events", "receipt">>
    BY <1>2 DEF Outputs
  <2>2. Len(Outputs(o)) = 3 /\ Outputs(o)[1] = "item" /\ Outputs(o)[2] = "events" /\ Outputs(o)[3] = "receipt"
    BY <2>1
  <2>3. f \in {"item", "events"}
    BY <1>2 DEF FilesOf
  <2>4. n = 3
    BY <2>2
  <2>5. 1 \in 1 .. 3 /\ 2 \in 1 .. 3 /\ 1 < 3 /\ 2 < 3
    OBVIOUS
  <2>. QED BY <2>2, <2>3, <2>4, <2>5
<1>. QED BY <1>1, <1>2

LEMMA AccountedInit == Init => Accounted
  BY DEF Init, Accounted, Occurs

LEMMA AccountedApply == Typed /\ Rolling /\ Accounted /\ ApplyJournal => Accounted'
<1> SUFFICES ASSUME Typed, Rolling, Accounted, ApplyJournal PROVE Accounted'
  OBVIOUS
<1>1. PICK o \in Ops, file \in Files :
          /\ o = pending.op /\ o = proc.op /\ file = Outputs(o)[proc.next] /\ proc.next \in 1 .. Len(Outputs(o))
          /\ Sound(pending) /\ file \in FilesOf(o)
          /\ disk' = disk \/ (Actual(o, file) = pending.before[file] /\ disk' = WriteOutput(o, file, pending.after[file]))
          /\ file = "item" => pending.after[file] \in ItemStates
          /\ file = "events" => pending.after[file] \in Events
          /\ file \in {"handoff", "receipt"} => pending.after[file] = TRUE
  BY ApplyFrame
<1>2. pending # None /\ pending' = pending /\ disk \in Disks /\ proc.at = "write"
  BY DEF ApplyJournal, Typed, TypedFiles, Equipped, Applying
<1>3. CASE disk' = disk
  BY <1>2, <1>3 DEF Accounted
<1>4. CASE Actual(o, file) = pending.before[file] /\ disk' = WriteOutput(o, file, pending.after[file])
  <2> DEFINE content == pending.after[file]
  <2>1. /\ disk' = WriteOutput(o, file, content)
        /\ file = "item" => content \in ItemStates
        /\ file = "events" => content \in Events
        /\ file \in {"handoff", "receipt"} => content = TRUE
    BY <1>1, <1>4
  <2>2. /\ file # "events" => disk'.events = disk.events
        /\ disk'.handoffs = IF file = "handoff" THEN disk.handoffs \cup {o} ELSE disk.handoffs
        /\ disk'.receipts = IF file = "receipt" THEN disk.receipts \cup {o} ELSE disk.receipts
        /\ file = "events" => disk'.events = content
    <3> HIDE DEF content
    <3>1. file # "events" => disk'.events = disk.events
      BY <1>2, <2>1, WriteFrame
    <3>4. file = "events" => disk'.events = content
      BY <1>2, <2>1 DEF WriteOutput, Disks
    <3>2. disk'.handoffs = IF file = "handoff" THEN disk.handoffs \cup {o} ELSE disk.handoffs
      BY <1>2, <2>1, WriteFrame
    <3>3. disk'.receipts = IF file = "receipt" THEN disk.receipts \cup {o} ELSE disk.receipts
      BY <1>2, <2>1, WriteFrame
    <3>. QED BY <3>1, <3>2, <3>3, <3>4
  <2>3. /\ pending.before["events"] \in Events /\ pending.after["events"] = Append(pending.before["events"], o)
        /\ Occurs(o, pending.before["events"]) = {}
    BY <1>1, <1>2 DEF Sound, Accounted
  <2>4. CASE file = "events"
    <3>1. disk.events = pending.before["events"]
      BY <1>4, <2>4 DEF Actual
    <3>2. disk'.events = Append(disk.events, o) /\ disk'.handoffs = disk.handoffs /\ disk'.receipts = disk.receipts
      BY <2>2, <2>3, <2>4, <3>1
    <3>3. \A p \in Ops \ {o} : Occurs(p, disk'.events) = Occurs(p, disk.events)
      BY <2>3, <3>1, <3>2, OccursAppended
    <3>4. o \notin disk.receipts
      BY <2>3, <3>1 DEF Accounted
    <3>5. \A p \in Ops \ disk'.receipts : (pending' # None => pending'.op # p) => Occurs(p, disk'.events) = {}
      BY <1>1, <1>2, <3>2, <3>3 DEF Accounted
    <3>6. \A p \in disk'.receipts :
             /\ StageOf[p] = "build" => p \in disk'.handoffs
             /\ \E n : Occurs(p, disk'.events) = {n}
      <4>1. disk.receipts \subseteq Ops \ {o}
        BY <1>2, <3>4 DEF Disks
      <4>. QED BY <3>2, <3>3, <4>1 DEF Accounted
    <3>7. disk'.events = pending'.after["events"]
      BY <1>2, <2>3, <3>1, <3>2
    <3>. QED BY <1>1, <1>2, <2>3, <3>5, <3>6, <3>7 DEF Accounted
  <2>5. CASE file = "receipt"
    <3>1. \A f \in FilesOf(o) \ {"receipt"} : Actual(o, f) = pending.after[f]
      <4>1. ASSUME NEW f \in FilesOf(o) \ {"receipt"} PROVE Actual(o, f) = pending.after[f]
        <5>1. PICK n \in 1 .. Len(Outputs(o)) : n = proc.next /\ Outputs(o)[n] = "receipt"
          BY <1>1, <2>5
        <5>2. PICK m \in 1 .. Len(Outputs(o)) : m < n /\ Outputs(o)[m] = f
          BY <5>1, ReceiptIsLast
        <5>. QED BY <1>1, <1>2, <5>1, <5>2 DEF Rolling
      <4>. QED BY <4>1
    <3>2. disk.events = Append(pending.before["events"], o)
      BY <2>3, <3>1 DEF FilesOf, Actual
    <3>3. Occurs(o, disk.events) = {Len(pending.before["events"]) + 1}
      BY <2>3, <3>2, OccursAppended
    <3>4. StageOf[o] = "build" => o \in disk.handoffs
      <4> SUFFICES ASSUME StageOf[o] = "build" PROVE o \in disk.handoffs
        OBVIOUS
      <4>1. "handoff" \in FilesOf(o)
        BY DEF FilesOf
      <4>2. pending.after["handoff"] = TRUE
        BY <1>1, <4>1 DEF Sound
      <4>. QED BY <3>1, <4>1, <4>2 DEF Actual
    <3>5. disk'.events = disk.events /\ disk'.handoffs = disk.handoffs /\ disk'.receipts = disk.receipts \cup {o}
      BY <2>2, <2>5
    <3>. QED BY <1>1, <1>2, <3>3, <3>4, <3>5 DEF Accounted
  <2>6. CASE file \notin {"events", "receipt"}
    <3>1. /\ disk'.events = disk.events /\ disk.handoffs \subseteq disk'.handoffs /\ disk'.receipts = disk.receipts
      BY <2>2, <2>6
    <3>. QED BY <1>2, <3>1 DEF Accounted
  <2>. QED BY <2>4, <2>5, <2>6
<1>. QED BY <1>1, <1>3, <1>4

LEMMA AccountedStep == Typed /\ Rolling /\ Accounted /\ [Next]_vars => Accounted'
<1> SUFFICES ASSUME Typed, Rolling, Accounted, [Next]_vars PROVE Accounted'
  OBVIOUS
<1>1. disk \in Disks
  BY DEF Typed, TypedFiles
<1>2. CASE \E o \in Ops : PrepareDelivery(o)
  <2>1. PICK o \in Ops : PrepareDelivery(o)
    BY <1>2
  <2>2. pending = None /\ disk' = disk /\ pending' = Journal(o) /\ o \notin disk.receipts
    BY <2>1 DEF PrepareDelivery, Admitted
  <2>3. pending'.op = o /\ pending'.before["events"] = disk.events
    <3>1. "events" \in FilesOf(o)
      BY DEF FilesOf
    <3>. QED BY <2>2, <3>1, JournalSound DEF Typed, Actual
  <2>. QED BY <2>2, <2>3 DEF Accounted
<1>3. CASE ApplyJournal
  BY <1>3, AccountedApply
<1>4. CASE Unlink
  <2>1. proc.at = "unlink" /\ pending' = None /\ disk' = disk
    BY <1>4 DEF Unlink
  <2>2. pending # None /\ pending.op = proc.op /\ Sound(pending)
    BY <2>1 DEF Typed, TypedFiles, Equipped, Applying
  <2>3. pending.op \in disk.receipts
    <3>1. "receipt" \in FilesOf(pending.op) /\ pending.after["receipt"] = TRUE
      BY <2>2 DEF Sound, FilesOf
    <3>. QED BY <2>1, <2>2, <3>1 DEF Rolling, Actual
  <2>. QED BY <2>1, <2>3 DEF Accounted
<1>5. ASSUME NEW items, Recorded(items) PROVE Accounted'
  <2>1. pending = None /\ pending' = None /\ disk' = [disk EXCEPT !.items = items, !.events = Append(@, "other")]
    BY <1>5 DEF Recorded, Admitted
  <2>2. disk'.events = Append(disk.events, "other") /\ disk'.handoffs = disk.handoffs /\ disk'.receipts = disk.receipts
    BY <1>1, <2>1 DEF Disks
  <2>3. \A o \in Ops : Occurs(o, disk'.events) = Occurs(o, disk.events)
    BY <1>1, <2>2, OccursAppended DEF Disks
  <2>4. disk.receipts \subseteq Ops
    BY <1>1 DEF Disks
  <2>5. \A o \in Ops \ disk'.receipts : (pending' # None => pending'.op # o) => Occurs(o, disk'.events) = {}
    BY <2>1, <2>2, <2>3 DEF Accounted
  <2>6. \A o \in disk'.receipts :
           /\ StageOf[o] = "build" => o \in disk'.handoffs
           /\ \E n : Occurs(o, disk'.events) = {n}
    BY <2>2, <2>3, <2>4 DEF Accounted
  <2>. QED BY <2>1, <2>5, <2>6 DEF Accounted
<1>6. CASE UNCHANGED <<disk, pending>>
  BY <1>6 DEF Accounted
<1>. QED
  BY <1>2, <1>3, <1>4, <1>5, <1>6
     DEF Next, Step, vars, ResumeDelivery, RecoverLeanFinish, Validate, Observe, RecordPending, Inspect, Doctor,
         Recheck, Settle, RecordRecovery, Confirm, SettleRecovery, ClaimWorkItem, ReworkWorkItem, OtherCommand,
         Crash, Disturb

\* Whoever finds a receipt finds all it vouches for, wherever the writing was interrupted.
THEOREM ReceiptsVouch == Spec => []ReceiptLast
<1>1. Typed /\ Rolling /\ Accounted => ReceiptLast
  <2> SUFFICES ASSUME Typed, Rolling, Accounted, NEW o \in disk.receipts
               PROVE  /\ StageOf[o] = "build" => o \in disk.handoffs
                      /\ Cardinality({n \in DOMAIN disk.events : disk.events[n] = o}) = 1
    BY DEF ReceiptLast
  <2>1. PICK n : Occurs(o, disk.events) = {n}
    BY DEF Accounted
  <2>2. Cardinality(Occurs(o, disk.events)) = 1
    BY <2>1, FS_Singleton
  <2>. QED BY <2>2 DEF Accounted, Occurs
<1>. QED BY <1>1, RollingAlways, AccountedInit, AccountedStep, PTL DEF Spec

-----------------------------------------------------------------------------
(* What a settlement rests on.                                              *)

\* What the diagnostics found still stands when their result is written.
Checked ==
    LET after == record[proc.op].journal.after
    IN /\ proc.at \in {"recheck", "settle"} /\ proc.result = "passed" => Alone(proc.op)
       /\ proc.at \in {"confirm", "recovered"} => Alone(proc.op)
       /\ proc.at \in {"settle", "recovered"} => disk.items[ItemOf[proc.op]] = after["item"]
       /\ proc.at = "settle" => disk.events = after["events"]

LEMMA CheckedInit == Init => Checked
  BY DEF Init, Idle, Checked

\* The observation of a request does not disturb the request itself.
LEMMA AloneFrame ==
    ASSUME NEW o \in Ops, observed \in [Ops -> {None, "pending", "failed", "passed"}], Alone(o),
           disk' = disk, record' = record,
           observed' = observed \/ \E s : observed' = [observed EXCEPT ![o] = s],
           NEW p \in Finishing \ {o}
    PROVE  ~Unsettled(p)' /\ ~Conflicting(p)'
<1>1. observed'[p] = observed[p]
  OBVIOUS
<1>. QED BY <1>1 DEF Alone, Unsettled, Conflicting

LEMMA CheckedStep == Typed /\ Checked /\ [Next]_vars => Checked'
<1> SUFFICES ASSUME Typed, Checked, [Next]_vars PROVE Checked'
  OBVIOUS
<1>1. proc \in Commands /\ observed \in [Ops -> {None, "pending", "failed", "passed"}]
      /\ (proc.at \in Diagnosing => Kept(proc.op) /\ proc.op \in Ops)
  BY DEF Typed, TypedFiles, Equipped, Commands, Diagnosing
<1>2. ASSUME proc'.at \notin {"recheck", "settle", "confirm", "recovered"} PROVE Checked'
  BY <1>2 DEF Checked
<1>3. CASE Doctor
  <2>1. PICK result \in {"passed", "failed"} :
           proc' = [proc EXCEPT !.at = "recheck", !.result = result] /\ (result = "passed" => Attention(proc.op) = {})
    BY <1>3 DEF Doctor
  <2>2. proc'.at = "recheck" /\ proc'.op = proc.op /\ proc'.result = result
    BY <1>1, <2>1 DEF Commands
  <2>3. disk' = disk /\ record' = record /\ observed' = observed
    BY <1>3 DEF Doctor
  <2>4. result = "passed" => Alone(proc.op)
    BY <2>1 DEF Attention, Alone
  <2>. QED BY <2>2, <2>3, <2>4 DEF Checked, Alone, Unsettled, Conflicting
<1>4. CASE Recheck
  <2>1. proc.at = "recheck" /\ disk' = disk /\ record' = record
    BY <1>4 DEF Recheck
  <2>2. CASE AppliedSnapshot(record[proc.op].journal) /\ Goto("settle") /\ observed' = [observed EXCEPT ![proc.op] = proc.result]
    <3>1. PICK o \in Ops : o = proc.op /\ Kept(o)
      BY <1>1, <2>1 DEF Diagnosing
    <3>2. proc'.at = "settle" /\ proc'.op = o /\ proc'.result = proc.result
      BY <1>1, <2>2, <3>1 DEF Goto, Commands
    <3>3. disk.items[ItemOf[o]] = record[o].journal.after["item"] /\ disk.events = record[o].journal.after["events"]
      BY <2>2, <3>1 DEF AppliedSnapshot, Kept, RecordOf, Sound, FilesOf, Actual
    <3>4. proc.result = "passed" => Alone(o)'
      <4>1. proc.result = "passed" => Alone(o)
        BY <2>1, <3>1 DEF Checked
      <4>. QED BY <1>1, <2>1, <2>2, <3>1, <4>1, AloneFrame DEF Alone
    <3>. QED BY <2>1, <3>2, <3>3, <3>4 DEF Checked
  <2>. QED BY <1>2, <1>4, <2>2 DEF Recheck, Idle
<1>5. CASE RecordRecovery
  <2>1. proc.at = "diagnose" /\ disk' = disk /\ record' = record /\ observed' = observed
    BY <1>5 DEF RecordRecovery
  <2>2. CASE Attention(proc.op) = {} /\ Goto("confirm")
    <3>1. proc'.at = "confirm" /\ proc'.op = proc.op
      BY <1>1, <2>2 DEF Goto, Commands
    <3>2. Alone(proc.op)
      BY <2>2 DEF Attention, Alone
    <3>. QED BY <2>1, <3>1, <3>2 DEF Checked, Alone, Unsettled, Conflicting
  <2>. QED BY <1>2, <1>5, <2>2 DEF RecordRecovery, Idle
<1>6. CASE Confirm
  <2>1. proc.at = "confirm" /\ disk' = disk /\ record' = record
    BY <1>6 DEF Confirm
  <2>2. CASE Unchanged /\ observed' = [observed EXCEPT ![proc.op] = "passed"] /\ Goto("recovered")
    <3>1. PICK o \in Ops : o = proc.op
      BY <1>1, <2>1 DEF Diagnosing
    <3>2. proc'.at = "recovered" /\ proc'.op = o
      BY <1>1, <2>2, <3>1 DEF Goto, Commands
    <3>3. disk.items[ItemOf[o]] = record[o].journal.after["item"]
      BY <2>2, <3>1 DEF Unchanged, Recoverable
    <3>4. Alone(o)'
      <4>1. Alone(o)
        BY <2>1, <3>1 DEF Checked
      <4>. QED BY <1>1, <2>1, <2>2, <3>1, <4>1, AloneFrame DEF Alone
    <3>. QED BY <2>1, <3>2, <3>3, <3>4 DEF Checked
  <2>. QED BY <1>2, <1>6, <2>2 DEF Confirm, Idle
<1>7. ASSUME NEW at \in {"record", "unlink", "inspect", "doctor"}, Goto(at) PROVE Checked'
  <2>1. proc'.at = at
    BY <1>1, <1>7 DEF Goto, Commands
  <2>. QED BY <1>2, <2>1
<1>8. ASSUME proc' = Idle PROVE Checked'
  BY <1>2, <1>8 DEF Idle
<1>9. CASE Validate \/ ApplyJournal
  <2>1. proc.at \in {"validate", "write"}
    BY <1>9 DEF Validate, ApplyJournal
  <2>2. CASE proc' = [proc EXCEPT !.at = "write", !.next = 1] \/ proc' = [proc EXCEPT !.next = @ + 1]
    <3>1. proc'.at = "write" \/ proc'.at = proc.at
      BY <1>1, <2>2 DEF Commands
    <3>. QED BY <1>2, <2>1, <3>1
  <2>. QED BY <1>8, <1>9, <2>2 DEF Validate, ApplyJournal
<1>10. CASE \E o \in Ops : PrepareDelivery(o) \/ ResumeDelivery(o) \/ RecoverLeanFinish(o)
  BY <1>2, <1>10 DEF PrepareDelivery, ResumeDelivery, RecoverLeanFinish, Idle
<1>11. CASE Observe \/ RecordPending \/ Unlink \/ Inspect \/ Settle \/ SettleRecovery \/ Crash
  BY <1>7, <1>8, <1>11 DEF Observe, RecordPending, Unlink, Inspect, Settle, SettleRecovery, Crash
<1>12. ASSUME NEW items, Recorded(items) PROVE Checked'
  BY <1>8, <1>12 DEF Recorded, Admitted
<1>13. CASE UNCHANGED <<disk, record, observed, proc>>
  BY <1>13 DEF Checked, Alone, Unsettled, Conflicting
<1>. QED
  BY <1>3, <1>4, <1>5, <1>6, <1>9, <1>10, <1>11, <1>12, <1>13
     DEF Next, Step, vars, ClaimWorkItem, ReworkWorkItem, OtherCommand, Disturb

\* Every settlement of a finish, as SettledInPlace states it.
Settlement ==
    \A o \in Ops :
        record[o] # None /\ record[o].status # "passed" /\ record'[o].status = "passed" =>
            LET after == record[o].journal.after
            IN /\ disk.items[ItemOf[o]] = after["item"]
               /\ Alone(o)
               /\ record'[o].recovered \/ disk.events = after["events"]

LEMMA SettlementStep == Typed /\ Checked /\ [Next]_vars => [Settlement]_record
<1> SUFFICES ASSUME Typed, Checked, [Next]_vars, record' # record,
                    NEW o \in Ops, record[o] # None, record[o].status # "passed", record'[o].status = "passed"
             PROVE  /\ disk.items[ItemOf[o]] = record[o].journal.after["item"]
                    /\ Alone(o)
                    /\ record'[o].recovered \/ disk.events = record[o].journal.after["events"]
  BY DEF Settlement
<1>1. record \in [Ops -> Records \cup {None}] /\ proc \in Commands
  BY DEF Typed, TypedRecords, Equipped
<1>2. RecordPending \/ Settle \/ SettleRecovery
  BY DEF Next, Step, vars, PrepareDelivery, ResumeDelivery, RecoverLeanFinish, Validate, ApplyJournal, Observe, Unlink,
         Inspect, Doctor, Recheck, RecordRecovery, Confirm, ClaimWorkItem, ReworkWorkItem, OtherCommand, Recorded,
         Crash, Disturb
<1>3. CASE RecordPending
  BY <1>1, <1>3 DEF RecordPending
<1>4. CASE Settle
  <2>1. proc.at = "settle" /\ record' = [record EXCEPT ![proc.op].status = proc.result]
    BY <1>4 DEF Settle
  <2>2. o = proc.op
    BY <1>1, <2>1
  <2>3. Kept(o)
    BY <2>1, <2>2 DEF Typed, Equipped, Diagnosing
  <2>4. proc.result = "passed"
    BY <1>1, <2>1, <2>2, <2>3 DEF Kept, RecordOf, Records
  <2>. QED BY <2>1, <2>2, <2>4 DEF Checked
<1>5. CASE SettleRecovery
  <2>1. proc.at = "recovered"
        /\ record' = [record EXCEPT ![proc.op].status = "passed", ![proc.op].recovered = TRUE]
    BY <1>5 DEF SettleRecovery
  <2>2. o = proc.op
    BY <1>1, <2>1
  <2>3. Kept(o)
    BY <2>1, <2>2 DEF Typed, Equipped, Diagnosing
  <2>4. record'[o].recovered
    BY <1>1, <2>1, <2>2, <2>3 DEF Kept, RecordOf, Records
  <2>. QED BY <2>1, <2>2, <2>4 DEF Checked
<1>. QED BY <1>2, <1>3, <1>4, <1>5

\* A finish is settled only while its item is as the finish left it and no other finish needs attention.
THEOREM SettlementsHold == Spec => SettledInPlace
<1>1. Spec => [](Typed /\ Checked)
  BY TypedAlways, CheckedInit, CheckedStep, PTL DEF Spec
<1>. QED BY <1>1, SettlementStep, PTL DEF Spec, SettledInPlace, Settlement
=============================================================================
