---------------------------- MODULE DispatchProofs ----------------------------
(***************************************************************************)
(* Proofs about Dispatch, for any items, plans, capacities and bounds.     *)
(*                                                                         *)
(* A command is the list of its writes and the list of those that put the  *)
(* documents back.  The lists decide every state of the documents it may   *)
(* still lead to: Path(k) after k more writes, and Back(k, m) when the     *)
(* next one fails and m documents have been put back.  The inductive       *)
(* invariant says what is true of all these states, and of the steps from  *)
(* one to the next: a write, a failure or a crash only moves along them,   *)
(* and what has to be shown of a command is shown when it begins.          *)
(***************************************************************************)
EXTENDS Dispatch, TLAPS

Files == {"items", "workers", "resources", "tasks"}

\* The documents docs after the first k of the writes s.
At(s, k, docs) ==
    [f \in Files |-> IF \E j \in 1 .. k : s[j].file = f
                     THEN s[CHOOSE j \in 1 .. k : s[j].file = f].content
                     ELSE docs[f]]
Path(k) == At(op.todo, k, disk)
Back(k, m) == At(op.undo, m, Path(k))

\* A list of writes has one of each document.
Once(s) == \A j, k \in DOMAIN s : s[j].file = s[k].file => j = k

Typed ==
    /\ disk \in [items : ItemDocs, workers : WorkerDocs, resources : ResourceDocs, tasks : TaskDocs]
    /\ op \in [todo : Seq(Writes), undo : Seq(Writes), item : Items \cup {None}, worker : Workers \cup {None},
               failed : BOOLEAN]
    /\ torn \subseteq Workers \X BOOLEAN
    /\ plan # None => plan.id \in Nat

\* Forward, the last write is the event; and what is put back is not put back again.
Formed ==
    /\ Once(op.todo) /\ Once(op.undo)
    /\ op.failed => op.undo = <<>>
    /\ op.todo = <<>> => op = Idle
    /\ op.todo # <<>> /\ ~op.failed => op.todo[Len(op.todo)].file \notin Files

\* The states that are ahead: k writes, and then m of the other list.
Ahead == (0 .. Len(op.todo)) \X (0 .. Len(op.undo))
\* The command is over: all is written, or all is put back.
Over(k, m) == IF m = 0 THEN k = Len(op.todo) ELSE m = Len(op.undo)
\* The rollback is under way.
Exposed(k, m) == IF op.failed THEN k < Len(op.todo) ELSE m > 0 /\ m < Len(op.undo)

Live(x) == x # None /\ x.status \notin Ended
\* Of a worker's entry and its reservation: LiveWorkersHoldResources and NothingHeldInVain.
Supplied(x, y) == Live(x) /\ x.units > 0 => y.state = "active" /\ y.units = x.units
Wanted(x, y) == y.state = "active" => Live(x)

\* OneLiveWorker, WorkersKnowTheirTask, and: tasks are registered for workers on record.
Matched(workers, tasks) ==
    /\ \A v, w \in Workers :
          Live(workers[v]) /\ Live(workers[w]) /\ workers[v].item = workers[w].item => v = w
    /\ \A w \in Workers : workers[w] # None /\ workers[w].task # None =>
          LET task == tasks[workers[w].task]
          IN task # None /\ task.worker = w /\ task.item = workers[w].item /\ task.claim = workers[w].claim
    /\ \A t \in Tasks : tasks[t] # None /\ tasks[t].worker # None => workers[tasks[t].worker] # None

Living(docs, w) == Live(docs.workers[w])
Sound(docs) == Matched(docs.workers, docs.tasks)
Holds(docs, w) == Supplied(docs.workers[w], docs.resources[w])
Needed(docs, w) == Wanted(docs.workers[w], docs.resources[w])

Held ==
    \A w \in Workers : \A p \in Ahead :
        \/ Holds(Back(p[1], p[2]), w)
        \/ <<w, TRUE>> \in torn
        \/ w = op.worker /\ Exposed(p[1], p[2])
Vain ==
    /\ \A w \in Workers \ Torn : \A p \in Ahead :
          Needed(Back(p[1], p[2]), w) \/ (w = op.worker /\ ~Over(p[1], p[2]))
    \* After the event, the worker of the command is in order, also if it was torn.
    /\ op.worker # None /\ ~op.failed /\ (\A k \in DOMAIN op.todo : op.todo[k].file # "refused") =>
          Needed(Back(Len(op.todo), 0), op.worker)

\* SparesLaterClaims and DispatchedInOrder, from one state of the documents to the next.
Spares(docs, next) ==
    \A i \in Items : docs.items[i].live /\ ~next.items[i].live =>
        docs.workers[op.worker].item = i /\ docs.workers[op.worker].claim = docs.items[i].claim
InOrder(docs, next) ==
    \A w \in Workers : docs.workers[w] = None /\ next.workers[w] # None =>
        LET i == next.workers[w].item
        IN /\ Settled(docs.items, i)
           /\ \A v \in Workers : Living(docs, v) /\ docs.workers[v].item \in Overlaps(docs.items, i) =>
                 docs.workers[v].item \in docs.items[i].named
Stepwise ==
    /\ ~op.failed /\ op.worker # None =>
          \A k \in 1 .. Len(op.todo) : op.todo[k].file = "items" => Spares(Back(k - 1, 0), Back(k, 0))
    /\ \A k \in 1 .. Len(op.todo) : InOrder(Back(k - 1, 0), Back(k, 0))
    /\ \A k \in 0 .. Len(op.todo), m \in 1 .. Len(op.undo) : InOrder(Back(k, m - 1), Back(k, m))

\* The inductive invariant.
Dispatching ==
    /\ Typed /\ Formed
    /\ \A p \in Ahead : Sound(Back(p[1], p[2]))
    /\ Held /\ Vain /\ Stepwise

(***************************************************************************)
(* Lists of writes.                                                        *)
(***************************************************************************)
\* A document is as the one write of it left it, or as it was.
LEMMA AtCases ==
    ASSUME NEW s, NEW k, NEW docs, NEW f \in Files
    PROVE  \/ \E j \in 1 .. k : s[j].file = f /\ At(s, k, docs)[f] = s[j].content
           \/ (\A j \in 1 .. k : s[j].file # f) /\ At(s, k, docs)[f] = docs[f]
<1> DEFINE Hit == CHOOSE j \in 1 .. k : s[j].file = f
<1>1. CASE \E j \in 1 .. k : s[j].file = f
  <2>1. Hit \in 1 .. k /\ s[Hit].file = f
    BY <1>1
  <2>2. At(s, k, docs)[f] = s[Hit].content
    BY <1>1 DEF At
  <2> QED BY <2>1, <2>2
<1>2. CASE ~ \E j \in 1 .. k : s[j].file = f
  BY <1>2 DEF At
<1> QED BY <1>1, <1>2

\* The documents are what At builds when nothing is written.
LEMMA DocumentsAreAFunction ==
    ASSUME NEW d \in [items : ItemDocs, workers : WorkerDocs, resources : ResourceDocs, tasks : TaskDocs]
    PROVE  d = [f \in Files |-> d[f]]
BY DEF Files

LEMMA AtZero ==
    ASSUME NEW s, NEW docs, docs = [f \in Files |-> docs[f]]
    PROVE  At(s, 0, docs) = docs
<1>1. \A f \in Files : ~ \E j \in 1 .. 0 : s[j].file = f
  OBVIOUS
<1>2. At(s, 0, docs) = [f \in Files |-> docs[f]]
  BY <1>1 DEF At
<1> QED BY <1>2

LEMMA AtIsFunction ==
    ASSUME NEW s, NEW k, NEW docs
    PROVE  At(s, k, docs) = [f \in Files |-> At(s, k, docs)[f]]
BY DEF At

LEMMA EmptyList ==
    ASSUME NEW S, NEW s \in Seq(S), Len(s) = 0
    PROVE  s = <<>>
OBVIOUS

\* From one write to the next.
LEMMA AtNext ==
    ASSUME NEW s \in Seq(Writes), Once(s), NEW k \in 1 .. Len(s), NEW docs, NEW f \in Files
    PROVE  At(s, k, docs)[f] = IF s[k].file = f THEN s[k].content ELSE At(s, k - 1, docs)[f]
<1>1. CASE s[k].file = f
  <2>1. PICK j \in 1 .. k : s[j].file = f /\ At(s, k, docs)[f] = s[j].content
    BY <1>1, AtCases
  <2>2. j = k
    BY <1>1, <2>1 DEF Once
  <2> QED BY <1>1, <2>1, <2>2
<1>2. CASE s[k].file # f /\ \E j \in 1 .. k - 1 : s[j].file = f
  <2>1. PICK j \in 1 .. k : s[j].file = f /\ At(s, k, docs)[f] = s[j].content
    BY <1>2, AtCases
  <2>2. k - 1 \in Int
    OBVIOUS
  <2>3. PICK l \in 1 .. k - 1 : s[l].file = f /\ At(s, k - 1, docs)[f] = s[l].content
    BY <1>2, <2>2, AtCases
  <2>4. j = l
    BY <2>1, <2>3 DEF Once
  <2> QED BY <1>2, <2>1, <2>3, <2>4
<1>3. CASE s[k].file # f /\ ~ \E j \in 1 .. k - 1 : s[j].file = f
  <2>1. \A j \in 1 .. k : s[j].file # f
    BY <1>3
  <2>2. At(s, k, docs)[f] = docs[f]
    BY <2>1, AtCases
  <2>3. At(s, k - 1, docs)[f] = docs[f]
    BY <1>3, AtCases
  <2> QED BY <1>3, <2>2, <2>3
<1> QED BY <1>1, <1>2, <1>3

\* The first write done, the rest leads to the same documents.
LEMMA AtTail ==
    ASSUME NEW s \in Seq(Writes), Once(s), s # <<>>, NEW docs, NEW docs2,
           \A f \in Files : docs2[f] = IF s[1].file = f THEN s[1].content ELSE docs[f],
           NEW k \in 0 .. Len(s) - 1
    PROVE  At(Tail(s), k, docs2) = At(s, k + 1, docs)
<1>0. PICK r : r = Tail(s)
  OBVIOUS
<1>1. /\ Len(r) = Len(s) - 1
      /\ \A j \in 1 .. Len(s) - 1 : r[j] = s[j + 1]
  BY <1>0
<1>2. ASSUME NEW f \in Files PROVE At(r, k, docs2)[f] = At(s, k + 1, docs)[f]
  <2>1. CASE \E j \in 1 .. k : r[j].file = f
    <3>1. PICK j \in 1 .. k : r[j].file = f /\ At(r, k, docs2)[f] = r[j].content
      BY <2>1, AtCases
    <3>2. j + 1 \in 1 .. k + 1 /\ s[j + 1].file = f /\ At(r, k, docs2)[f] = s[j + 1].content
      BY <1>1, <3>1
    <3>3. PICK l \in 1 .. k + 1 : s[l].file = f /\ At(s, k + 1, docs)[f] = s[l].content
      BY <3>2, AtCases
    <3>4. j + 1 \in DOMAIN s /\ l \in DOMAIN s /\ s[j + 1].file = s[l].file
      BY <3>1, <3>2, <3>3
    <3>5. l = j + 1
      BY <3>4 DEF Once
    <3> QED BY <3>2, <3>3, <3>5
  <2>2. CASE ~ \E j \in 1 .. k : r[j].file = f
    <3>1. At(r, k, docs2)[f] = docs2[f]
      BY <2>2, AtCases
    <3>2. \A j \in 2 .. k + 1 : s[j].file # f
      <4>1. SUFFICES ASSUME NEW j \in 2 .. k + 1 PROVE s[j].file # f
        OBVIOUS
      <4>2. j - 1 \in 1 .. k /\ r[j - 1] = s[j]
        BY <1>1
      <4> QED BY <2>2, <4>2
    <3>3. CASE s[1].file = f
      <4>1. PICK l \in 1 .. k + 1 : s[l].file = f /\ At(s, k + 1, docs)[f] = s[l].content
        BY <3>3, AtCases
      <4>2. l = 1
        BY <4>1, <3>2
      <4> QED BY <3>1, <3>3, <4>1, <4>2
    <3>4. CASE s[1].file # f
      <4>1. \A j \in 1 .. k + 1 : s[j].file # f
        BY <3>2, <3>4
      <4>2. At(s, k + 1, docs)[f] = docs[f]
        BY <4>1, AtCases
      <4> QED BY <3>1, <3>4, <4>2
    <3> QED BY <3>3, <3>4
  <2> QED BY <2>1, <2>2
<1>3. At(r, k, docs2) = [f \in Files |-> At(r, k, docs2)[f]]
  BY AtIsFunction
<1>4. At(s, k + 1, docs) = [f \in Files |-> At(s, k + 1, docs)[f]]
  BY AtIsFunction
<1> HIDE DEF At
<1> QED BY <1>0, <1>2, <1>3, <1>4

LEMMA NothingWritten ==
    ASSUME NEW d \in [items : ItemDocs, workers : WorkerDocs, resources : ResourceDocs, tasks : TaskDocs],
           NEW s, NEW u
    PROVE  At(u, 0, At(s, 0, d)) = d
<1>1. d = [f \in Files |-> d[f]]
  BY DocumentsAreAFunction
<1>2. At(s, 0, d) = d
  BY <1>1, AtZero
<1>3. At(u, 0, d) = d
  BY <1>1, AtZero
<1> QED BY <1>2, <1>3

LEMMA BackAtZero ==
    ASSUME NEW k
    PROVE  Back(k, 0) = Path(k)
<1>1. Path(k) = [f \in Files |-> Path(k)[f]]
  BY AtIsFunction DEF Path
<1> QED BY <1>1, AtZero DEF Back

(***************************************************************************)
(* Between two commands.                                                   *)
(***************************************************************************)
\* What the invariant says when no command is under way.
Resting ==
    /\ Sound(disk)
    /\ \A w \in Workers : Holds(disk, w) \/ <<w, TRUE>> \in torn
    /\ \A w \in Workers \ Torn : Needed(disk, w)

LEMMA IdleIsFormed ==
    Idle.todo = <<>> /\ Idle.undo = <<>> /\ Idle.item = None /\ Idle.worker = None /\ ~Idle.failed
BY DEF Idle

LEMMA AtRest ==
    ASSUME Dispatching, op = Idle
    PROVE  Resting
<1>1. op.todo = <<>> /\ op.undo = <<>> /\ op.worker = None /\ ~op.failed
  BY IdleIsFormed
<1>2. Back(0, 0) = disk
  BY NothingWritten DEF Dispatching, Typed, Back, Path
<1>3. <<0, 0>> \in Ahead
  BY <1>1 DEF Ahead
<1>4. ~Exposed(0, 0) /\ Over(0, 0)
  BY <1>1 DEF Exposed, Over
<1>5. Sound(disk)
  BY <1>2, <1>3 DEF Dispatching
<1>6. \A w \in Workers : Holds(disk, w) \/ <<w, TRUE>> \in torn
  BY <1>2, <1>3, <1>4 DEF Dispatching, Held
<1>7. \A w \in Workers \ Torn : Needed(disk, w)
  BY <1>2, <1>3, <1>4 DEF Dispatching, Vain
<1> QED BY <1>5, <1>6, <1>7 DEF Resting

LEMMA ComesToRest ==
    ASSUME Typed', op' = Idle, Resting'
    PROVE  Dispatching'
<1>1. op'.todo = <<>> /\ op'.undo = <<>> /\ op'.worker = None /\ ~op'.failed
  BY IdleIsFormed
<1>2. Back(0, 0)' = disk'
  BY NothingWritten DEF Typed, Back, Path
<1>3. ASSUME NEW p \in Ahead' PROVE Back(p[1], p[2])' = disk'
  <2>1. p[1] = 0 /\ p[2] = 0
    BY <1>1, <1>3 DEF Ahead
  <2> QED BY <1>2, <2>1
<1>4. Formed'
  BY <1>1 DEF Formed, Once
<1>5. \A p \in Ahead' : Sound(Back(p[1], p[2]))'
  BY <1>3 DEF Resting
<1>6. Held'
  BY <1>3 DEF Resting, Held
<1>7. Vain'
  BY <1>1, <1>3 DEF Resting, Vain
<1>8. Stepwise'
  BY <1>1 DEF Stepwise
<1> QED BY <1>4, <1>5, <1>6, <1>7, <1>8 DEF Dispatching

(***************************************************************************)
(* A write, a failure, a crash: along the states that are ahead.           *)
(***************************************************************************)
\* A write takes the documents to the next state of the path.
LEMMA WriteAdvances ==
    ASSUME Dispatching, Write
    PROVE  /\ Typed'
           /\ op.todo # <<>> /\ op'.todo = Tail(op.todo) /\ Len(op'.todo) = Len(op.todo) - 1
           /\ disk' = Path(1)
           /\ \A k \in 0 .. Len(op.todo) - 1 : At(op'.todo, k, disk') = Path(k + 1)
<1> DEFINE next == op.todo[1]
<1>1. op.todo # <<>> /\ op.todo \in Seq(Writes) /\ next \in Writes /\ next = Head(op.todo) /\ 1 \in DOMAIN op.todo
  BY DEF Write, Dispatching, Typed
<1>2. DOMAIN disk = Files
  BY DEF Dispatching, Typed, Files
<1>3. \A f \in Files : disk'[f] = IF next.file = f THEN next.content ELSE disk[f]
  BY <1>1, <1>2 DEF Write, Dispatching, Typed
<1>4. op'.todo = Tail(op.todo) /\ Len(op'.todo) = Len(op.todo) - 1
  <2>1. CASE Len(op.todo) = 1
    <3>1. op' = Idle
      BY <2>1 DEF Write
    <3>2. Tail(op.todo) = <<>>
      <4>1. Tail(op.todo) \in Seq(Writes) /\ Len(Tail(op.todo)) = 0
        BY <1>1, <2>1
      <4> QED BY <4>1, EmptyList
    <3> QED BY <2>1, <3>1, <3>2, IdleIsFormed
  <2>2. CASE Len(op.todo) # 1
    <3>1. op' = [op EXCEPT !.todo = Tail(@)]
      BY <2>2 DEF Write
    <3>2. op'.todo = Tail(op.todo)
      BY <3>1 DEF Dispatching, Typed
    <3> QED BY <1>1, <3>2
  <2> QED BY <2>1, <2>2
<1>5. disk' \in [items : ItemDocs, workers : WorkerDocs, resources : ResourceDocs, tasks : TaskDocs]
  <2>1. CASE next.file \notin Files
    <3>1. disk' = disk
      BY <1>1, <1>2, <2>1 DEF Write
    <3> QED BY <3>1 DEF Dispatching, Typed
  <2>2. CASE next.file \in Files
    <3>1. disk' = [disk EXCEPT ![next.file] = next.content]
      BY <1>1, <1>2, <2>2 DEF Write
    <3>2. disk \in [items : ItemDocs, workers : WorkerDocs, resources : ResourceDocs, tasks : TaskDocs]
      BY DEF Dispatching, Typed
    <3>3. \/ next.file = "items" /\ next.content \in ItemDocs
          \/ next.file = "workers" /\ next.content \in WorkerDocs
          \/ next.file = "resources" /\ next.content \in ResourceDocs
          \/ next.file = "tasks" /\ next.content \in TaskDocs
      BY <1>1, <2>2 DEF Writes, Files
    <3>4. CASE next.file = "items" /\ next.content \in ItemDocs
      BY <3>1, <3>2, <3>4
    <3>5. CASE next.file = "workers" /\ next.content \in WorkerDocs
      BY <3>1, <3>2, <3>5
    <3>6. CASE next.file = "resources" /\ next.content \in ResourceDocs
      BY <3>1, <3>2, <3>6
    <3>7. CASE next.file = "tasks" /\ next.content \in TaskDocs
      BY <3>1, <3>2, <3>7
    <3> QED BY <3>3, <3>4, <3>5, <3>6, <3>7
  <2> QED BY <2>1, <2>2
<1>6. op' \in [todo : Seq(Writes), undo : Seq(Writes), item : Items \cup {None}, worker : Workers \cup {None},
               failed : BOOLEAN]
  <2>1. CASE Len(op.todo) = 1
    <3>1. op' = Idle
      BY <2>1 DEF Write
    <3> QED BY <3>1 DEF Idle
  <2>2. CASE Len(op.todo) # 1
    <3>1. op' = [op EXCEPT !.todo = Tail(@)]
      BY <2>2 DEF Write
    <3>2. Tail(op.todo) \in Seq(Writes)
      BY <1>1
    <3> QED BY <3>1, <3>2 DEF Dispatching, Typed
  <2> QED BY <2>1, <2>2
<1>7. torn' \subseteq torn /\ plan' = plan
  BY DEF Write
<1>8. Typed'
  BY <1>5, <1>6, <1>7 DEF Dispatching, Typed
<1>9. \A k \in 0 .. Len(op.todo) - 1 : At(op'.todo, k, disk') = Path(k + 1)
  <2>1. Once(op.todo)
    BY DEF Dispatching, Formed
  <2>2. SUFFICES ASSUME NEW k \in 0 .. Len(op.todo) - 1 PROVE At(Tail(op.todo), k, disk') = At(op.todo, k + 1, disk)
    BY <1>4 DEF Path
  <2> QED BY <1>1, <1>3, <2>1, AtTail
<1>10. disk' = Path(1)
  <2>1. disk' = [f \in Files |-> disk'[f]]
    BY <1>5, DocumentsAreAFunction
  <2>2. At(op'.todo, 0, disk') = disk'
    BY <2>1, AtZero
  <2>3. 0 \in 0 .. Len(op.todo) - 1 /\ 0 + 1 = 1
    BY <1>1
  <2> QED BY <1>9, <2>2, <2>3
<1> QED BY <1>1, <1>4, <1>8, <1>9, <1>10

LEMMA WriteKeeps ==
    ASSUME Dispatching, Write
    PROVE  Dispatching'
<1>1. /\ Typed' /\ op.todo # <<>> /\ op'.todo = Tail(op.todo) /\ Len(op'.todo) = Len(op.todo) - 1
      /\ disk' = Path(1)
      /\ \A k \in 0 .. Len(op.todo) - 1 : At(op'.todo, k, disk') = Path(k + 1)
  BY WriteAdvances
<1>2. /\ op.todo \in Seq(Writes) /\ op.undo \in Seq(Writes) /\ Len(op.todo) \in Nat \ {0} /\ Len(op.undo) \in Nat
      /\ op.worker \in Workers \cup {None} /\ op.failed \in BOOLEAN
  BY <1>1 DEF Dispatching, Typed
<1>3. torn' \subseteq torn
  BY DEF Write
<1>4. CASE Len(op.todo) = 1
  <2>1. op' = Idle
    BY <1>4 DEF Write
  <2>2. Back(1, 0) = disk'
    BY <1>1, BackAtZero
  <2>3. <<1, 0>> \in Ahead /\ Over(1, 0) /\ ~Exposed(1, 0)
    BY <1>2, <1>4 DEF Ahead, Over, Exposed
  <2>4. Sound(disk')
    BY <2>2, <2>3 DEF Dispatching
  <2>5. ASSUME NEW w \in Workers PROVE Holds(disk', w) \/ <<w, TRUE>> \in torn'
    <3>1. Holds(disk', w) \/ <<w, TRUE>> \in torn
      BY <2>2, <2>3 DEF Dispatching, Held
    <3>2. CASE <<w, TRUE>> \in torn \ torn'
      <4>1. ~op.failed /\ w = op.worker /\ ~Alive(w)
        BY <3>2, <1>4 DEF Write
      <4>2. op.todo[1].file \notin Files /\ op.todo[1] = Head(op.todo)
        BY <1>1, <1>2, <1>4, <4>1 DEF Dispatching, Formed
      <4>3. disk'.workers = disk.workers
        BY <4>2 DEF Write, Dispatching, Typed, Files
      <4> QED BY <4>1, <4>3 DEF Alive, Holds, Supplied, Live
    <3> QED BY <3>1, <3>2
  <2>6. ASSUME NEW w \in Workers \ Torn' PROVE Needed(disk', w)
    <3>1. CASE w \notin Torn
      BY <3>1, <2>2, <2>3 DEF Dispatching, Vain
    <3>2. CASE w \in Torn
      <4>1. PICK t \in torn : t[1] = w /\ t \notin torn'
        BY <3>2, <2>6 DEF Torn
      <4>2. ~op.failed /\ w = op.worker /\ op.worker # None
        <5>1. ~op.failed /\ t[1] = op.worker
          BY <4>1, <1>4 DEF Write
        <5>2. w # None
          BY DispatchAssumption
        <5> QED BY <4>1, <5>1, <5>2
      <4>3. \A k \in DOMAIN op.todo : op.todo[k].file # "refused"
        <5>1. DOMAIN op.todo = {1} /\ op.todo[1] = Head(op.todo)
          BY <1>1, <1>2, <1>4
        <5> QED BY <5>1 DEF Write
      <4>4. Needed(Back(Len(op.todo), 0), op.worker)
        BY <4>2, <4>3 DEF Dispatching, Vain
      <4> QED BY <4>2, <4>4, <2>2, <1>4
    <3> QED BY <3>1, <3>2
  <2>7. Resting'
    BY <2>4, <2>5, <2>6 DEF Resting
  <2> QED BY <1>1, <2>1, <2>7, ComesToRest
<1>5. CASE Len(op.todo) # 1
  <2>1. /\ op' = [op EXCEPT !.todo = Tail(@)] /\ op'.undo = op.undo /\ op'.worker = op.worker
        /\ op'.failed = op.failed
    <3>1. op' = [op EXCEPT !.todo = Tail(@)]
      BY <1>5 DEF Write
    <3> QED BY <3>1 DEF Dispatching, Typed
  <2>2. ASSUME NEW k \in 0 .. Len(op.todo) - 1, NEW m
        PROVE  Back(k, m)' = Back(k + 1, m)
    <3>1. At(op'.todo, k, disk') = Path(k + 1)
      BY <1>1
    <3>2. Back(k, m)' = At(op.undo, m, At(op'.todo, k, disk'))
      BY <2>1 DEF Back, Path
    <3> QED BY <3>1, <3>2 DEF Back
  <2>3. ASSUME NEW p \in Ahead'
        PROVE  /\ p[1] \in 0 .. Len(op.todo) - 1 /\ p[2] \in 0 .. Len(op.undo)
               /\ <<p[1] + 1, p[2]>> \in Ahead
               /\ Back(p[1], p[2])' = Back(p[1] + 1, p[2])
               /\ Exposed(p[1], p[2])' = Exposed(p[1] + 1, p[2])
               /\ Over(p[1], p[2])' = Over(p[1] + 1, p[2])
    <3>1. p[1] \in 0 .. Len(op.todo) - 1 /\ p[2] \in 0 .. Len(op.undo)
      BY <1>1, <2>1, <2>3 DEF Ahead
    <3>2. <<p[1] + 1, p[2]>> \in Ahead
      BY <3>1, <1>2 DEF Ahead
    <3>3. Exposed(p[1], p[2])' = Exposed(p[1] + 1, p[2])
      BY <3>1, <1>1, <1>2, <2>1 DEF Exposed
    <3>4. Over(p[1], p[2])' = Over(p[1] + 1, p[2])
      BY <3>1, <1>1, <1>2, <2>1 DEF Over
    <3> QED BY <2>2, <3>1, <3>2, <3>3, <3>4
  <2>4. \A p \in Ahead' : Sound(Back(p[1], p[2]))'
    BY <2>3 DEF Dispatching
  <2>5. torn' = torn
    BY <1>5 DEF Write
  <2>6. Held'
    <3>1. SUFFICES ASSUME NEW w \in Workers, NEW p \in Ahead'
                   PROVE  (\/ Holds(Back(p[1], p[2]), w)
                           \/ <<w, TRUE>> \in torn
                           \/ w = op.worker /\ Exposed(p[1], p[2]))'
      BY DEF Held
    <3>2. \/ Holds(Back(p[1] + 1, p[2]), w)
          \/ <<w, TRUE>> \in torn
          \/ w = op.worker /\ Exposed(p[1] + 1, p[2])
      BY <2>3 DEF Dispatching, Held
    <3> QED BY <3>2, <2>1, <2>3, <2>5
  <2>7. Vain'
    <3>1. ASSUME NEW w \in Workers \ Torn', NEW p \in Ahead'
          PROVE  (Needed(Back(p[1], p[2]), w) \/ (w = op.worker /\ ~Over(p[1], p[2])))'
      <4>1. w \in Workers \ Torn
        BY <2>5 DEF Torn
      <4>2. Needed(Back(p[1] + 1, p[2]), w) \/ (w = op.worker /\ ~Over(p[1] + 1, p[2]))
        BY <2>3, <4>1 DEF Dispatching, Vain
      <4> QED BY <2>1, <2>3, <4>2
    <3>2. ASSUME op'.worker # None, ~op'.failed, \A k \in DOMAIN op'.todo : op'.todo[k].file # "refused"
          PROVE  Needed(Back(Len(op.todo), 0), op.worker)'
      <4>1. \A k \in DOMAIN op.todo : op.todo[k].file # "refused"
        <5>1. op.todo[1].file # "refused"
          BY <1>1, <1>2 DEF Write
        <5>2. ASSUME NEW k \in DOMAIN op.todo, k # 1 PROVE op.todo[k].file # "refused"
          <6>1. k - 1 \in DOMAIN Tail(op.todo) /\ Tail(op.todo)[k - 1] = op.todo[k]
            BY <1>2, <5>2
          <6> QED BY <1>1, <3>2, <6>1
        <5> QED BY <5>1, <5>2
      <4>2. Needed(Back(Len(op.todo), 0), op.worker)
        BY <2>1, <3>2, <4>1 DEF Dispatching, Vain
      <4>3. Len(op'.todo) \in 0 .. Len(op.todo) - 1 /\ Len(op'.todo) + 1 = Len(op.todo)
        BY <1>1, <1>2
      <4>4. Back(Len(op.todo), 0)' = Back(Len(op.todo), 0)
        BY <2>2, <4>3
      <4> QED BY <2>1, <4>2, <4>4
    <3> QED BY <3>1, <3>2 DEF Vain
  <2>8. Stepwise'
    <3>1. ASSUME NEW k \in 1 .. Len(op'.todo)
          PROVE  /\ k + 1 \in 1 .. Len(op.todo)
                 /\ op'.todo[k] = op.todo[k + 1]
                 /\ Back(k - 1, 0)' = Back(k, 0)
                 /\ Back(k, 0)' = Back(k + 1, 0)
      <4>1. k \in 0 .. Len(op.todo) - 1 /\ k - 1 \in 0 .. Len(op.todo) - 1 /\ (k - 1) + 1 = k
        BY <1>1, <1>2
      <4>2. op'.todo[k] = op.todo[k + 1] /\ k + 1 \in 1 .. Len(op.todo)
        BY <1>1, <1>2
      <4>3. Back(k - 1, 0)' = Back((k - 1) + 1, 0)
        BY <2>2, <4>1
      <4>4. Back(k, 0)' = Back(k + 1, 0)
        BY <2>2, <4>1
      <4> QED BY <4>1, <4>2, <4>3, <4>4
    <3>2. ASSUME ~op'.failed, op'.worker # None, NEW k \in 1 .. Len(op'.todo), op'.todo[k].file = "items"
          PROVE  Spares(Back(k - 1, 0), Back(k, 0))'
      <4>1. Spares(Back(k, 0), Back(k + 1, 0))
        <5>1. (k + 1) - 1 = k
          BY <1>1, <1>2
        <5> QED BY <2>1, <3>1, <3>2, <5>1 DEF Dispatching, Stepwise
      <4> QED BY <2>1, <3>1, <4>1 DEF Spares
    <3>3. ASSUME NEW k \in 1 .. Len(op'.todo) PROVE InOrder(Back(k - 1, 0), Back(k, 0))'
      <4>1. InOrder(Back(k, 0), Back(k + 1, 0))
        <5>1. (k + 1) - 1 = k
          BY <1>1, <1>2
        <5> QED BY <3>1, <5>1 DEF Dispatching, Stepwise
      <4> QED BY <3>1, <4>1
    <3>4. ASSUME NEW k \in 0 .. Len(op'.todo), NEW m \in 1 .. Len(op'.undo)
          PROVE  InOrder(Back(k, m - 1), Back(k, m))'
      <4>1. k \in 0 .. Len(op.todo) - 1 /\ k + 1 \in 0 .. Len(op.todo) /\ m \in 1 .. Len(op.undo)
        BY <1>1, <1>2, <2>1
      <4>2. InOrder(Back(k + 1, m - 1), Back(k + 1, m))
        BY <4>1 DEF Dispatching, Stepwise
      <4>3. Back(k, m - 1)' = Back(k + 1, m - 1) /\ Back(k, m)' = Back(k + 1, m)
        BY <2>2, <4>1
      <4> QED BY <4>2, <4>3
    <3> QED BY <3>2, <3>3, <3>4 DEF Stepwise
  <2>9. Formed'
    <3>1. Once(op.todo) /\ op'.todo = Tail(op.todo)
      BY <1>1 DEF Dispatching, Formed
    <3>2. \A j \in DOMAIN op'.todo : j + 1 \in DOMAIN op.todo /\ op'.todo[j] = op.todo[j + 1] /\ j \in Nat
      BY <1>1, <1>2
    <3>3. Once(op'.todo)
      BY <3>1, <3>2 DEF Once
    <3>4. Once(op'.undo) /\ (op'.failed => op'.undo = <<>>)
      BY <2>1 DEF Dispatching, Formed
    <3>5. op'.todo # <<>> /\ op'.todo[Len(op'.todo)] = op.todo[Len(op.todo)]
      <4>1. Len(op'.todo) \in DOMAIN op'.todo /\ Len(op'.todo) + 1 = Len(op.todo)
        <5>1. op'.todo \in Seq(Writes) /\ Len(op'.todo) \in Nat \ {0}
          BY <1>1, <1>2, <1>5 DEF Typed
        <5>2. DOMAIN op'.todo = 1 .. Len(op'.todo)
          BY <5>1
        <5>3. Len(op'.todo) = Len(op.todo) - 1
          BY <1>1
        <5>4. Len(op'.todo) \in 1 .. Len(op'.todo)
          BY <5>1
        <5>5. Len(op'.todo) + 1 = Len(op.todo)
          BY <1>2, <5>3
        <5> QED BY <5>2, <5>4, <5>5
      <4>2. op'.todo # <<>>
        BY <4>1
      <4> QED BY <3>2, <4>1, <4>2
    <3>6. ~op'.failed => op'.todo[Len(op'.todo)].file \notin Files
      BY <1>1, <2>1, <3>5 DEF Dispatching, Formed
    <3> QED BY <3>3, <3>4, <3>5, <3>6 DEF Formed
  <2> QED BY <1>1, <2>4, <2>6, <2>7, <2>8, <2>9 DEF Dispatching
<1> QED BY <1>4, <1>5

LEMMA FailKeeps ==
    ASSUME Dispatching, Fail, op.undo # <<>>
    PROVE  Dispatching'
<1>1. /\ op' = [op EXCEPT !.todo = op.undo, !.undo = <<>>, !.failed = TRUE]
      /\ UNCHANGED <<disk, plan, torn>> /\ op.todo # <<>>
  BY DEF Fail
<1>2. /\ op'.todo = op.undo /\ op'.undo = <<>> /\ op'.failed /\ op'.worker = op.worker
  BY <1>1 DEF Dispatching, Typed
<1>3. /\ op.undo \in Seq(Writes) /\ Len(op.undo) \in Nat \ {0} /\ Len(op.todo) \in Nat /\ ~op.failed
      /\ op.failed \in BOOLEAN
  BY DEF Dispatching, Typed, Formed
<1>4. Typed'
  <2>1. op' \in [todo : Seq(Writes), undo : Seq(Writes), item : Items \cup {None}, worker : Workers \cup {None},
                failed : BOOLEAN]
    <3>1. <<>> \in Seq(Writes)
      OBVIOUS
    <3> QED BY <1>1, <1>3, <3>1 DEF Dispatching, Typed
  <2> QED BY <1>1, <2>1 DEF Dispatching, Typed
<1>5. ASSUME NEW k PROVE Back(k, 0)' = Back(0, k)
  <2>1. Path(k)' = At(op.undo, k, disk)
    BY <1>1, <1>2 DEF Path
  <2>2. Back(0, 0) = disk
    BY NothingWritten DEF Dispatching, Typed, Back, Path
  <2>3. Path(0) = disk
    BY <2>2, BackAtZero
  <2>4. Path(k)' = Back(0, k)
    BY <2>1, <2>3 DEF Back
  <2>5. Path(k)' = [f \in Files |-> Path(k)[f]]'
    <3>1. At(op'.todo, k, disk') = [f \in Files |-> At(op'.todo, k, disk')[f]]
      BY AtIsFunction
    <3> QED BY <3>1 DEF Path
  <2>6. At(op'.undo, 0, Path(k)') = Path(k)'
    BY <2>5, AtZero
  <2> QED BY <2>4, <2>6 DEF Back
<1>6. ASSUME NEW p \in Ahead'
      PROVE  /\ p[1] \in 0 .. Len(op.undo) /\ p[2] = 0 /\ <<0, p[1]>> \in Ahead
             /\ Back(p[1], p[2])' = Back(0, p[1])
             /\ Exposed(p[1], p[2])' = (p[1] < Len(op.undo))
             /\ Over(p[1], p[2])' = (p[1] = Len(op.undo))
  <2>1. p[1] \in 0 .. Len(op.undo) /\ p[2] = 0
    BY <1>2, <1>6 DEF Ahead
  <2>2. <<0, p[1]>> \in Ahead
    BY <2>1, <1>3 DEF Ahead
  <2>3. Exposed(p[1], p[2])' = (p[1] < Len(op.undo))
    BY <1>2 DEF Exposed
  <2>4. Over(p[1], p[2])' = (p[1] = Len(op.undo))
    BY <1>2, <2>1 DEF Over
  <2> QED BY <1>5, <2>1, <2>2, <2>3, <2>4
<1>7. \A p \in Ahead' : Sound(Back(p[1], p[2]))'
  BY <1>6 DEF Dispatching
<1>8. Held'
  <2>1. SUFFICES ASSUME NEW w \in Workers, NEW p \in Ahead'
                 PROVE  (\/ Holds(Back(p[1], p[2]), w)
                         \/ <<w, TRUE>> \in torn
                         \/ w = op.worker /\ Exposed(p[1], p[2]))'
    BY DEF Held
  <2>2. \/ Holds(Back(0, p[1]), w)
        \/ <<w, TRUE>> \in torn
        \/ w = op.worker /\ Exposed(0, p[1])
    BY <1>6 DEF Dispatching, Held
  <2>3. Exposed(0, p[1]) => p[1] < Len(op.undo)
    BY <1>3, <1>6 DEF Exposed
  <2> QED BY <1>1, <1>2, <1>6, <2>2, <2>3
<1>9. Vain'
  <2>1. ASSUME NEW w \in Workers \ Torn', NEW p \in Ahead'
        PROVE  (Needed(Back(p[1], p[2]), w) \/ (w = op.worker /\ ~Over(p[1], p[2])))'
    <3>1. w \in Workers \ Torn
      BY <1>1 DEF Torn
    <3>2. Needed(Back(0, p[1]), w) \/ (w = op.worker /\ ~Over(0, p[1]))
      BY <1>6, <3>1 DEF Dispatching, Vain
    <3>3. ~Over(0, p[1]) => p[1] # Len(op.undo)
      BY <1>3 DEF Over
    <3> QED BY <1>2, <1>6, <3>2, <3>3
  <2> QED BY <2>1, <1>2 DEF Vain
<1>10. Stepwise'
  <2>1. ASSUME NEW k \in 1 .. Len(op'.todo) PROVE InOrder(Back(k - 1, 0), Back(k, 0))'
    <3>1. InOrder(Back(0, k - 1), Back(0, k))
      <4>1. k \in 1 .. Len(op.undo) /\ 0 \in 0 .. Len(op.todo)
        BY <1>2, <1>3
      <4> QED BY <4>1 DEF Dispatching, Stepwise
    <3>2. Back(k - 1, 0)' = Back(0, k - 1) /\ Back(k, 0)' = Back(0, k)
      BY <1>5
    <3> QED BY <3>1, <3>2
  <2> QED BY <2>1, <1>2 DEF Stepwise
<1>11. Formed'
  <2>1. Once(op'.todo) /\ Once(op'.undo)
    BY <1>2 DEF Dispatching, Formed, Once
  <2>2. op'.todo # <<>>
    BY <1>2
  <2> QED BY <1>2, <2>1, <2>2 DEF Formed
<1> QED BY <1>4, <1>7, <1>8, <1>9, <1>10, <1>11 DEF Dispatching

\* A process that dies, and a write that fails in a command that puts nothing back.
LEMMA CrashKeeps ==
    ASSUME Dispatching, Crash \/ (Fail /\ op.undo = <<>>)
    PROVE  Dispatching'
<1>1. /\ op' = Idle /\ torn' = torn \cup (({op.worker} \ {None}) \X {op.failed})
      /\ UNCHANGED <<disk, plan>> /\ op.todo # <<>>
  BY DEF Crash, Fail
<1>2. Len(op.todo) \in Nat \ {0} /\ Len(op.undo) \in Nat /\ op.failed \in BOOLEAN /\ op.worker \in Workers \cup {None}
  BY <1>1 DEF Dispatching, Typed
<1>3. Typed'
  <2>1. torn' \subseteq Workers \X BOOLEAN
    BY <1>1, <1>2 DEF Dispatching, Typed
  <2> QED BY <1>1, <2>1 DEF Dispatching, Typed, Idle
<1>4. Back(0, 0) = disk /\ <<0, 0>> \in Ahead
  <2>1. Back(0, 0) = disk
    BY NothingWritten DEF Dispatching, Typed, Back, Path
  <2> QED BY <2>1, <1>2 DEF Ahead
<1>5. Sound(disk)
  BY <1>4 DEF Dispatching
<1>6. ASSUME NEW w \in Workers PROVE Holds(disk, w) \/ <<w, TRUE>> \in torn'
  <2>1. Holds(disk, w) \/ <<w, TRUE>> \in torn \/ (w = op.worker /\ Exposed(0, 0))
    <3>1. <<0, 0>>[1] = 0 /\ <<0, 0>>[2] = 0
      OBVIOUS
    <3>2. \A p \in Ahead : Holds(Back(p[1], p[2]), w) \/ <<w, TRUE>> \in torn \/ (w = op.worker /\ Exposed(p[1], p[2]))
      BY DEF Dispatching, Held
    <3>3. Holds(Back(0, 0), w) \/ <<w, TRUE>> \in torn \/ (w = op.worker /\ Exposed(0, 0))
      BY <1>4, <3>1, <3>2
    <3> QED BY <1>4, <3>3
  <2>2. CASE w = op.worker /\ Exposed(0, 0)
    <3>1. op.failed = TRUE
      BY <1>2, <2>2 DEF Exposed
    <3>2. w # None
      BY DispatchAssumption
    <3> QED BY <1>1, <2>2, <3>1, <3>2
  <2> QED BY <1>1, <2>1, <2>2
<1>7. ASSUME NEW w \in Workers \ Torn' PROVE Needed(disk, w)
  <2>1. w \notin Torn
    BY <1>1, <1>7 DEF Torn
  <2>2. w # op.worker
    <3>1. SUFFICES ASSUME w = op.worker PROVE FALSE
      OBVIOUS
    <3>2. w # None
      BY DispatchAssumption
    <3>3. <<w, op.failed>> \in torn'
      BY <1>1, <3>1, <3>2
    <3>4. <<w, op.failed>>[1] = w
      OBVIOUS
    <3> QED BY <1>7, <3>3, <3>4 DEF Torn
  <2> QED BY <1>4, <2>1, <2>2 DEF Dispatching, Vain
<1>8. Resting'
  BY <1>1, <1>5, <1>6, <1>7 DEF Resting
<1> QED BY <1>1, <1>3, <1>8, ComesToRest

(***************************************************************************)
(* Commands that replace one document, and the planner.                    *)
(***************************************************************************)
LEMMA PutKeeps ==
    ASSUME Dispatching, NEW i \in Items, NEW item \in Item, Put(i, item)
    PROVE  Dispatching'
<1>1. op = Idle /\ op' = Idle /\ torn' = torn /\ plan' = plan
  BY DEF Put
<1>2. /\ disk' = [disk EXCEPT !.items[i] = item]
      /\ disk \in [items : ItemDocs, workers : WorkerDocs, resources : ResourceDocs, tasks : TaskDocs]
  BY DEF Put, Dispatching, Typed
<1>3. /\ disk' \in [items : ItemDocs, workers : WorkerDocs, resources : ResourceDocs, tasks : TaskDocs]
      /\ disk'.workers = disk.workers /\ disk'.resources = disk.resources /\ disk'.tasks = disk.tasks
  BY <1>2 DEF ItemDocs
<1>4. Typed'
  BY <1>1, <1>3 DEF Dispatching, Typed
<1>5. Resting
  BY <1>1, AtRest
<1>6. Resting'
  BY <1>1, <1>3, <1>5 DEF Resting, Sound, Holds, Needed, Torn
<1> QED BY <1>1, <1>4, <1>6, ComesToRest

LEMMA AttachKeeps ==
    ASSUME Dispatching, NEW w \in Workers, AttachInternalWorker(w)
    PROVE  Dispatching'
<1>1. op = Idle /\ op' = Idle /\ torn' = torn /\ plan' = plan
  BY DEF AttachInternalWorker
<1>2. /\ disk' = [disk EXCEPT !.workers[w].status = "active", !.workers[w].runtime = TRUE]
      /\ disk.workers[w] # None /\ disk.workers[w].status = "reserved"
      /\ disk \in [items : ItemDocs, workers : WorkerDocs, resources : ResourceDocs, tasks : TaskDocs]
  BY DEF AttachInternalWorker, Dispatching, Typed
<1>3. disk.workers[w] \in Worker
  BY <1>2 DEF WorkerDocs
<1>4. PICK x : x = [disk.workers[w] EXCEPT !.status = "active", !.runtime = TRUE]
  OBVIOUS
<1>5. /\ x \in Worker /\ x # None /\ Live(x) /\ x.item = disk.workers[w].item /\ x.task = disk.workers[w].task
      /\ x.claim = disk.workers[w].claim /\ x.units = disk.workers[w].units
  <2>1. x \in Worker
    BY <1>3, <1>4 DEF Worker
  <2>2. x # None
    BY <2>1, DispatchAssumption
  <2>3. /\ x.status = "active" /\ x.item = disk.workers[w].item /\ x.task = disk.workers[w].task
        /\ x.claim = disk.workers[w].claim /\ x.units = disk.workers[w].units
    BY <1>3, <1>4 DEF Worker
  <2> QED BY <2>1, <2>2, <2>3 DEF Live, Ended
<1>6. /\ disk'.workers = [disk.workers EXCEPT ![w] = x]
      /\ disk'.items = disk.items /\ disk'.resources = disk.resources /\ disk'.tasks = disk.tasks
      /\ disk' \in [items : ItemDocs, workers : WorkerDocs, resources : ResourceDocs, tasks : TaskDocs]
  <2>1. disk' = [disk EXCEPT !.workers = [disk.workers EXCEPT ![w] = x]]
    BY <1>2, <1>3, <1>4 DEF WorkerDocs
  <2>2. [disk.workers EXCEPT ![w] = x] \in WorkerDocs
    BY <1>2, <1>5 DEF WorkerDocs
  <2> QED BY <1>2, <2>1, <2>2
<1>7. \A v \in Workers : disk'.workers[v] = IF v = w THEN x ELSE disk.workers[v]
  BY <1>2, <1>6 DEF WorkerDocs
<1>8. Typed'
  BY <1>1, <1>6 DEF Dispatching, Typed
<1>9. Resting
  BY <1>1, AtRest
<1>10. Live(disk.workers[w])
  BY <1>2 DEF Live, Ended
<1>11. Matched(disk.workers, disk.tasks)
  BY <1>9 DEF Resting, Sound
<1>12. Sound(disk')
  <2>1. \A u, v \in Workers : Live(disk'.workers[u]) /\ Live(disk'.workers[v])
                              /\ disk'.workers[u].item = disk'.workers[v].item => u = v
    BY <1>5, <1>7, <1>10, <1>11 DEF Matched
  <2>2. \A v \in Workers : disk'.workers[v] # None /\ disk'.workers[v].task # None =>
          LET task == disk'.tasks[disk'.workers[v].task]
          IN task # None /\ task.worker = v /\ task.item = disk'.workers[v].item
             /\ task.claim = disk'.workers[v].claim
    <3>1. \A v \in Workers : /\ disk'.workers[v] = None <=> disk.workers[v] = None
                            /\ disk'.workers[v].task = disk.workers[v].task
                            /\ disk'.workers[v].item = disk.workers[v].item
                            /\ disk'.workers[v].claim = disk.workers[v].claim
      BY <1>2, <1>5, <1>7
    <3>2. \A v \in Workers : disk.workers[v] # None /\ disk.workers[v].task # None =>
            LET task == disk.tasks[disk.workers[v].task]
            IN task # None /\ task.worker = v /\ task.item = disk.workers[v].item
               /\ task.claim = disk.workers[v].claim
      BY <1>11 DEF Matched
    <3> QED BY <1>6, <3>1, <3>2
  <2>3. \A t \in Tasks : disk'.tasks[t] # None /\ disk'.tasks[t].worker # None =>
          disk'.workers[disk'.tasks[t].worker] # None
    <3>1. \A t \in Tasks : disk.tasks[t] # None /\ disk.tasks[t].worker # None => disk.tasks[t].worker \in Workers
      BY <1>2 DEF TaskDocs, Task
    <3> QED BY <1>5, <1>6, <1>7, <1>11, <3>1 DEF Matched
  <2> QED BY <2>1, <2>2, <2>3 DEF Sound, Matched
<1>13. ASSUME NEW v \in Workers PROVE Holds(disk', v) \/ <<v, TRUE>> \in torn'
  BY <1>1, <1>5, <1>6, <1>7, <1>9, <1>10 DEF Resting, Holds, Supplied
<1>14. ASSUME NEW v \in Workers \ Torn' PROVE Needed(disk', v)
  <2>1. v \in Workers \ Torn
    BY <1>1 DEF Torn
  <2> QED BY <1>5, <1>6, <1>7, <1>9, <2>1 DEF Resting, Needed, Wanted
<1>15. Resting'
  BY <1>12, <1>13, <1>14 DEF Resting
<1> QED BY <1>1, <1>8, <1>15, ComesToRest

\* Nothing the invariant speaks of changes.
LEMMA StandStill ==
    ASSUME Dispatching, UNCHANGED <<disk, op, torn>>, plan' # None => plan'.id \in Nat
    PROVE  Dispatching'
<1>1. Typed'
  BY DEF Dispatching, Typed
<1>2. Formed'
  BY DEF Dispatching, Formed
<1>3. \A k, m : Back(k, m)' = Back(k, m)
  BY DEF Back, Path
<1>4. Ahead' = Ahead /\ Torn' = Torn /\ (\A k, m : (Over(k, m)' <=> Over(k, m)) /\ (Exposed(k, m)' <=> Exposed(k, m)))
  BY DEF Ahead, Torn, Over, Exposed
<1>5. (\A p \in Ahead : Sound(Back(p[1], p[2])))'
  BY <1>3, <1>4 DEF Dispatching
<1>6. Held'
  BY <1>3, <1>4 DEF Dispatching, Held
<1>7. Vain'
  BY <1>3, <1>4 DEF Dispatching, Vain
<1>8. Stepwise'
  BY <1>3 DEF Dispatching, Stepwise, Spares
<1> QED BY <1>1, <1>2, <1>5, <1>6, <1>7, <1>8 DEF Dispatching

(***************************************************************************)
(* Commands of several writes.                                             *)
(***************************************************************************)
\* What has to be known of a command about worker w when it begins.
FitsAt(s, u, w, k, m) ==
    LET docs == At(u, m, At(s, k, disk))
    IN /\ Sound(docs)
       /\ \A v \in Workers : Holds(docs, v) \/ <<v, TRUE>> \in torn \/ (v = w /\ m > 0 /\ m < Len(u))
       /\ \A v \in Workers \ Torn :
             Needed(docs, v) \/ (v = w /\ ~(IF m = 0 THEN k = Len(s) ELSE m = Len(u)))
       /\ m > 0 => InOrder(At(u, m - 1, At(s, k, disk)), docs)
Fits(s, u, w) ==
    /\ s \in Seq(Writes) /\ u \in Seq(Writes) /\ Once(s) /\ Once(u)
    /\ s # <<>> /\ s[Len(s)].file \notin Files
    /\ \A k \in 0 .. Len(s), m \in 0 .. Len(u) : FitsAt(s, u, w, k, m)
    /\ w # None /\ (\A k \in DOMAIN s : s[k].file # "refused") => Needed(At(s, Len(s), disk), w)
    /\ \A k \in 1 .. Len(s) :
          /\ InOrder(At(s, k - 1, disk), At(s, k, disk))
          /\ w # None /\ s[k].file = "items" =>
                \A i \in Items : At(s, k - 1, disk).items[i].live /\ ~At(s, k, disk).items[i].live =>
                    /\ At(s, k - 1, disk).workers[w].item = i
                    /\ At(s, k - 1, disk).workers[w].claim = At(s, k - 1, disk).items[i].claim

LEMMA BeginKeeps ==
    ASSUME Dispatching, NEW s, NEW u, NEW i \in Items, NEW w \in Workers \cup {None},
           Begin(s, u, i, w), Fits(s, u, w)
    PROVE  Dispatching'
<1>1. /\ op' = [todo |-> s, undo |-> u, item |-> i, worker |-> w, failed |-> FALSE]
      /\ UNCHANGED <<disk, plan, torn>>
  BY DEF Begin
<1>2. op'.todo = s /\ op'.undo = u /\ op'.worker = w /\ op'.failed = FALSE /\ op'.item = i
  BY <1>1
<1>3. s \in Seq(Writes) /\ u \in Seq(Writes) /\ Once(s) /\ Once(u) /\ s # <<>> /\ s[Len(s)].file \notin Files
  BY DEF Fits
<1>4. Len(s) \in Nat \ {0} /\ Len(u) \in Nat
  BY <1>3
<1>5. Typed'
  BY <1>1, <1>3 DEF Dispatching, Typed
<1>6. Formed'
  <2>1. Once(op'.todo) /\ Once(op'.undo)
    BY <1>2, <1>3 DEF Once
  <2> QED BY <1>2, <1>3, <2>1 DEF Formed
<1>7. ASSUME NEW k, NEW m PROVE Back(k, m)' = At(u, m, At(s, k, disk))
  BY <1>1, <1>2 DEF Back, Path
<1>8. ASSUME NEW k PROVE Back(k, 0)' = At(s, k, disk)
  <2>1. At(s, k, disk) = [f \in Files |-> At(s, k, disk)[f]]
    BY AtIsFunction
  <2>2. At(u, 0, At(s, k, disk)) = At(s, k, disk)
    BY <2>1, AtZero
  <2> QED BY <1>7, <2>2
<1>9. Ahead' = (0 .. Len(s)) \X (0 .. Len(u))
  BY <1>2 DEF Ahead
<1>10. ASSUME NEW p \in Ahead'
       PROVE  p[1] \in 0 .. Len(s) /\ p[2] \in 0 .. Len(u) /\ FitsAt(s, u, w, p[1], p[2])
              /\ Back(p[1], p[2])' = At(u, p[2], At(s, p[1], disk))
  <2>1. p[1] \in 0 .. Len(s) /\ p[2] \in 0 .. Len(u)
    BY <1>9
  <2> QED BY <1>7, <2>1 DEF Fits
<1>11. \A p \in Ahead' : Sound(Back(p[1], p[2]))'
  BY <1>10 DEF FitsAt
<1>12. Held'
  <2>1. SUFFICES ASSUME NEW v \in Workers, NEW p \in Ahead'
                 PROVE  (\/ Holds(Back(p[1], p[2]), v)
                         \/ <<v, TRUE>> \in torn
                         \/ v = op.worker /\ Exposed(p[1], p[2]))'
    BY DEF Held
  <2>2. \/ Holds(At(u, p[2], At(s, p[1], disk)), v)
        \/ <<v, TRUE>> \in torn
        \/ v = w /\ p[2] > 0 /\ p[2] < Len(u)
    BY <1>10 DEF FitsAt
  <2>3. p[2] > 0 /\ p[2] < Len(u) => Exposed(p[1], p[2])'
    BY <1>2 DEF Exposed
  <2> QED BY <1>1, <1>2, <1>10, <2>2, <2>3
<1>13. Vain'
  <2>1. ASSUME NEW v \in Workers \ Torn', NEW p \in Ahead'
        PROVE  (Needed(Back(p[1], p[2]), v) \/ (v = op.worker /\ ~Over(p[1], p[2])))'
    <3>1. v \in Workers \ Torn
      BY <1>1 DEF Torn
    <3>2. \/ Needed(At(u, p[2], At(s, p[1], disk)), v)
          \/ v = w /\ ~(IF p[2] = 0 THEN p[1] = Len(s) ELSE p[2] = Len(u))
      BY <1>10, <3>1 DEF FitsAt
    <3>3. ~(IF p[2] = 0 THEN p[1] = Len(s) ELSE p[2] = Len(u)) => ~Over(p[1], p[2])'
      BY <1>2 DEF Over
    <3> QED BY <1>2, <1>10, <3>2, <3>3
  <2>2. ASSUME op'.worker # None, \A k \in DOMAIN op'.todo : op'.todo[k].file # "refused"
        PROVE  Needed(Back(Len(op.todo), 0), op.worker)'
    <3>1. Needed(At(s, Len(s), disk), w)
      BY <1>2, <2>2 DEF Fits
    <3>2. Back(Len(s), 0)' = At(s, Len(s), disk)
      BY <1>8
    <3>3. Back(Len(op.todo), 0)' = Back(Len(s), 0)'
      BY <1>2 DEF Back, Path
    <3> QED BY <1>2, <3>1, <3>2, <3>3
  <2> QED BY <2>1, <2>2 DEF Vain
<1>14. Stepwise'
  <2>1. ASSUME op'.worker # None, NEW k \in 1 .. Len(op'.todo), op'.todo[k].file = "items"
        PROVE  Spares(Back(k - 1, 0), Back(k, 0))'
    <3>1. \A j \in Items : At(s, k - 1, disk).items[j].live /\ ~At(s, k, disk).items[j].live =>
              /\ At(s, k - 1, disk).workers[w].item = j
              /\ At(s, k - 1, disk).workers[w].claim = At(s, k - 1, disk).items[j].claim
      BY <1>2, <2>1 DEF Fits
    <3>2. Back(k - 1, 0)' = At(s, k - 1, disk) /\ Back(k, 0)' = At(s, k, disk)
      BY <1>8
    <3> QED BY <1>2, <3>1, <3>2 DEF Spares
  <2>2. ASSUME NEW k \in 1 .. Len(op'.todo) PROVE InOrder(Back(k - 1, 0), Back(k, 0))'
    <3>1. InOrder(At(s, k - 1, disk), At(s, k, disk))
      BY <1>2, <2>2 DEF Fits
    <3>2. Back(k - 1, 0)' = At(s, k - 1, disk) /\ Back(k, 0)' = At(s, k, disk)
      BY <1>8
    <3> QED BY <3>1, <3>2
  <2>3. ASSUME NEW k \in 0 .. Len(op'.todo), NEW m \in 1 .. Len(op'.undo)
        PROVE  InOrder(Back(k, m - 1), Back(k, m))'
    <3>1. FitsAt(s, u, w, k, m) /\ m > 0
      <4>1. k \in 0 .. Len(s) /\ m \in 0 .. Len(u) /\ m > 0
        BY <1>2, <1>4, <2>3
      <4> QED BY <4>1 DEF Fits
    <3>2. InOrder(At(u, m - 1, At(s, k, disk)), At(u, m, At(s, k, disk)))
      BY <3>1 DEF FitsAt
    <3>3. Back(k, m - 1)' = At(u, m - 1, At(s, k, disk)) /\ Back(k, m)' = At(u, m, At(s, k, disk))
      BY <1>7
    <3> QED BY <3>2, <3>3
  <2> QED BY <2>1, <2>2, <2>3 DEF Stepwise
<1> QED BY <1>5, <1>6, <1>11, <1>12, <1>13, <1>14 DEF Dispatching

(***************************************************************************)
(* Preparing a worker.                                                     *)
(***************************************************************************)
\* What a rollback of three documents has put back after m of its writes.
LEMMA PutBack ==
    ASSUME NEW f, NEW g, NEW h, f \in Files, g \in Files, h \in Files, f # g, f # h, g # h,
           disk \in [items : ItemDocs, workers : WorkerDocs, resources : ResourceDocs, tasks : TaskDocs],
           NEW docs, NEW m \in 0 .. 3
    PROVE  /\ Saved(<<f, g, h>>) \in Seq(Writes) /\ Len(Saved(<<f, g, h>>)) = 3 /\ Once(Saved(<<f, g, h>>))
           /\ \A x \in Files : At(Saved(<<f, g, h>>), m, docs)[x] =
                IF (x = f /\ m >= 1) \/ (x = g /\ m >= 2) \/ (x = h /\ m >= 3) THEN disk[x] ELSE docs[x]
<1>1. PICK u : u = Saved(<<f, g, h>>)
  OBVIOUS
<1>2. u = <<Document(f, disk[f]), Document(g, disk[g]), Document(h, disk[h])>>
  BY <1>1 DEF Saved
<1>3. \A x \in Files : Document(x, disk[x]) \in Writes
  BY DEF Document, Writes, Files
<1>4. u \in Seq(Writes) /\ Len(u) = 3
  BY <1>2, <1>3
<1>5. /\ u[1].file = f /\ u[1].content = disk[f] /\ u[2].file = g /\ u[2].content = disk[g]
      /\ u[3].file = h /\ u[3].content = disk[h]
  BY <1>2 DEF Document
<1>6. \A j \in DOMAIN u : j = 1 \/ j = 2 \/ j = 3
  BY <1>4
<1>7. Once(u)
  BY <1>5, <1>6 DEF Once
<1>8. ASSUME NEW x \in Files
      PROVE  At(u, m, docs)[x] =
                IF (x = f /\ m >= 1) \/ (x = g /\ m >= 2) \/ (x = h /\ m >= 3) THEN disk[x] ELSE docs[x]
  <2>1. CASE \E j \in 1 .. m : u[j].file = x
    <3>1. PICK j \in 1 .. m : u[j].file = x /\ At(u, m, docs)[x] = u[j].content
      BY <2>1, AtCases
    <3>2. j = 1 \/ j = 2 \/ j = 3
      OBVIOUS
    <3> QED BY <1>5, <3>1, <3>2
  <2>2. CASE ~ \E j \in 1 .. m : u[j].file = x
    <3>1. At(u, m, docs)[x] = docs[x]
      BY <2>2, AtCases
    <3>2. /\ m >= 1 => u[1].file # x
          /\ m >= 2 => u[2].file # x
          /\ m >= 3 => u[3].file # x
      BY <2>2
    <3> QED BY <1>5, <3>1, <3>2
  <2> QED BY <2>1, <2>2
<1> QED BY <1>1, <1>4, <1>7, <1>8

\* The documents after the writes of a preparation.
LEMMA PutForth ==
    ASSUME NEW I \in ItemDocs, NEW R \in ResourceDocs, NEW C \in WorkerDocs, NEW docs,
           NEW s, s = <<Document("items", I), Document("resources", R), Document("workers", C), Event>>
    PROVE  /\ s \in Seq(Writes) /\ Len(s) = 4 /\ Once(s) /\ s # <<>> /\ s[Len(s)].file \notin Files
           /\ s[1].file = "items" /\ s[2].file = "resources" /\ s[3].file = "workers" /\ s[4].file = "events"
           /\ \A k \in 0 .. 4 :
                /\ At(s, k, docs)["items"] = IF k >= 1 THEN I ELSE docs["items"]
                /\ At(s, k, docs)["resources"] = IF k >= 2 THEN R ELSE docs["resources"]
                /\ At(s, k, docs)["workers"] = IF k >= 3 THEN C ELSE docs["workers"]
                /\ At(s, k, docs)["tasks"] = docs["tasks"]
<1>1. /\ Document("items", I) \in Writes /\ Document("resources", R) \in Writes
      /\ Document("workers", C) \in Writes /\ Event \in Writes
  BY DEF Document, Event, Writes
<1>2. s \in Seq(Writes) /\ Len(s) = 4
  BY <1>1
<1>3. /\ s[1].file = "items" /\ s[1].content = I /\ s[2].file = "resources" /\ s[2].content = R
      /\ s[3].file = "workers" /\ s[3].content = C /\ s[4].file = "events"
  BY DEF Document, Event
<1>4. \A j \in DOMAIN s : j = 1 \/ j = 2 \/ j = 3 \/ j = 4
  BY <1>2
<1>5. Once(s)
  BY <1>3, <1>4 DEF Once
<1>6. ASSUME NEW k \in 0 .. 4, NEW x \in Files
      PROVE  At(s, k, docs)[x] = IF x = "items" /\ k >= 1 THEN I
                                 ELSE IF x = "resources" /\ k >= 2 THEN R
                                 ELSE IF x = "workers" /\ k >= 3 THEN C ELSE docs[x]
  <2>1. CASE \E j \in 1 .. k : s[j].file = x
    <3>1. PICK j \in 1 .. k : s[j].file = x /\ At(s, k, docs)[x] = s[j].content
      BY <2>1, AtCases
    <3>2. j = 1 \/ j = 2 \/ j = 3 \/ j = 4
      OBVIOUS
    <3>3. x # "events"
      BY <1>6 DEF Files
    <3> QED BY <1>3, <3>1, <3>2, <3>3
  <2>2. CASE ~ \E j \in 1 .. k : s[j].file = x
    <3>1. At(s, k, docs)[x] = docs[x]
      BY <2>2, AtCases
    <3>2. /\ k >= 1 => s[1].file # x
          /\ k >= 2 => s[2].file # x
          /\ k >= 3 => s[3].file # x
      BY <2>2
    <3> QED BY <1>3, <3>1, <3>2
  <2> QED BY <2>1, <2>2
<1>7. {"items", "workers", "resources", "tasks"} \subseteq Files /\ "events" \notin Files
  BY DEF Files
<1>8. s # <<>> /\ s[Len(s)].file \notin Files
  BY <1>2, <1>3, <1>7
<1> QED BY <1>2, <1>3, <1>5, <1>6, <1>7, <1>8

LEMMA PrepareKeeps ==
    ASSUME Dispatching, NEW i \in Items, NEW w \in Workers, NEW kind \in Kinds[i],
           PrepareWorkerDispatch(w, i, kind)
    PROVE  Dispatching'
<1>1. PICK worker : worker = [status |-> "reserved", item |-> i, claim |-> disk.items[i].claim + 1,
                              kind |-> kind, plan |-> plan.id, runtime |-> FALSE, task |-> None,
                              units |-> NeededUnits(disk.items, i)]
  OBVIOUS
<1> DEFINE c == disk.workers
           r == disk.resources
           t == disk.tasks
<1>2. PICK I : I = Claimed(disk.items, i)
  OBVIOUS
<1>3. PICK R : R = Reserved(disk.resources, w, i)
  OBVIOUS
<1>4. PICK C : C = [disk.workers EXCEPT ![w] = worker]
  OBVIOUS
<1>5. PICK s : s = <<Document("items", I), Document("resources", R), Document("workers", C), Event>>
  OBVIOUS
<1>6. PICK u : u = Saved(<<"resources", "workers", "items">>)
  OBVIOUS
<1>7. Begin(s, u, i, w)
  BY <1>1, <1>2, <1>3, <1>4, <1>5, <1>6 DEF PrepareWorkerDispatch
<1>8. /\ op = Idle /\ w \notin Torn /\ c[w] = None /\ Exists(i) /\ ~Working(i) /\ plan # None
      /\ Ready(Readiness(disk, i))
  BY DEF PrepareWorkerDispatch
<1>9. /\ disk \in [items : ItemDocs, workers : WorkerDocs, resources : ResourceDocs, tasks : TaskDocs]
      /\ c \in WorkerDocs /\ r \in ResourceDocs /\ t \in TaskDocs /\ disk.items \in ItemDocs /\ plan.id \in Nat
  BY <1>8 DEF Dispatching, Typed
<1>10. disk.items[i] \in Item /\ disk.items[i].claim \in Nat /\ NeededUnits(disk.items, i) \in Nat
  <2>1. disk.items[i] \in Item
    BY <1>9 DEF ItemDocs
  <2>2. disk.items[i].stage \in Stages /\ disk.items[i].claim \in Nat
    BY <1>8, <2>1 DEF Item, Exists
  <2> QED BY <2>1, <2>2, DispatchAssumption DEF NeededUnits
<1>11. /\ worker \in Worker /\ worker # None /\ Live(worker) /\ worker.item = i /\ worker.task = None
       /\ worker.units = NeededUnits(disk.items, i)
  <2>1. kind \in {"internal-subagent", "user-task"}
    BY DispatchAssumption
  <2>2. worker \in Worker
    BY <1>1, <1>9, <1>10, <2>1 DEF Worker
  <2>3. worker # None
    BY <2>2, DispatchAssumption
  <2>4. worker.status = "reserved" /\ worker.item = i /\ worker.task = None
        /\ worker.units = NeededUnits(disk.items, i)
    BY <1>1
  <2> QED BY <2>2, <2>3, <2>4 DEF Live, Ended
<1>12. /\ C \in WorkerDocs
       /\ \A v \in Workers : C[v] = IF v = w THEN worker ELSE c[v]
  BY <1>4, <1>9, <1>11 DEF WorkerDocs
<1>13. /\ R \in ResourceDocs
       /\ \A v \in Workers : v # w => R[v] = r[v]
       /\ R[w].state = IF worker.units > 0 THEN "active" ELSE "none"
       /\ R[w].units = worker.units
  <2>1. PICK y : y = [state |-> IF NeededUnits(disk.items, i) > 0 THEN "active" ELSE "none",
                      units |-> NeededUnits(disk.items, i), item |-> i]
    OBVIOUS
  <2>2. y \in Resource
    BY <1>10, <2>1 DEF Resource
  <2>3. R = [r EXCEPT ![w] = y]
    BY <1>3, <2>1 DEF Reserved
  <2>4. y.state = (IF worker.units > 0 THEN "active" ELSE "none") /\ y.units = worker.units
    BY <1>11, <2>1
  <2> QED BY <1>9, <2>2, <2>3, <2>4 DEF ResourceDocs
<1>14. /\ I \in ItemDocs
       /\ \A j \in Items : /\ I[j].stage = disk.items[j].stage /\ I[j].named = disk.items[j].named
                           /\ disk.items[j].live => I[j].live
  <2>1. PICK y : y = [disk.items[i] EXCEPT !.claim = @ + 1, !.live = TRUE]
    OBVIOUS
  <2>2. y \in Item /\ y.stage = disk.items[i].stage /\ y.named = disk.items[i].named /\ y.live = TRUE
    <3>1. disk.items[i].claim + 1 \in Nat
      BY <1>10
    <3>2. y = [[disk.items[i] EXCEPT !.claim = disk.items[i].claim + 1] EXCEPT !.live = TRUE]
      BY <2>1
    <3> QED BY <1>10, <3>1, <3>2 DEF Item
  <2>3. I = [disk.items EXCEPT ![i] = y]
    BY <1>2, <1>9, <1>10, <2>1 DEF Claimed, ItemDocs
  <2> QED BY <1>9, <2>2, <2>3 DEF ItemDocs
<1>15. /\ s \in Seq(Writes) /\ Len(s) = 4 /\ Once(s) /\ s # <<>> /\ s[Len(s)].file \notin Files
       /\ s[1].file = "items" /\ s[2].file = "resources" /\ s[3].file = "workers" /\ s[4].file = "events"
       /\ \A k \in 0 .. 4 :
            /\ At(s, k, disk)["items"] = IF k >= 1 THEN I ELSE disk["items"]
            /\ At(s, k, disk)["resources"] = IF k >= 2 THEN R ELSE disk["resources"]
            /\ At(s, k, disk)["workers"] = IF k >= 3 THEN C ELSE disk["workers"]
            /\ At(s, k, disk)["tasks"] = disk["tasks"]
  BY <1>5, <1>12, <1>13, <1>14, PutForth
<1>16. u \in Seq(Writes) /\ Len(u) = 3 /\ Once(u)
  <2>1. "resources" \in Files /\ "workers" \in Files /\ "items" \in Files /\ 0 \in 0 .. 3
    BY DEF Files
  <2> QED BY <1>6, <1>9, <2>1, PutBack
<1>17. ASSUME NEW k \in 0 .. 4, NEW m \in 0 .. 3
       PROVE  /\ At(u, m, At(s, k, disk)).workers = IF k >= 3 /\ m < 2 THEN C ELSE c
              /\ At(u, m, At(s, k, disk)).resources = IF k >= 2 /\ m < 1 THEN R ELSE r
              /\ At(u, m, At(s, k, disk)).tasks = t
  <2>1. "resources" \in Files /\ "workers" \in Files /\ "items" \in Files /\ "tasks" \in Files
    BY DEF Files
  <2>2. \A x \in Files : At(u, m, At(s, k, disk))[x] =
          IF (x = "resources" /\ m >= 1) \/ (x = "workers" /\ m >= 2) \/ (x = "items" /\ m >= 3)
          THEN disk[x] ELSE At(s, k, disk)[x]
    BY <1>6, <1>9, <2>1, PutBack
  <2> QED BY <1>15, <2>1, <2>2
<1>18. Resting
  BY <1>8, AtRest
<1>19. Matched(c, t) /\ Matched(C, t)
  <2>1. Matched(c, t)
    BY <1>18 DEF Resting, Sound
  <2>2. \A v \in Workers : Live(c[v]) => c[v].item # i
    BY <1>8 DEF Working, Alive, Live
  <2>3. \A x, v \in Workers : Live(C[x]) /\ Live(C[v]) /\ C[x].item = C[v].item => x = v
    BY <1>11, <1>12, <2>1, <2>2 DEF Matched
  <2>4. \A v \in Workers : C[v] # None /\ C[v].task # None =>
          LET task == t[C[v].task]
          IN task # None /\ task.worker = v /\ task.item = C[v].item /\ task.claim = C[v].claim
    <3>1. \A v \in Workers : c[v] # None /\ c[v].task # None =>
            LET task == t[c[v].task]
            IN task # None /\ task.worker = v /\ task.item = c[v].item /\ task.claim = c[v].claim
      BY <2>1 DEF Matched
    <3> QED BY <1>11, <1>12, <3>1
  <2>5. \A x \in Tasks : t[x] # None /\ t[x].worker # None => C[t[x].worker] # None
    <3>1. \A x \in Tasks : t[x] # None /\ t[x].worker # None => t[x].worker \in Workers
      BY <1>9 DEF TaskDocs, Task
    <3> QED BY <1>11, <1>12, <2>1, <3>1 DEF Matched
  <2> QED BY <2>1, <2>3, <2>4, <2>5 DEF Matched
<1>20. ASSUME NEW k \in 0 .. 4, NEW m \in 0 .. 3
       PROVE  FitsAt(s, u, w, k, m)
  <2>1. PICK d : d = At(u, m, At(s, k, disk))
    OBVIOUS
  <2>2. /\ d.workers = IF k >= 3 /\ m < 2 THEN C ELSE c
        /\ d.resources = IF k >= 2 /\ m < 1 THEN R ELSE r
        /\ d.tasks = t
    BY <1>17, <2>1
  <2>3. Sound(d)
    BY <1>19, <2>2 DEF Sound
  <2>4. \A v \in Workers \ {w} : d.workers[v] = c[v] /\ d.resources[v] = r[v]
    BY <1>12, <1>13, <2>2
  <2>5. ASSUME NEW v \in Workers
        PROVE  Holds(d, v) \/ <<v, TRUE>> \in torn \/ (v = w /\ m > 0 /\ m < 3)
    <3>1. CASE v # w
      BY <1>18, <2>4, <3>1 DEF Resting, Holds
    <3>2. CASE v = w /\ d.workers = c
      BY <1>8, <3>2 DEF Holds, Supplied, Live
    <3>3. CASE v = w /\ d.workers # c
      <4>1. k >= 3 /\ m < 2 /\ d.workers[w] = worker
        BY <1>12, <2>2, <3>3
      <4>2. m = 0 => d.resources = R
        BY <2>2, <4>1
      <4> QED BY <1>13, <3>3, <4>1, <4>2 DEF Holds, Supplied
    <3> QED BY <3>1, <3>2, <3>3
  <2>6. ASSUME NEW v \in Workers \ Torn
        PROVE  Needed(d, v) \/ (v = w /\ ~(IF m = 0 THEN k = 4 ELSE m = 3))
    <3>1. Needed(disk, v)
      BY <1>18 DEF Resting
    <3>2. CASE v # w
      BY <2>4, <3>1, <3>2 DEF Needed
    <3>3. CASE v = w /\ m = 3
      BY <2>2, <3>1, <3>3 DEF Needed
    <3>4. CASE v = w /\ m = 0 /\ k = 4
      BY <1>11, <1>12, <2>2, <3>4 DEF Needed, Wanted
    <3> QED BY <3>2, <3>3, <3>4
  <2>7. ASSUME m > 0 PROVE InOrder(At(u, m - 1, At(s, k, disk)), d)
    <3>1. PICK e : e = At(u, m - 1, At(s, k, disk))
      OBVIOUS
    <3>2. m - 1 \in 0 .. 3
      BY <2>7
    <3>3. e.workers = IF k >= 3 /\ m - 1 < 2 THEN C ELSE c
      BY <1>17, <3>1, <3>2
    <3>4. \A v \in Workers : e.workers[v] = None => d.workers[v] = None
      BY <1>8, <1>11, <1>12, <2>2, <3>3
    <3>5. InOrder(e, d)
      BY <3>4 DEF InOrder
    <3> QED BY <3>1, <3>5
  <2> QED BY <1>15, <1>16, <2>1, <2>3, <2>5, <2>6, <2>7 DEF FitsAt
<1>21. Needed(At(s, Len(s), disk), w)
  <2>1. At(s, 4, disk)["workers"] = C
    BY <1>15
  <2> QED BY <1>11, <1>12, <1>15, <2>1 DEF Needed, Wanted
<1>22. ASSUME NEW k \in 1 .. 4
       PROVE  InOrder(At(s, k - 1, disk), At(s, k, disk))
  <2>1. PICK d : d = At(s, k - 1, disk)
    OBVIOUS
  <2>2. PICK e : e = At(s, k, disk)
    OBVIOUS
  <2>3. /\ d["workers"] = (IF k - 1 >= 3 THEN C ELSE c) /\ d["items"] = (IF k - 1 >= 1 THEN I ELSE disk["items"])
        /\ e["workers"] = (IF k >= 3 THEN C ELSE c)
    <3>1. k - 1 \in 0 .. 4 /\ k \in 0 .. 4
      OBVIOUS
    <3> QED BY <1>15, <2>1, <2>2, <3>1
  <2>4. ASSUME NEW v \in Workers, d.workers[v] = None, e.workers[v] # None
        PROVE  v = w /\ e.workers[v].item = i /\ d.workers = c /\ d.items = I
    BY <1>11, <1>12, <2>3, <2>4
  <2>5. Settled(I, i) /\ Overlaps(I, i) \subseteq I[i].named
    <3>1. Readiness(disk, i).dependencies_resolved /\ Readiness(disk, i).overlap_resolved
      BY <1>8 DEF Ready, Readiness
    <3>2. Settled(disk.items, i) /\ Overlaps(disk.items, i) \subseteq disk.items[i].named
      BY <3>1 DEF Readiness
    <3>3. Settled(I, i)
      <4>1. Deps[i] \subseteq Items
        BY DispatchAssumption
      <4> QED BY <1>14, <3>2, <4>1 DEF Settled
    <3>4. Overlaps(I, i) = Overlaps(disk.items, i)
      BY <1>14 DEF Overlaps, Open
    <3> QED BY <1>14, <3>2, <3>3, <3>4
  <2>6. InOrder(d, e)
    BY <2>4, <2>5 DEF InOrder
  <2> QED BY <2>1, <2>2, <2>6
<1>23. ASSUME NEW k \in 1 .. 4, s[k].file = "items", NEW j \in Items
       PROVE  At(s, k - 1, disk).items[j].live => At(s, k, disk).items[j].live
  <2>1. k = 1
    BY <1>15, <1>23
  <2>2. At(s, 0, disk)["items"] = disk["items"] /\ At(s, 1, disk)["items"] = I
    BY <1>15
  <2> QED BY <1>14, <2>1, <2>2
<1>24. Fits(s, u, w)
  BY <1>15, <1>16, <1>20, <1>21, <1>22, <1>23 DEF Fits
<1> QED BY <1>7, <1>24, BeginKeeps

(***************************************************************************)
(* Commands about a worker on record, and about tasks: first the task,     *)
(* then the worker, what it holds, the claim, and the event.               *)
(***************************************************************************)
Elements(s) == {s[j] : j \in DOMAIN s}
Wrote(s, f) == \E x \in Elements(s) : x.file = f
Rank == [f \in Files \cup {"refused", "events"} |->
           CASE f = "tasks" -> 1 [] f = "workers" -> 2 [] f = "resources" -> 3
             [] f = "items" -> 4 [] f = "refused" -> 5 [] OTHER -> 6]
Ranked(s) == \A j, k \in DOMAIN s : j < k => Rank[s[j].file] < Rank[s[k].file]

LEMMA Ranks ==
    /\ Rank["tasks"] = 1 /\ Rank["workers"] = 2 /\ Rank["resources"] = 3
    /\ Rank["items"] = 4 /\ Rank["refused"] = 5 /\ Rank["events"] = 6
    /\ \A x \in Writes : x.file \in Files \cup {"refused", "events"} /\ Rank[x.file] \in 1 .. 6
    /\ Event \in Writes /\ Event.file = "events" /\ "events" \notin Files
<1>1. /\ Rank["tasks"] = 1 /\ Rank["workers"] = 2 /\ Rank["resources"] = 3
      /\ Rank["items"] = 4 /\ Rank["refused"] = 5 /\ Rank["events"] = 6
  BY DEF Rank, Files
<1>2. \A x \in Writes : x.file \in Files \cup {"refused", "events"}
  BY DEF Writes, Files
<1>3. \A f \in Files \cup {"refused", "events"} : Rank[f] \in 1 .. 6
  BY <1>1 DEF Files
<1>4. Event \in Writes /\ Event.file = "events" /\ "events" \notin Files
  BY DEF Event, Document, Writes, Files
<1> QED BY <1>1, <1>2, <1>3, <1>4

LEMMA ListOfNone == <<>> \in Seq(Writes) /\ Ranked(<<>>) /\ Elements(<<>>) = {}
BY DEF Ranked, Elements

LEMMA ListOfOne ==
    ASSUME NEW x \in Writes
    PROVE  <<x>> \in Seq(Writes) /\ Ranked(<<x>>) /\ Elements(<<x>>) = {x}
<1>1. PICK s : s = <<x>>
  OBVIOUS
<1>2. s \in Seq(Writes) /\ DOMAIN s = {1} /\ s[1] = x
  BY <1>1
<1>3. Ranked(s) /\ Elements(s) = {x}
  BY <1>2 DEF Ranked, Elements
<1> QED BY <1>1, <1>2, <1>3

LEMMA Join ==
    ASSUME NEW s \in Seq(Writes), NEW t \in Seq(Writes), Ranked(s), Ranked(t),
           \A x \in Elements(s), y \in Elements(t) : Rank[x.file] < Rank[y.file]
    PROVE  s \o t \in Seq(Writes) /\ Ranked(s \o t) /\ Elements(s \o t) = Elements(s) \cup Elements(t)
<1>1. PICK q : q = s \o t
  OBVIOUS
<1>2. /\ q \in Seq(Writes) /\ Len(q) = Len(s) + Len(t)
      /\ \A j \in 1 .. Len(s) : q[j] = s[j]
      /\ \A j \in 1 .. Len(t) : q[Len(s) + j] = t[j]
  BY <1>1
<1>3. Len(s) \in Nat /\ Len(t) \in Nat /\ DOMAIN s = 1 .. Len(s) /\ DOMAIN t = 1 .. Len(t) /\ DOMAIN q = 1 .. Len(q)
  BY <1>2
<1>4. ASSUME NEW j \in DOMAIN q
      PROVE  \/ j \in DOMAIN s /\ q[j] = s[j]
             \/ j - Len(s) \in DOMAIN t /\ q[j] = t[j - Len(s)]
  <2>1. CASE j <= Len(s)
    BY <1>2, <1>3, <2>1
  <2>2. CASE j > Len(s)
    <3>1. j - Len(s) \in 1 .. Len(t) /\ Len(s) + (j - Len(s)) = j
      BY <1>2, <1>3, <2>2
    <3> QED BY <1>2, <1>3, <3>1
  <2> QED BY <1>2, <1>3, <2>1, <2>2
<1>5. Elements(q) = Elements(s) \cup Elements(t)
  <2>1. Elements(q) \subseteq Elements(s) \cup Elements(t)
    BY <1>4 DEF Elements
  <2>2. Elements(s) \subseteq Elements(q)
    <3>1. \A j \in DOMAIN s : j \in DOMAIN q /\ q[j] = s[j]
      BY <1>2, <1>3
    <3> QED BY <3>1 DEF Elements
  <2>3. Elements(t) \subseteq Elements(q)
    <3>1. \A j \in DOMAIN t : Len(s) + j \in DOMAIN q /\ q[Len(s) + j] = t[j]
      BY <1>2, <1>3
    <3> QED BY <3>1 DEF Elements
  <2> QED BY <2>1, <2>2, <2>3
<1>6. Ranked(q)
  <2>1. SUFFICES ASSUME NEW j \in DOMAIN q, NEW k \in DOMAIN q, j < k
                 PROVE  Rank[q[j].file] < Rank[q[k].file]
    BY DEF Ranked
  <2>2. j \in Int /\ k \in Int
    BY <1>2, <1>3
  <2>3. CASE j \in DOMAIN s /\ q[j] = s[j] /\ k \in DOMAIN s /\ q[k] = s[k]
    BY <2>1, <2>3 DEF Ranked
  <2>4. CASE j \in DOMAIN s /\ q[j] = s[j] /\ k - Len(s) \in DOMAIN t /\ q[k] = t[k - Len(s)]
    BY <2>4 DEF Elements
  <2>5. CASE j - Len(s) \in DOMAIN t /\ q[j] = t[j - Len(s)] /\ k - Len(s) \in DOMAIN t /\ q[k] = t[k - Len(s)]
    <3>1. j - Len(s) < k - Len(s)
      BY <1>3, <2>1, <2>2
    <3> QED BY <2>5, <3>1 DEF Ranked
  <2>6. CASE j - Len(s) \in DOMAIN t /\ k \in DOMAIN s
    BY <1>3, <2>1, <2>2, <2>6
  <2> QED BY <1>4, <2>3, <2>4, <2>5, <2>6
<1> QED BY <1>1, <1>2, <1>5, <1>6

\* The event comes last.
LEMMA WithEvent ==
    ASSUME NEW s \in Seq(Writes), Ranked(s), ~Wrote(s, "events"), NEW q, q = s \o <<Event>>
    PROVE  /\ q \in Seq(Writes) /\ Ranked(q) /\ q # <<>> /\ q[Len(q)].file \notin Files
           /\ Elements(q) = Elements(s) \cup {Event}
<1>1. <<Event>> \in Seq(Writes) /\ Ranked(<<Event>>) /\ Elements(<<Event>>) = {Event}
  BY Ranks, ListOfOne
<1>2. \A x \in Elements(s) : Rank[x.file] < Rank[Event.file]
  <2>1. SUFFICES ASSUME NEW x \in Elements(s) PROVE Rank[x.file] < 6
    BY Ranks
  <2>2. x \in Writes /\ x.file # "events"
    BY DEF Elements, Wrote
  <2>3. x.file \in {"tasks", "workers", "resources", "items", "refused"}
    BY <2>2, Ranks DEF Files
  <2> QED BY <2>3, Ranks
<1>3. q \in Seq(Writes) /\ Ranked(q) /\ Elements(q) = Elements(s) \cup {Event}
  BY <1>1, <1>2, Join
<1>4. Len(q) = Len(s) + 1 /\ q[Len(s) + 1] = Event
  BY <1>1, Ranks
<1>5. q # <<>>
  <2>1. Len(q) # 0
    BY <1>4
  <2> QED BY <2>1
<1> QED BY <1>3, <1>4, <1>5, Ranks

LEMMA RankedIsOnce ==
    ASSUME NEW s \in Seq(Writes), Ranked(s)
    PROVE  Once(s)
<1>1. SUFFICES ASSUME NEW j \in DOMAIN s, NEW k \in DOMAIN s, s[j].file = s[k].file PROVE j = k
  BY DEF Once
<1>2. Rank[s[j].file] \in Int /\ Rank[s[k].file] \in Int /\ j \in Int /\ k \in Int
  BY Ranks
<1>3. ~(j < k) /\ ~(k < j)
  BY <1>1, <1>2 DEF Ranked
<1> QED BY <1>2, <1>3

\* A command about w that leads from the documents c, r, t to C, R, T.
Carrying(s, w, C, R, T, I) ==
    LET c == disk.workers
        r == disk.resources
    IN /\ s \in Seq(Writes) /\ Ranked(s) /\ s # <<>> /\ s[Len(s)].file \notin Files
       /\ \A x \in Elements(s) : /\ x.file = "workers" => x.content = C
                                 /\ x.file = "resources" => x.content = R
                                 /\ x.file = "tasks" => x.content = T
                                 /\ x.file = "items" => x.content = I
       /\ T = disk.tasks \/ Wrote(s, "tasks")
       /\ Wrote(s, "resources") => Wrote(s, "workers")
       /\ w # None => w \in Workers /\ c[w] # None
       /\ w = None => ~Wrote(s, "workers") /\ ~Wrote(s, "items")
       /\ C = c \/ Wrote(s, "workers")
       /\ \A v \in Workers : v # w => C[v] = c[v] /\ R[v] = r[v]
       /\ Matched(c, T) /\ Matched(C, T)
       /\ w # None =>
            /\ C[w] # None
            /\ Live(C[w]) => Live(c[w]) /\ C[w].units = c[w].units
            /\ Wrote(s, "resources") => ~Live(C[w]) /\ R[w].state # "active"
            /\ IF Wrote(s, "refused") THEN ~Wrote(s, "workers")
               ELSE Live(C[w]) \/ r[w].state # "active" \/ Wrote(s, "resources")
       /\ Wrote(s, "items") =>
            /\ I = Released(disk.items, c[w].item) /\ c[w].item = C[w].item
            /\ c[w].claim = disk.items[c[w].item].claim /\ C[w].claim = c[w].claim

\* The documents under way.
LEMMA CarriedDocuments ==
    ASSUME NEW s, NEW w, NEW C, NEW R, NEW T, NEW I, Carrying(s, w, C, R, T, I),
           NEW k \in 0 .. Len(s), NEW d, d = At(s, k, disk)
    PROVE  /\ d.workers = disk.workers \/ (d.workers = C /\ Wrote(s, "workers") /\ d.tasks = T)
           /\ d.tasks = disk.tasks \/ d.tasks = T
           /\ \/ d.resources = disk.resources /\ (k = Len(s) => ~Wrote(s, "resources"))
              \/ d.resources = R /\ Wrote(s, "resources") /\ d.workers = C
           /\ k = Len(s) /\ Wrote(s, "workers") => d.workers = C
<1>1. /\ s \in Seq(Writes) /\ Ranked(s) /\ Once(s) /\ Len(s) \in Nat
      /\ \A j \in DOMAIN s : s[j] \in Elements(s)
  BY RankedIsOnce DEF Carrying, Elements
<1>2. "workers" \in Files /\ "resources" \in Files /\ "tasks" \in Files
  BY DEF Files
<1>3. \A j \in 1 .. k : j \in DOMAIN s
  BY <1>1
<1>4. ASSUME NEW f \in Files
      PROVE  \/ \E j \in 1 .. k : s[j].file = f /\ d[f] = s[j].content
             \/ (\A j \in 1 .. k : s[j].file # f) /\ d[f] = disk[f]
  BY <1>4, AtCases
<1>5. ASSUME NEW f, Wrote(s, f)
      PROVE  \E j \in DOMAIN s : s[j].file = f
  BY <1>5 DEF Wrote, Elements
<1>6. ASSUME NEW j \in DOMAIN s, NEW l \in DOMAIN s, Rank[s[l].file] < Rank[s[j].file]
      PROVE  l < j
  <2>1. Rank[s[l].file] \in Int /\ Rank[s[j].file] \in Int /\ j \in Int /\ l \in Int
    BY <1>1, Ranks
  <2>2. l # j /\ ~(j < l)
    BY <1>1, <1>6, <2>1 DEF Ranked
  <2> QED BY <2>1, <2>2
<1>7. d.tasks = disk.tasks \/ d.tasks = T
  BY <1>1, <1>2, <1>3, <1>4 DEF Carrying
<1>8. ASSUME NEW j \in 1 .. k, s[j].file = "workers"
      PROVE  d.workers = C /\ Wrote(s, "workers") /\ d.tasks = T
  <2>1. d.workers = C
    BY <1>1, <1>2, <1>3, <1>4, <1>8 DEF Carrying
  <2>2. Wrote(s, "workers")
    BY <1>1, <1>3, <1>8 DEF Wrote
  <2>3. CASE Wrote(s, "tasks")
    <3>1. PICK l \in DOMAIN s : s[l].file = "tasks"
      BY <1>5, <2>3
    <3>2. l < j
      BY <1>3, <1>6, <1>8, <3>1, Ranks
    <3>3. l \in 1 .. k
      BY <1>1, <3>1, <3>2
    <3> QED BY <1>1, <1>2, <1>3, <1>4, <2>1, <2>2, <3>1, <3>3 DEF Carrying
  <2>4. CASE ~Wrote(s, "tasks")
    <3>1. T = disk.tasks
      BY <2>4 DEF Carrying
    <3> QED BY <1>7, <2>1, <2>2, <3>1
  <2> QED BY <2>3, <2>4
<1>9. d.workers = disk.workers \/ (d.workers = C /\ Wrote(s, "workers") /\ d.tasks = T)
  BY <1>2, <1>4, <1>8
<1>10. ASSUME k = Len(s), Wrote(s, "workers") PROVE d.workers = C
  <2>1. PICK j \in DOMAIN s : s[j].file = "workers"
    BY <1>5, <1>10
  <2>2. j \in 1 .. k
    BY <1>1, <1>10
  <2> QED BY <1>8, <2>1, <2>2
<1>11. \/ d.resources = disk.resources /\ (k = Len(s) => ~Wrote(s, "resources"))
       \/ d.resources = R /\ Wrote(s, "resources") /\ d.workers = C
  <2>1. CASE \E j \in 1 .. k : s[j].file = "resources"
    <3>1. PICK j \in 1 .. k : s[j].file = "resources"
      BY <2>1
    <3>2. d.resources = R
      BY <1>1, <1>2, <1>3, <1>4, <3>1 DEF Carrying
    <3>3. Wrote(s, "resources")
      BY <1>1, <1>3, <3>1 DEF Wrote
    <3>4. PICK l \in DOMAIN s : s[l].file = "workers"
      BY <1>5, <3>3 DEF Carrying
    <3>5. l < j
      BY <1>3, <1>6, <3>1, <3>4, Ranks
    <3>6. l \in 1 .. k
      BY <1>1, <3>4, <3>5
    <3> QED BY <1>8, <3>2, <3>3, <3>4, <3>6
  <2>2. CASE ~ \E j \in 1 .. k : s[j].file = "resources"
    <3>1. d.resources = disk.resources
      BY <1>2, <1>4, <2>2
    <3>2. ASSUME k = Len(s), Wrote(s, "resources") PROVE FALSE
      <4>1. PICK j \in DOMAIN s : s[j].file = "resources"
        BY <1>5, <3>2
      <4>2. j \in 1 .. k
        BY <1>1, <3>2
      <4> QED BY <2>2, <4>1, <4>2
    <3> QED BY <3>1, <3>2
  <2> QED BY <2>1, <2>2
<1> QED BY <1>7, <1>9, <1>10, <1>11

LEMMA CarryKeeps ==
    ASSUME Dispatching, NEW i \in Items, NEW w \in Workers \cup {None}, NEW s, NEW u,
           u = <<>> \/ u = TaskRollback, Begin(s, u, i, w),
           NEW C, NEW R, NEW T, NEW I, Carrying(s, w, C, R, T, I)
    PROVE  Dispatching'
<1> DEFINE c == disk.workers
           r == disk.resources
<1>1. /\ disk \in [items : ItemDocs, workers : WorkerDocs, resources : ResourceDocs, tasks : TaskDocs]
      /\ op = Idle
  BY DEF Dispatching, Typed, Begin
<1>2. /\ s \in Seq(Writes) /\ Ranked(s) /\ Once(s) /\ Len(s) \in Nat \ {0} /\ s # <<>>
      /\ s[Len(s)].file \notin Files
  BY RankedIsOnce DEF Carrying
<1>3. "workers" \in Files /\ "resources" \in Files /\ "tasks" \in Files /\ "items" \in Files
  BY DEF Files
<1>4. Resting
  BY <1>1, AtRest
<1>5. u \in Seq(Writes) /\ Once(u) /\ Len(u) \in 0 .. 3
  <2>1. CASE u = <<>>
    BY <2>1 DEF Once
  <2>2. CASE u = TaskRollback
    <3>1. 0 \in 0 .. 3
      OBVIOUS
    <3> QED BY <1>1, <1>3, <2>2, <3>1, PutBack DEF TaskRollback
  <2> QED BY <2>1, <2>2
<1>6. ASSUME NEW m \in 0 .. Len(u), NEW d, d = [f \in Files |-> d[f]], NEW e, e = At(u, m, d)
      PROVE  /\ e.workers = IF m >= 2 THEN c ELSE d.workers
             /\ e.resources = IF m >= 1 THEN r ELSE d.resources
             /\ e.tasks = IF m >= 3 THEN disk.tasks ELSE d.tasks
             /\ m > 0 => Len(u) = 3
  <2>1. CASE u = <<>>
    <3>1. m = 0
      BY <2>1
    <3>2. e = d
      BY <1>6, <3>1, AtZero
    <3> QED BY <3>1, <3>2
  <2>2. CASE u = TaskRollback
    <3>1. Len(u) = 3 /\ m \in 0 .. 3
      <4>1. 0 \in 0 .. 3
        OBVIOUS
      <4>2. Len(u) = 3
        BY <1>1, <1>3, <2>2, <4>1, PutBack DEF TaskRollback
      <4> QED BY <4>2
    <3>2. \A x \in Files : e[x] =
            IF (x = "resources" /\ m >= 1) \/ (x = "workers" /\ m >= 2) \/ (x = "tasks" /\ m >= 3)
            THEN disk[x] ELSE d[x]
      BY <1>1, <1>3, <1>6, <2>2, <3>1, PutBack DEF TaskRollback
    <3> QED BY <1>3, <3>1, <3>2
  <2> QED BY <2>1, <2>2
<1>7. ASSUME NEW k \in 0 .. Len(s), NEW m \in 0 .. Len(u), NEW e, e = At(u, m, At(s, k, disk))
      PROVE  /\ e.workers = c \/ (e.workers = C /\ Wrote(s, "workers") /\ e.tasks = T)
             /\ e.tasks = disk.tasks \/ e.tasks = T
             /\ e.resources = r \/ (e.resources = R /\ Wrote(s, "resources") /\ e.workers = C)
             /\ m > 0 => Len(u) = 3
             /\ m = 3 => e.workers = c /\ e.resources = r
             /\ m = 0 /\ k = Len(s) => /\ Wrote(s, "workers") => e.workers = C
                                       /\ e.resources = r => ~Wrote(s, "resources") \/ R = r
  <2>1. PICK d : d = At(s, k, disk)
    OBVIOUS
  <2>2. d = [f \in Files |-> d[f]]
    BY <2>1, AtIsFunction
  <2>3. /\ e.workers = IF m >= 2 THEN c ELSE d.workers
        /\ e.resources = IF m >= 1 THEN r ELSE d.resources
        /\ e.tasks = IF m >= 3 THEN disk.tasks ELSE d.tasks
        /\ m > 0 => Len(u) = 3
    BY <1>6, <1>7, <2>1, <2>2
  <2>4. /\ d.workers = disk.workers \/ (d.workers = C /\ Wrote(s, "workers") /\ d.tasks = T)
        /\ d.tasks = disk.tasks \/ d.tasks = T
        /\ \/ d.resources = disk.resources /\ (k = Len(s) => ~Wrote(s, "resources"))
           \/ d.resources = R /\ Wrote(s, "resources") /\ d.workers = C
        /\ k = Len(s) /\ Wrote(s, "workers") => d.workers = C
    BY <2>1, CarriedDocuments
  <2>5. m \in Int
    BY <1>5
  <2>6. CASE m = 0
    BY <2>3, <2>4, <2>6
  <2>7. CASE m = 1
    BY <2>3, <2>4, <2>7
  <2>8. CASE m >= 2
    BY <2>3, <2>4, <2>8
  <2> QED BY <1>5, <2>6, <2>7, <2>8
<1>8. \A v \in Workers : C[v] = None <=> c[v] = None
  BY DEF Carrying
<1>9. Matched(c, disk.tasks) /\ Matched(c, T) /\ Matched(C, T)
  BY <1>4 DEF Resting, Sound, Carrying
<1>10. ASSUME NEW k \in 0 .. Len(s), NEW m \in 0 .. Len(u)
       PROVE  FitsAt(s, u, w, k, m)
  <2>1. PICK e : e = At(u, m, At(s, k, disk))
    OBVIOUS
  <2>2. /\ e.workers = c \/ (e.workers = C /\ Wrote(s, "workers") /\ e.tasks = T)
        /\ e.tasks = disk.tasks \/ e.tasks = T
        /\ e.resources = r \/ (e.resources = R /\ Wrote(s, "resources") /\ e.workers = C)
        /\ m > 0 => Len(u) = 3
        /\ m = 3 => e.workers = c /\ e.resources = r
        /\ m = 0 /\ k = Len(s) => /\ Wrote(s, "workers") => e.workers = C
                                  /\ e.resources = r => ~Wrote(s, "resources") \/ R = r
    BY <1>7, <2>1
  <2>3. Sound(e)
    BY <1>9, <2>2 DEF Sound
  <2>4. \A v \in Workers : v # w => e.workers[v] = c[v] /\ e.resources[v] = r[v]
    BY <2>2 DEF Carrying
  <2>5. ASSUME NEW v \in Workers
        PROVE  Holds(e, v) \/ <<v, TRUE>> \in torn
    <3>1. Holds(disk, v) \/ <<v, TRUE>> \in torn
      BY <1>4 DEF Resting
    <3>2. CASE v # w
      BY <2>4, <3>1, <3>2 DEF Holds
    <3>3. CASE v = w
      <4>1. w # None
        BY <3>3, DispatchAssumption
      <4>2. CASE e.workers = c /\ e.resources = r
        BY <3>1, <4>2 DEF Holds
      <4>3. CASE e.workers = C /\ e.resources = r
        BY <3>1, <3>3, <4>1, <4>3 DEF Holds, Supplied, Carrying
      <4>4. CASE e.resources = R /\ Wrote(s, "resources") /\ e.workers = C
        BY <3>3, <4>1, <4>4 DEF Holds, Supplied, Carrying
      <4> QED BY <2>2, <4>2, <4>3, <4>4
    <3> QED BY <3>2, <3>3
  <2>6. ASSUME NEW v \in Workers \ Torn
        PROVE  Needed(e, v) \/ (v = w /\ ~(IF m = 0 THEN k = Len(s) ELSE m = Len(u)))
    <3>1. Needed(disk, v)
      BY <1>4 DEF Resting
    <3>2. CASE v # w
      BY <2>4, <3>1, <3>2 DEF Needed
    <3>3. CASE v = w /\ m # 0 /\ m = Len(u)
      <4>1. m = 3
        BY <1>5, <2>2, <3>3
      <4> QED BY <2>2, <3>1, <4>1 DEF Needed
    <3>4. CASE v = w /\ m = 0 /\ k = Len(s)
      <4>1. w # None
        BY <3>4, DispatchAssumption
      <4>2. CASE e.workers = c /\ e.resources = r
        BY <3>1, <4>2 DEF Needed
      <4>3. CASE e.workers = C /\ Wrote(s, "workers") /\ e.resources = r
        <5>1. Live(C[w]) \/ r[w].state # "active" \/ Wrote(s, "resources")
          BY <4>1, <4>3 DEF Carrying
        <5>2. Wrote(s, "resources") => r[w].state # "active"
          BY <2>2, <3>4, <4>1, <4>3 DEF Carrying
        <5> QED BY <3>4, <4>3, <5>1, <5>2 DEF Needed, Wanted
      <4>4. CASE e.resources = R /\ Wrote(s, "resources")
        BY <3>4, <4>1, <4>4 DEF Needed, Wanted, Carrying
      <4> QED BY <2>2, <4>2, <4>3, <4>4
    <3> QED BY <3>2, <3>3, <3>4
  <2>7. ASSUME m > 0 PROVE InOrder(At(u, m - 1, At(s, k, disk)), e)
    <3>1. PICK d : d = At(u, m - 1, At(s, k, disk))
      OBVIOUS
    <3>2. m - 1 \in 0 .. Len(u)
      BY <1>5, <2>7
    <3>3. d.workers = c \/ d.workers = C
      BY <1>7, <3>1, <3>2
    <3>4. InOrder(d, e)
      BY <1>8, <2>2, <3>3 DEF InOrder
    <3> QED BY <3>1, <3>4
  <2> QED BY <2>1, <2>3, <2>5, <2>6, <2>7 DEF FitsAt
<1>11. ASSUME NEW k \in 0 .. Len(s)
       PROVE  /\ At(s, k, disk).workers = c \/ At(s, k, disk).workers = C
              /\ \/ At(s, k, disk).resources = r /\ (k = Len(s) => ~Wrote(s, "resources"))
                 \/ At(s, k, disk).resources = R /\ Wrote(s, "resources")
              /\ k = Len(s) /\ Wrote(s, "workers") => At(s, k, disk).workers = C
  BY CarriedDocuments
<1>12. ASSUME w # None, \A k \in DOMAIN s : s[k].file # "refused"
       PROVE  Needed(At(s, Len(s), disk), w)
  <2>1. PICK e : e = At(s, Len(s), disk)
    OBVIOUS
  <2>2. Len(s) \in 0 .. Len(s)
    BY <1>2
  <2>3. /\ e.workers = c \/ e.workers = C
        /\ \/ e.resources = r /\ ~Wrote(s, "resources")
           \/ e.resources = R /\ Wrote(s, "resources")
        /\ Wrote(s, "workers") => e.workers = C
    BY <1>11, <2>1, <2>2
  <2>4. ~Wrote(s, "refused")
    BY <1>12 DEF Wrote, Elements
  <2>5. Live(C[w]) \/ r[w].state # "active" \/ Wrote(s, "resources")
    BY <1>12, <2>4 DEF Carrying
  <2>6. e.workers = C
    BY <2>3 DEF Carrying
  <2>7. CASE Wrote(s, "resources")
    <3>1. e.resources[w].state # "active"
      <4>1. R[w].state # "active"
        BY <1>12, <2>7 DEF Carrying
      <4> QED BY <2>3, <2>7, <4>1
    <3> QED BY <2>1, <3>1 DEF Needed, Wanted
  <2>8. CASE ~Wrote(s, "resources")
    <3>1. Live(e.workers[w]) \/ e.resources[w].state # "active"
      BY <2>3, <2>5, <2>6, <2>8
    <3> QED BY <2>1, <3>1 DEF Needed, Wanted
  <2> QED BY <2>1, <2>7, <2>8
<1>13. ASSUME NEW k \in 1 .. Len(s)
       PROVE  InOrder(At(s, k - 1, disk), At(s, k, disk))
  <2>1. k - 1 \in 0 .. Len(s) /\ k \in 0 .. Len(s)
    BY <1>2
  <2>2. PICK d : d = At(s, k - 1, disk)
    OBVIOUS
  <2>3. PICK e : e = At(s, k, disk)
    OBVIOUS
  <2>4. (d.workers = c \/ d.workers = C) /\ (e.workers = c \/ e.workers = C)
    BY <1>11, <2>1, <2>2, <2>3
  <2>5. InOrder(d, e)
    BY <1>8, <2>4 DEF InOrder
  <2> QED BY <2>2, <2>3, <2>5
<1>14. ASSUME NEW k \in 1 .. Len(s), w # None, s[k].file = "items", NEW j \in Items,
              At(s, k - 1, disk).items[j].live, ~At(s, k, disk).items[j].live
       PROVE  /\ At(s, k - 1, disk).workers[w].item = j
              /\ At(s, k - 1, disk).workers[w].claim = At(s, k - 1, disk).items[j].claim
  <2>1. PICK d : d = At(s, k - 1, disk)
    OBVIOUS
  <2>2. PICK e : e = At(s, k, disk)
    OBVIOUS
  <2>3. s[k] \in Elements(s) /\ k \in DOMAIN s /\ k \in Int
    BY <1>2 DEF Elements
  <2>4. Wrote(s, "items") /\ s[k].content = I
    BY <1>14, <2>3 DEF Wrote, Carrying
  <2>5. e["items"] = I
    BY <1>2, <1>3, <1>14, <2>2, <2>4, AtNext
  <2>6. d["items"] = disk["items"]
    <3>1. \A l \in 1 .. k - 1 : s[l].file # "items"
      <4>1. SUFFICES ASSUME NEW l \in 1 .. k - 1, s[l].file = "items" PROVE FALSE
        OBVIOUS
      <4>2. l \in DOMAIN s /\ l # k
        BY <1>2, <2>3
      <4> QED BY <1>2, <1>14, <2>3, <4>1, <4>2 DEF Once
    <3> QED BY <1>3, <2>1, <3>1, AtCases
  <2>7. j = c[w].item
    <3>1. I = [disk.items EXCEPT ![c[w].item].live = FALSE]
      BY <2>4 DEF Carrying, Released
    <3>2. j # c[w].item => I[j] = disk.items[j]
      BY <1>1, <3>1 DEF ItemDocs
    <3> QED BY <1>14, <2>1, <2>2, <2>5, <2>6, <3>2
  <2>8. d.workers = c \/ d.workers = C
    <3>1. k - 1 \in 0 .. Len(s)
      BY <1>2
    <3> QED BY <1>11, <2>1, <3>1
  <2>9. d.workers[w].item = j /\ d.workers[w].claim = d.items[j].claim
    BY <2>4, <2>6, <2>7, <2>8 DEF Carrying
  <2> QED BY <2>1, <2>9
<1>15. Fits(s, u, w)
  BY <1>2, <1>5, <1>10, <1>12, <1>13, <1>14 DEF Fits
<1> QED BY <1>15, BeginKeeps

(***************************************************************************)
(* The report of a worker's status, alone or as part of a task's.          *)
(***************************************************************************)
\* What the writes of a report are.
Reporting(s, w, C, R, I) ==
    LET c == disk.workers
        r == disk.resources
    IN /\ s \in Seq(Writes) /\ Ranked(s)
       /\ \A x \in Elements(s) : \/ x = Document("workers", C)
                                 \/ x = Document("resources", R)
                                 \/ x = Document("items", I)
       /\ Wrote(s, "workers")
       /\ \A v \in Workers : v # w => C[v] = c[v] /\ R[v] = r[v]
       /\ C \in WorkerDocs /\ C[w] # None /\ C[w].item = c[w].item /\ C[w].claim = c[w].claim
       /\ C[w].task = c[w].task /\ C[w].units = c[w].units
       /\ Live(C[w]) => Live(c[w])
       /\ Wrote(s, "resources") => ~Live(C[w]) /\ R[w].state # "active"
       /\ Live(C[w]) \/ r[w].state # "active" \/ Wrote(s, "resources")
       /\ Wrote(s, "items") => /\ I = Released(disk.items, c[w].item)
                               /\ c[w].claim = disk.items[c[w].item].claim

LEMMA ReportIsReporting ==
    ASSUME Typed, NEW w \in Workers, disk.workers[w] # None,
           NEW status \in {"active", "waiting", "attention"} \cup Ended, MayReport(w, status)
    PROVE  \E C, R, I : Reporting(ReportWrites(w, status), w, C, R, I)
<1> DEFINE c == disk.workers
           r == disk.resources
<1>1. PICK C : C = [disk.workers EXCEPT ![w] = [disk.workers[w] EXCEPT !.status = status]]
  OBVIOUS
<1>2. PICK R : R = Returned(disk.resources, w)
  OBVIOUS
<1>3. PICK I : I = Released(disk.items, disk.workers[w].item)
  OBVIOUS
<1>4. /\ c \in WorkerDocs /\ r \in ResourceDocs /\ disk.items \in ItemDocs /\ c[w] \in Worker
  BY DEF Typed, WorkerDocs
<1>5. PICK x : x = [disk.workers[w] EXCEPT !.status = status]
  OBVIOUS
<1>6. /\ x \in Worker /\ x # None /\ x.status = status /\ x.item = c[w].item /\ x.claim = c[w].claim
      /\ x.task = c[w].task /\ x.units = c[w].units
  <2>1. x \in Worker
    BY <1>4, <1>5 DEF Worker
  <2>2. x # None
    BY <2>1, DispatchAssumption
  <2> QED BY <1>4, <1>5, <2>1, <2>2 DEF Worker
<1>7. C \in WorkerDocs /\ \A v \in Workers : C[v] = IF v = w THEN x ELSE c[v]
  <2>1. C = [c EXCEPT ![w] = x]
    BY <1>1, <1>5
  <2> QED BY <1>4, <1>6, <2>1 DEF WorkerDocs
<1>8. Live(C[w]) => Live(c[w])
  BY <1>6, <1>7 DEF Live, MayReport
<1>9. /\ R \in ResourceDocs /\ R[w].state # "active"
      /\ \A v \in Workers : v # w => R[v] = r[v]
  <2>1. PICK y : y = [r[w] EXCEPT !.state = IF @ = "active" THEN "released" ELSE @]
    OBVIOUS
  <2>2. r[w] \in Resource
    BY <1>4 DEF ResourceDocs
  <2>3. y \in Resource /\ y.state # "active"
    BY <2>1, <2>2 DEF Resource
  <2>4. R = [r EXCEPT ![w] = y]
    BY <1>2, <1>4, <2>1 DEF Returned, ResourceDocs
  <2> QED BY <1>4, <2>3, <2>4 DEF ResourceDocs
<1>10. I \in ItemDocs
  <2>1. c[w].item \in Items
    BY <1>4 DEF Worker
  <2>2. PICK y : y = [disk.items[c[w].item] EXCEPT !.live = FALSE]
    OBVIOUS
  <2>3. disk.items[c[w].item] \in Item
    BY <1>4, <2>1 DEF ItemDocs
  <2>4. y \in Item
    BY <2>2, <2>3 DEF Item
  <2>5. I = [disk.items EXCEPT ![c[w].item] = y]
    BY <1>3, <2>2 DEF Released
  <2> QED BY <1>4, <2>4, <2>5 DEF ItemDocs
<1>11. /\ Document("workers", C) \in Writes /\ Document("resources", R) \in Writes
       /\ Document("items", I) \in Writes
       /\ Document("workers", C).file = "workers" /\ Document("resources", R).file = "resources"
       /\ Document("items", I).file = "items"
  BY <1>7, <1>9, <1>10 DEF Document, Writes
<1>12. PICK X : X = <<Document("workers", C)>>
  OBVIOUS
<1>13. PICK Y : Y = IF status \in Ended /\ r[w].state = "active" THEN <<Document("resources", R)>> ELSE <<>>
  OBVIOUS
<1>14. PICK Z : Z = IF GivesBackClaim(w, status) THEN <<Document("items", I)>> ELSE <<>>
  OBVIOUS
<1>15. X \in Seq(Writes) /\ Ranked(X) /\ Elements(X) = {Document("workers", C)}
  BY <1>11, <1>12, ListOfOne
<1>16. /\ Y \in Seq(Writes) /\ Ranked(Y)
       /\ Elements(Y) = IF status \in Ended /\ r[w].state = "active" THEN {Document("resources", R)} ELSE {}
  BY <1>11, <1>13, ListOfOne, ListOfNone
<1>17. /\ Z \in Seq(Writes) /\ Ranked(Z)
       /\ Elements(Z) = IF GivesBackClaim(w, status) THEN {Document("items", I)} ELSE {}
  BY <1>11, <1>14, ListOfOne, ListOfNone
<1>18. PICK XY : XY = X \o Y
  OBVIOUS
<1>19. XY \in Seq(Writes) /\ Ranked(XY) /\ Elements(XY) = Elements(X) \cup Elements(Y)
  <2>1. \A a \in Elements(X), b \in Elements(Y) : Rank[a.file] < Rank[b.file]
    BY <1>11, <1>15, <1>16, Ranks
  <2> QED BY <1>15, <1>16, <1>18, <2>1, Join
<1>20. PICK s : s = XY \o Z
  OBVIOUS
<1>21. s \in Seq(Writes) /\ Ranked(s) /\ Elements(s) = Elements(X) \cup Elements(Y) \cup Elements(Z)
  <2>1. \A a \in Elements(XY), b \in Elements(Z) : Rank[a.file] < Rank[b.file]
    BY <1>11, <1>15, <1>16, <1>17, <1>19, Ranks
  <2> QED BY <1>17, <1>19, <1>20, <2>1, Join
<1>22. s = ReportWrites(w, status)
  BY <1>1, <1>2, <1>3, <1>12, <1>13, <1>14, <1>18, <1>20 DEF ReportWrites
<1>23. \A a \in Elements(s) : \/ a = Document("workers", C)
                              \/ a = Document("resources", R)
                              \/ a = Document("items", I)
  BY <1>15, <1>16, <1>17, <1>21
<1>24. Wrote(s, "workers")
  BY <1>11, <1>15, <1>21 DEF Wrote
<1>25. Wrote(s, "resources") => status \in Ended
  BY <1>11, <1>15, <1>16, <1>17, <1>21 DEF Wrote
<1>26. status \in Ended /\ r[w].state = "active" => Wrote(s, "resources")
  BY <1>11, <1>16, <1>21 DEF Wrote
<1>27. Wrote(s, "items") => GivesBackClaim(w, status)
  BY <1>11, <1>15, <1>16, <1>17, <1>21 DEF Wrote
<1>28. status \in Ended <=> ~Live(C[w])
  BY <1>6, <1>7 DEF Live
<1>29. Wrote(s, "items") => /\ I = Released(disk.items, c[w].item)
                            /\ c[w].claim = disk.items[c[w].item].claim
  BY <1>3, <1>27 DEF GivesBackClaim
<1>30. Reporting(s, w, C, R, I)
  BY <1>6, <1>7, <1>8, <1>9, <1>21, <1>23, <1>24, <1>25, <1>26, <1>28, <1>29 DEF Reporting
<1> QED BY <1>22, <1>30

\* A report keeps workers and tasks matched.
LEMMA ReportMatches ==
    ASSUME NEW T \in TaskDocs, NEW w \in Workers, NEW s, NEW C, NEW R, NEW I, Reporting(s, w, C, R, I),
           disk.workers[w] # None, Matched(disk.workers, T)
    PROVE  Matched(C, T)
<1> DEFINE c == disk.workers
<1>1. \A v \in Workers : /\ Live(C[v]) => Live(c[v])
                         /\ C[v] = None <=> c[v] = None
                         /\ C[v].item = c[v].item /\ C[v].task = c[v].task /\ C[v].claim = c[v].claim
  BY DEF Reporting
<1>2. \A u, v \in Workers : Live(C[u]) /\ Live(C[v]) /\ C[u].item = C[v].item => u = v
  BY <1>1 DEF Matched
<1>3. \A v \in Workers : C[v] # None /\ C[v].task # None =>
        LET task == T[C[v].task]
        IN task # None /\ task.worker = v /\ task.item = C[v].item /\ task.claim = C[v].claim
  <2>1. \A v \in Workers : c[v] # None /\ c[v].task # None =>
          LET task == T[c[v].task]
          IN task # None /\ task.worker = v /\ task.item = c[v].item /\ task.claim = c[v].claim
    BY DEF Matched
  <2> QED BY <1>1, <2>1
<1>4. \A t \in Tasks : T[t] # None /\ T[t].worker # None => C[T[t].worker] # None
  <2>1. \A t \in Tasks : T[t] # None /\ T[t].worker # None => T[t].worker \in Workers
    BY DEF TaskDocs, Task
  <2> QED BY <1>1, <2>1 DEF Matched
<1> QED BY <1>2, <1>3, <1>4 DEF Matched

LEMMA UpdateWorkerKeeps ==
    ASSUME Dispatching, NEW w \in Workers, NEW status \in Reports, UpdateRuntimeWorker(w, status)
    PROVE  Dispatching'
<1> DEFINE c == disk.workers
<1>1. /\ c[w] # None /\ MayReport(w, status) /\ op = Idle
      /\ Begin(ReportWrites(w, status) \o <<Event>>, <<>>, c[w].item, w)
  BY DEF UpdateRuntimeWorker, Begin
<1>2. status \in {"active", "waiting", "attention"} \cup Ended
  BY DispatchAssumption
<1>3. Typed /\ disk.tasks \in TaskDocs /\ c \in WorkerDocs
  BY DEF Dispatching, Typed
<1>4. c[w].item \in Items
  BY <1>1, <1>3 DEF WorkerDocs, Worker
<1>5. PICK L : L = ReportWrites(w, status)
  OBVIOUS
<1>6. PICK C, R, I : Reporting(L, w, C, R, I)
  BY <1>1, <1>2, <1>3, <1>5, ReportIsReporting
<1>7. PICK s : s = L \o <<Event>>
  OBVIOUS
<1>8. /\ s \in Seq(Writes) /\ Ranked(s) /\ s # <<>> /\ s[Len(s)].file \notin Files
      /\ Elements(s) = Elements(L) \cup {Event}
  <2>1. ~Wrote(L, "events")
    BY <1>6 DEF Reporting, Wrote, Document
  <2> QED BY <1>6, <1>7, <2>1, WithEvent DEF Reporting
<1>9. /\ Wrote(s, "workers") /\ ~Wrote(s, "refused") /\ ~Wrote(s, "tasks")
      /\ Wrote(s, "resources") <=> Wrote(L, "resources")
      /\ Wrote(s, "items") <=> Wrote(L, "items")
  <2>1. \A x \in Elements(L) : x.file \in {"workers", "resources", "items"}
    BY <1>6 DEF Reporting, Document
  <2>2. Wrote(L, "workers")
    BY <1>6 DEF Reporting
  <2> QED BY <1>8, <2>1, <2>2, Ranks DEF Wrote
<1>10. Matched(c, disk.tasks)
  BY <1>1, AtRest DEF Resting, Sound
<1>11. Matched(C, disk.tasks)
  BY <1>1, <1>3, <1>6, <1>10, ReportMatches
<1>12. \A x \in Elements(s) : /\ x.file = "workers" => x.content = C
                              /\ x.file = "resources" => x.content = R
                              /\ x.file = "tasks" => x.content = disk.tasks
                              /\ x.file = "items" => x.content = I
  <2>1. \A x \in Elements(L) : \/ x.file = "workers" /\ x.content = C
                               \/ x.file = "resources" /\ x.content = R
                               \/ x.file = "items" /\ x.content = I
    BY <1>6 DEF Reporting, Document
  <2> QED BY <1>8, <2>1, Ranks
<1>13. w # None
  BY DispatchAssumption
<1>14. Carrying(s, w, C, R, disk.tasks, I)
  BY <1>1, <1>6, <1>8, <1>9, <1>10, <1>11, <1>12, <1>13 DEF Carrying, Reporting
<1>15. Begin(s, <<>>, c[w].item, w)
  BY <1>1, <1>5, <1>7
<1> QED BY <1>4, <1>14, <1>15, CarryKeeps

LEMMA RegisterKeeps ==
    ASSUME Dispatching, NEW t \in Tasks, NEW i \in Tasked, NEW w \in Workers \cup {None},
           NEW status \in TaskReports, RegisterTask(t, i, w, status)
    PROVE  Dispatching'
<1> DEFINE c == disk.workers
<1>1. PICK task : task = [item |-> i, claim |-> ClaimOf(i), worker |-> w, status |-> status]
  OBVIOUS
<1>2. PICK T : T = [disk.tasks EXCEPT ![t] = task]
  OBVIOUS
<1>3. PICK D : D = Document("tasks", T)
  OBVIOUS
<1>4. PICK C : C = IF w = None THEN c ELSE Attached(c, w, t)
  OBVIOUS
<1>5. PICK M : M = IF w = None THEN <<>> ELSE <<Document("workers", C)>>
  OBVIOUS
<1>6. PICK s : s = (<<D>> \o M) \o <<Event>>
  OBVIOUS
<1>7. /\ Begin(s, TaskRollback, i, w) /\ disk.tasks[t] = None /\ (w # None => AwaitsTask(w, i)) /\ op = Idle
  <2>1. /\ Begin(<<Document("tasks", [disk.tasks EXCEPT ![t] =
                     [item |-> i, claim |-> ClaimOf(i), worker |-> w, status |-> status]])>>
                 \o (IF w = None THEN <<>> ELSE <<Document("workers", Attached(c, w, t))>>)
                 \o <<Event>>, TaskRollback, i, w)
        /\ disk.tasks[t] = None /\ (w # None => AwaitsTask(w, i))
    BY DEF RegisterTask
  <2>2. M = IF w = None THEN <<>> ELSE <<Document("workers", Attached(c, w, t))>>
    BY <1>4, <1>5
  <2> QED BY <1>1, <1>2, <1>3, <1>6, <2>1, <2>2 DEF Begin
<1>8. /\ disk.tasks \in TaskDocs /\ c \in WorkerDocs /\ disk.items \in ItemDocs /\ i \in Items
  BY DispatchAssumption DEF Dispatching, Typed
<1>9. /\ task \in Task /\ task # None /\ task.item = i /\ task.claim = ClaimOf(i) /\ task.worker = w
  <2>1. disk.items[i].claim \in Nat
    BY <1>8 DEF ItemDocs, Item
  <2>2. ClaimOf(i) \in Nat \cup {None}
    BY <2>1 DEF ClaimOf
  <2>3. task \in Task
    BY <1>1, <1>8, <2>2 DEF Task
  <2> QED BY <1>1, <2>3, DispatchAssumption
<1>10. T \in TaskDocs /\ \A x \in Tasks : T[x] = IF x = t THEN task ELSE disk.tasks[x]
  BY <1>2, <1>8, <1>9 DEF TaskDocs
<1>11. ASSUME w # None
       PROVE  /\ c[w] # None /\ w \in Workers /\ C \in WorkerDocs
              /\ \A v \in Workers : v # w => C[v] = c[v]
              /\ C[w] # None /\ Live(C[w]) /\ Live(c[w]) /\ C[w].task = t
              /\ C[w].item = i /\ C[w].claim = ClaimOf(i) /\ c[w].item = i /\ c[w].claim = ClaimOf(i)
              /\ C[w].units = c[w].units
  <2>1. /\ c[w] # None /\ c[w].status = "reserved" /\ c[w].item = i /\ c[w].claim = ClaimOf(i)
    BY <1>7, <1>11 DEF AwaitsTask
  <2>2. w \in Workers /\ c[w] \in Worker
    BY <1>8, <1>11, <2>1 DEF WorkerDocs
  <2>3. PICK x : x = [[c[w] EXCEPT !.status = "active"] EXCEPT !.task = t]
    OBVIOUS
  <2>4. x \in Worker
    BY <2>2, <2>3 DEF Worker
  <2>5. /\ x.status = "active" /\ x.task = t /\ x.item = c[w].item /\ x.claim = c[w].claim
        /\ x.units = c[w].units
    BY <2>2, <2>3 DEF Worker
  <2>6. x # None
    BY <2>4, DispatchAssumption
  <2>7. C = [c EXCEPT ![w] = x]
    <3>1. C = [c EXCEPT ![w].status = "active", ![w].task = t]
      BY <1>4, <1>11 DEF Attached
    <3> QED BY <1>8, <2>2, <2>3, <3>1 DEF WorkerDocs
  <2>8. C \in WorkerDocs /\ \A v \in Workers : C[v] = IF v = w THEN x ELSE c[v]
    BY <1>8, <2>2, <2>4, <2>7 DEF WorkerDocs
  <2> QED BY <2>1, <2>2, <2>5, <2>6, <2>8 DEF Live, Ended
<1>12. Matched(c, disk.tasks)
  BY <1>7, AtRest DEF Resting, Sound
<1>13. \A v \in Workers : c[v] # None /\ c[v].task # None =>
         /\ c[v].task # t /\ c[v].task \in Tasks
         /\ LET x == T[c[v].task]
            IN x # None /\ x.worker = v /\ x.item = c[v].item /\ x.claim = c[v].claim
  <2>1. SUFFICES ASSUME NEW v \in Workers, c[v] # None, c[v].task # None
                 PROVE  /\ c[v].task # t /\ c[v].task \in Tasks
                        /\ LET x == T[c[v].task]
                           IN x # None /\ x.worker = v /\ x.item = c[v].item /\ x.claim = c[v].claim
    OBVIOUS
  <2>2. c[v].task \in Tasks
    BY <1>8, <2>1 DEF WorkerDocs, Worker
  <2>3. LET x == disk.tasks[c[v].task]
        IN x # None /\ x.worker = v /\ x.item = c[v].item /\ x.claim = c[v].claim
    BY <1>12, <2>1 DEF Matched
  <2> QED BY <1>7, <1>10, <2>2, <2>3
<1>14. \A x \in Tasks : T[x] # None /\ T[x].worker # None => c[T[x].worker] # None /\ T[x].worker \in Workers
  <2>1. \A x \in Tasks : disk.tasks[x] # None /\ disk.tasks[x].worker # None =>
          c[disk.tasks[x].worker] # None /\ disk.tasks[x].worker \in Workers
    BY <1>8, <1>12 DEF Matched, TaskDocs, Task
  <2> QED BY <1>9, <1>10, <1>11, <2>1
<1>15. Matched(c, T)
  BY <1>12, <1>13, <1>14 DEF Matched
<1>16. Matched(C, T)
  <2>1. CASE w = None
    BY <1>4, <1>15, <2>1
  <2>2. CASE w # None
    <3>1. \A u, v \in Workers : Live(C[u]) /\ Live(C[v]) /\ C[u].item = C[v].item => u = v
      BY <1>11, <1>12, <2>2 DEF Matched
    <3>2. \A v \in Workers : C[v] # None /\ C[v].task # None =>
            LET x == T[C[v].task]
            IN x # None /\ x.worker = v /\ x.item = C[v].item /\ x.claim = C[v].claim
      <4>1. ASSUME NEW v \in Workers, C[v] # None, C[v].task # None
            PROVE  LET x == T[C[v].task]
                   IN x # None /\ x.worker = v /\ x.item = C[v].item /\ x.claim = C[v].claim
        <5>1. CASE v = w
          BY <1>9, <1>10, <1>11, <2>2, <5>1
        <5>2. CASE v # w
          <6>1. C[v] = c[v]
            BY <1>11, <2>2, <5>2
          <6> QED BY <1>13, <4>1, <6>1
        <5> QED BY <5>1, <5>2
      <4> QED BY <4>1
    <3>3. \A x \in Tasks : T[x] # None /\ T[x].worker # None => C[T[x].worker] # None
      BY <1>11, <1>14, <2>2
    <3> QED BY <3>1, <3>2, <3>3 DEF Matched
  <2> QED BY <2>1, <2>2
<1>17. D \in Writes /\ D.file = "tasks" /\ D.content = T
  BY <1>3, <1>10 DEF Document, Writes
<1>18. <<D>> \in Seq(Writes) /\ Ranked(<<D>>) /\ Elements(<<D>>) = {D}
  BY <1>17, ListOfOne
<1>19. /\ M \in Seq(Writes) /\ Ranked(M)
       /\ Elements(M) = IF w = None THEN {} ELSE {Document("workers", C)}
       /\ Document("workers", C).file = "workers" /\ Document("workers", C).content = C
  <2>1. w # None => Document("workers", C) \in Writes
    BY <1>11 DEF Document, Writes
  <2>2. Document("workers", C).file = "workers" /\ Document("workers", C).content = C
    BY DEF Document
  <2> QED BY <1>5, <2>1, <2>2, ListOfOne, ListOfNone
<1>20. PICK L : L = <<D>> \o M
  OBVIOUS
<1>21. L \in Seq(Writes) /\ Ranked(L) /\ Elements(L) = {D} \cup Elements(M)
  <2>1. \A a \in Elements(<<D>>), b \in Elements(M) : Rank[a.file] < Rank[b.file]
    BY <1>17, <1>18, <1>19, Ranks
  <2> QED BY <1>18, <1>19, <1>20, <2>1, Join
<1>22. /\ s \in Seq(Writes) /\ Ranked(s) /\ s # <<>> /\ s[Len(s)].file \notin Files
       /\ Elements(s) = Elements(L) \cup {Event}
  <2>1. ~Wrote(L, "events")
    BY <1>17, <1>19, <1>21 DEF Wrote
  <2> QED BY <1>6, <1>20, <1>21, <2>1, WithEvent
<1>23. /\ Wrote(s, "tasks") /\ ~Wrote(s, "resources") /\ ~Wrote(s, "items") /\ ~Wrote(s, "refused")
       /\ Wrote(s, "workers") <=> w # None
  BY <1>17, <1>19, <1>21, <1>22, Ranks DEF Wrote
<1>24. \A x \in Elements(s) : /\ x.file = "workers" => x.content = C
                              /\ x.file = "resources" => x.content = disk.resources
                              /\ x.file = "tasks" => x.content = T
                              /\ x.file = "items" => x.content = disk.items
  BY <1>17, <1>19, <1>21, <1>22, Ranks
<1>25. Carrying(s, w, C, disk.resources, T, disk.items)
  BY <1>4, <1>11, <1>15, <1>16, <1>22, <1>23, <1>24 DEF Carrying
<1> QED BY <1>7, <1>8, <1>25, CarryKeeps

LEMMA UpdateTaskKeeps ==
    ASSUME Dispatching, NEW t \in Tasks, NEW status \in TaskReports, UpdateTask(t, status)
    PROVE  Dispatching'
<1> DEFINE c == disk.workers
<1>1. PICK w : w = disk.tasks[t].worker
  OBVIOUS
<1>2. PICK T : T = [disk.tasks EXCEPT ![t].status = status]
  OBVIOUS
<1>3. PICK D : D = Document("tasks", T)
  OBVIOUS
<1>4. PICK M : M = SyncWrites(w, status)
  OBVIOUS
<1>5. PICK s : s = (<<D>> \o M) \o <<Event>>
  OBVIOUS
<1>6. disk.tasks[t] # None /\ Begin(s, TaskRollback, disk.tasks[t].item, w) /\ op = Idle
  BY <1>1, <1>2, <1>3, <1>4, <1>5 DEF UpdateTask, Begin
<1>7. /\ Typed /\ disk.tasks \in TaskDocs /\ c \in WorkerDocs /\ disk.tasks[t] \in Task
      /\ disk.tasks[t].item \in Items /\ w \in Workers \cup {None}
  <2>1. Typed /\ disk.tasks \in TaskDocs /\ c \in WorkerDocs
    BY DEF Dispatching, Typed
  <2>2. disk.tasks[t] \in Task
    BY <1>6, <2>1 DEF TaskDocs
  <2> QED BY <1>1, <2>1, <2>2 DEF Task
<1>8. PICK task : task = [disk.tasks[t] EXCEPT !.status = status]
  OBVIOUS
<1>9. /\ task \in Task /\ task # None /\ task.item = disk.tasks[t].item /\ task.claim = disk.tasks[t].claim
      /\ task.worker = w
  <2>1. task \in Task
    BY <1>7, <1>8 DEF Task
  <2>2. task # None
    BY <2>1, DispatchAssumption
  <2>3. task.item = disk.tasks[t].item /\ task.claim = disk.tasks[t].claim /\ task.worker = w
    BY <1>1, <1>7, <1>8 DEF Task
  <2> QED BY <2>1, <2>2, <2>3
<1>10. T \in TaskDocs /\ \A x \in Tasks : T[x] = IF x = t THEN task ELSE disk.tasks[x]
  <2>1. T = [disk.tasks EXCEPT ![t] = task]
    BY <1>2, <1>8
  <2> QED BY <1>7, <1>9, <2>1 DEF TaskDocs
<1>11. Matched(c, disk.tasks)
  BY <1>6, AtRest DEF Resting, Sound
<1>12. \A x \in Tasks : /\ T[x] = None <=> disk.tasks[x] = None
                        /\ T[x].item = disk.tasks[x].item /\ T[x].claim = disk.tasks[x].claim
                        /\ T[x].worker = disk.tasks[x].worker
  BY <1>1, <1>6, <1>9, <1>10
<1>13. Matched(c, T)
  <2>1. \A v \in Workers : c[v] # None /\ c[v].task # None => c[v].task \in Tasks
    BY <1>7 DEF WorkerDocs, Worker
  <2>2. \A u, v \in Workers : Live(c[u]) /\ Live(c[v]) /\ c[u].item = c[v].item => u = v
    BY <1>11 DEF Matched
  <2>3. \A v \in Workers : c[v] # None /\ c[v].task # None =>
          LET x == T[c[v].task]
          IN x # None /\ x.worker = v /\ x.item = c[v].item /\ x.claim = c[v].claim
    <3>1. \A v \in Workers : c[v] # None /\ c[v].task # None =>
            LET x == disk.tasks[c[v].task]
            IN x # None /\ x.worker = v /\ x.item = c[v].item /\ x.claim = c[v].claim
      BY <1>11 DEF Matched
    <3> QED BY <1>12, <2>1, <3>1
  <2>4. \A x \in Tasks : T[x] # None /\ T[x].worker # None => c[T[x].worker] # None
    BY <1>11, <1>12 DEF Matched
  <2> QED BY <2>2, <2>3, <2>4 DEF Matched
<1>14. w # None => w \in Workers /\ c[w] # None
  BY <1>1, <1>6, <1>7, <1>11 DEF Matched
<1>15. D \in Writes /\ D.file = "tasks" /\ D.content = T
  BY <1>3, <1>10 DEF Document, Writes
<1>16. <<D>> \in Seq(Writes) /\ Ranked(<<D>>) /\ Elements(<<D>>) = {D}
  BY <1>15, ListOfOne
<1>17. ASSUME M \in Seq(Writes), Ranked(M), \A x \in Elements(M) : x.file \notin {"tasks", "events"}
       PROVE  /\ s \in Seq(Writes) /\ Ranked(s) /\ s # <<>> /\ s[Len(s)].file \notin Files
              /\ Elements(s) = {D, Event} \cup Elements(M)
  <2>1. PICK L : L = <<D>> \o M
    OBVIOUS
  <2>2. \A a \in Elements(<<D>>), b \in Elements(M) : Rank[a.file] < Rank[b.file]
    <3>1. \A b \in Elements(M) : b.file \in {"workers", "resources", "items", "refused"}
      <4>1. \A b \in Elements(M) : b \in Writes
        BY <1>17 DEF Elements
      <4> QED BY <1>17, <4>1, Ranks DEF Files
    <3> QED BY <1>15, <1>16, <3>1, Ranks
  <2>3. L \in Seq(Writes) /\ Ranked(L) /\ Elements(L) = {D} \cup Elements(M)
    BY <1>16, <1>17, <2>1, <2>2, Join
  <2>4. ~Wrote(L, "events")
    BY <1>15, <1>17, <2>3 DEF Wrote
  <2>5. s = L \o <<Event>>
    BY <1>5, <2>1
  <2>6. /\ s \in Seq(Writes) /\ Ranked(s) /\ s # <<>> /\ s[Len(s)].file \notin Files
        /\ Elements(s) = Elements(L) \cup {Event}
    BY <2>3, <2>4, <2>5, WithEvent
  <2> QED BY <2>3, <2>6
<1>18. CASE w = None
  <2>1. M = <<>>
    BY <1>4, <1>18 DEF SyncWrites
  <2>2. /\ s \in Seq(Writes) /\ Ranked(s) /\ s # <<>> /\ s[Len(s)].file \notin Files
        /\ Elements(s) = {D, Event}
    BY <1>17, <2>1, ListOfNone
  <2>3. /\ Wrote(s, "tasks") /\ ~Wrote(s, "workers") /\ ~Wrote(s, "resources") /\ ~Wrote(s, "items")
        /\ ~Wrote(s, "refused")
    BY <1>15, <2>2, Ranks DEF Wrote
  <2>4. Carrying(s, w, c, disk.resources, T, disk.items)
    BY <1>13, <1>15, <1>18, <2>2, <2>3, Ranks DEF Carrying
  <2> QED BY <1>6, <1>7, <2>4, CarryKeeps
<1>19. CASE w # None /\ ~MayReport(w, WorkerStatus(status))
  <2>1. PICK N : N = Document("refused", None)
    OBVIOUS
  <2>2. M = <<N>>
    BY <1>4, <1>19, <2>1 DEF SyncWrites
  <2>3. N \in Writes /\ N.file = "refused"
    BY <2>1 DEF Document, Writes
  <2>4. M \in Seq(Writes) /\ Ranked(M) /\ Elements(M) = {N}
    BY <2>2, <2>3, ListOfOne
  <2>5. /\ s \in Seq(Writes) /\ Ranked(s) /\ s # <<>> /\ s[Len(s)].file \notin Files
        /\ Elements(s) = {D, Event, N}
    BY <1>17, <2>3, <2>4
  <2>6. /\ Wrote(s, "tasks") /\ ~Wrote(s, "workers") /\ ~Wrote(s, "resources") /\ ~Wrote(s, "items")
        /\ Wrote(s, "refused")
    BY <1>15, <2>3, <2>5, Ranks DEF Wrote
  <2>7. \A x \in Elements(s) : x.file \in {"tasks", "events", "refused"} /\ (x.file = "tasks" => x.content = T)
    BY <1>15, <2>3, <2>5, Ranks
  <2>8. Carrying(s, w, c, disk.resources, T, disk.items)
    BY <1>13, <1>14, <1>19, <2>5, <2>6, <2>7 DEF Carrying
  <2> QED BY <1>6, <1>7, <2>8, CarryKeeps
<1>20. CASE w # None /\ MayReport(w, WorkerStatus(status))
  <2>1. M = ReportWrites(w, WorkerStatus(status))
    BY <1>4, <1>20 DEF SyncWrites
  <2>2. WorkerStatus(status) \in {"active", "waiting", "attention"} \cup Ended
    <3>1. status \in {"setup", "active", "waiting", "attention", "completed", "archived"}
      BY DispatchAssumption
    <3> QED BY <3>1 DEF WorkerStatus, Ended
  <2>3. PICK C, R, I : Reporting(M, w, C, R, I)
    BY <1>7, <1>14, <1>20, <2>1, <2>2, ReportIsReporting
  <2>4. \A x \in Elements(M) : \/ x.file = "workers" /\ x.content = C
                               \/ x.file = "resources" /\ x.content = R
                               \/ x.file = "items" /\ x.content = I
    BY <2>3 DEF Reporting, Document
  <2>5. M \in Seq(Writes) /\ Ranked(M) /\ Wrote(M, "workers")
    BY <2>3 DEF Reporting
  <2>6. /\ s \in Seq(Writes) /\ Ranked(s) /\ s # <<>> /\ s[Len(s)].file \notin Files
        /\ Elements(s) = {D, Event} \cup Elements(M)
    BY <1>17, <2>4, <2>5
  <2>7. /\ Wrote(s, "tasks") /\ Wrote(s, "workers") /\ ~Wrote(s, "refused")
        /\ Wrote(s, "resources") <=> Wrote(M, "resources")
        /\ Wrote(s, "items") <=> Wrote(M, "items")
    BY <1>15, <2>4, <2>5, <2>6, Ranks DEF Wrote
  <2>8. \A x \in Elements(s) : /\ x.file = "workers" => x.content = C
                               /\ x.file = "resources" => x.content = R
                               /\ x.file = "tasks" => x.content = T
                               /\ x.file = "items" => x.content = I
    BY <1>15, <2>4, <2>6, Ranks
  <2>9. Matched(C, T)
    BY <1>10, <1>13, <1>14, <1>20, <2>3, ReportMatches
  <2>10. Carrying(s, w, C, R, T, I)
    BY <1>13, <1>14, <1>20, <2>3, <2>6, <2>7, <2>8, <2>9 DEF Carrying, Reporting
  <2> QED BY <1>6, <1>7, <2>10, CarryKeeps
<1> QED BY <1>18, <1>19, <1>20

(***************************************************************************)
(* The invariant is inductive.                                             *)
(***************************************************************************)
LEMMA ItemCommandKeeps ==
    ASSUME Dispatching, NEW i \in Items,
           \/ CreateWorkItem(i) \/ ClaimWorkItem(i) \/ ReleaseWorkItemClaim(i) \/ ReworkWorkItem(i)
           \/ \E named \in Acks[i] : ConfigureWorkItem(i, named)
           \/ \E to \in Stages : TransitionWorkItem(i, to)
           \/ \E outcome \in {"done", "concluded"} : CloseWorkItem(i, outcome)
    PROVE  Dispatching' /\ op = Idle /\ disk'.workers = disk.workers
<1> DEFINE item == disk.items[i]
<1>1. disk.items \in ItemDocs /\ item \in Item
  BY DEF Dispatching, Typed, ItemDocs
<1>2. SUFFICES ASSUME NEW x \in Item, Put(i, x) PROVE Dispatching' /\ op = Idle /\ disk'.workers = disk.workers
  <2>1. CASE CreateWorkItem(i)
    <3>1. [item EXCEPT !.stage = "intake"] \in Item
      BY <1>1, DispatchAssumption DEF Item
    <3> QED BY <1>2, <2>1, <3>1 DEF CreateWorkItem
  <2>2. CASE ClaimWorkItem(i)
    <3>1. PICK x : x = [[item EXCEPT !.claim = item.claim + 1] EXCEPT !.live = TRUE]
      OBVIOUS
    <3>2. item.claim + 1 \in Nat
      BY <1>1 DEF Item
    <3>3. x \in Item
      BY <1>1, <3>1, <3>2 DEF Item
    <3>4. Claimed(disk.items, i)[i] = x
      BY <1>1, <3>1 DEF Claimed, ItemDocs, Item
    <3> QED BY <1>2, <2>2, <3>3, <3>4 DEF ClaimWorkItem
  <2>3. CASE ReleaseWorkItemClaim(i)
    <3>1. PICK x : x = [item EXCEPT !.live = FALSE]
      OBVIOUS
    <3>2. x \in Item
      BY <1>1, <3>1 DEF Item
    <3>3. Released(disk.items, i)[i] = x
      BY <1>1, <3>1 DEF Released, ItemDocs
    <3> QED BY <1>2, <2>3, <3>2, <3>3 DEF ReleaseWorkItemClaim
  <2>4. CASE ReworkWorkItem(i)
    <3>1. [item EXCEPT !.stage = "build", !.live = FALSE, !.prior = None] \in Item
      BY <1>1, DispatchAssumption DEF Item
    <3> QED BY <1>2, <2>4, <3>1 DEF ReworkWorkItem
  <2>5. CASE \E named \in Acks[i] : ConfigureWorkItem(i, named)
    <3>1. PICK named \in Acks[i] : ConfigureWorkItem(i, named)
      BY <2>5
    <3>2. named \in SUBSET Items
      BY DispatchAssumption
    <3>3. [item EXCEPT !.named = named] \in Item
      BY <1>1, <3>2 DEF Item
    <3> QED BY <1>2, <3>1, <3>3 DEF ConfigureWorkItem
  <2>6. CASE \E to \in Stages : TransitionWorkItem(i, to)
    <3>1. PICK to \in Stages : TransitionWorkItem(i, to)
      BY <2>6
    <3>2. PICK live : live = (item.live /\ Owner(to) = Owner(item.stage))
      OBVIOUS
    <3>3. PICK prior : prior = IF to = "blocked" THEN item.stage
                               ELSE IF item.stage = "blocked" /\ to = item.prior THEN None
                               ELSE item.prior
      OBVIOUS
    <3>4. live \in BOOLEAN
      BY <3>2
    <3>5. item.stage \in Stages
      BY <1>1, <3>1 DEF TransitionWorkItem, Exists, Item
    <3>6. prior \in Stages \cup {None}
      BY <1>1, <3>3, <3>5 DEF Item
    <3>7. [item EXCEPT !.stage = to, !.live = live, !.prior = prior] \in Item
      BY <1>1, <3>4, <3>6 DEF Item
    <3>8. Put(i, [item EXCEPT !.stage = to, !.live = live, !.prior = prior])
      BY <1>1, <3>1, <3>2, <3>3 DEF TransitionWorkItem, Item
    <3> QED BY <1>2, <3>7, <3>8
  <2>7. CASE \E outcome \in {"done", "concluded"} : CloseWorkItem(i, outcome)
    <3>1. PICK outcome \in {"done", "concluded"} : CloseWorkItem(i, outcome)
      BY <2>7
    <3>2. outcome \in Stages
      BY DispatchAssumption
    <3>3. [item EXCEPT !.stage = outcome, !.live = FALSE, !.prior = None] \in Item
      BY <1>1, <3>2 DEF Item
    <3> QED BY <1>2, <3>1, <3>3 DEF CloseWorkItem
  <2> QED BY <2>1, <2>2, <2>3, <2>4, <2>5, <2>6, <2>7
<1>3. Dispatching'
  BY <1>2, PutKeeps
<1>4. op = Idle /\ disk'.workers = disk.workers
  BY <1>2 DEF Put, Dispatching, Typed
<1> QED BY <1>3, <1>4

LEMMA InitDispatches == Init => Dispatching
<1> SUFFICES ASSUME Init PROVE Dispatching
  OBVIOUS
<1>1. PICK start \in Starts :
        disk = [items |-> [i \in Items |-> [stage |-> start[i], prior |-> None,
                                            claim |-> 0, live |-> FALSE, named |-> Named[i]]],
                workers |-> [w \in Workers |-> None],
                resources |-> [w \in Workers |-> [state |-> "none", units |-> 0, item |-> None]],
                tasks |-> [t \in Tasks |-> None]]
  BY DEF Init
<1>2. start \in [Items -> Stages \cup {"absent"}]
  BY DispatchAssumption
<1>3. ASSUME NEW i \in Items
      PROVE  [stage |-> start[i], prior |-> None, claim |-> 0, live |-> FALSE, named |-> Named[i]] \in Item
  BY <1>2, DispatchAssumption DEF Item
<1>4. [state |-> "none", units |-> 0, item |-> None] \in Resource
  BY DEF Resource
<1>5. /\ disk \in [items : ItemDocs, workers : WorkerDocs, resources : ResourceDocs, tasks : TaskDocs]
      /\ \A w \in Workers : disk.workers[w] = None /\ disk.resources[w].state = "none"
      /\ \A t \in Tasks : disk.tasks[t] = None
  <2>1. disk.items \in ItemDocs
    BY <1>1, <1>3 DEF ItemDocs
  <2>2. disk.workers \in WorkerDocs /\ \A w \in Workers : disk.workers[w] = None
    BY <1>1 DEF WorkerDocs
  <2>3. disk.resources \in ResourceDocs /\ \A w \in Workers : disk.resources[w].state = "none"
    <3>1. disk.resources = [w \in Workers |-> [state |-> "none", units |-> 0, item |-> None]]
      BY <1>1
    <3> QED BY <1>4, <3>1 DEF ResourceDocs
  <2>4. disk.tasks \in TaskDocs /\ \A t \in Tasks : disk.tasks[t] = None
    BY <1>1 DEF TaskDocs
  <2>5. disk = [items |-> disk.items, workers |-> disk.workers, resources |-> disk.resources, tasks |-> disk.tasks]
    BY <1>1
  <2> QED BY <2>1, <2>2, <2>3, <2>4, <2>5
<1>6. /\ op = Idle /\ torn = {} /\ plan = None
      /\ op.todo = <<>> /\ op.undo = <<>> /\ op.worker = None /\ op.item = None /\ ~op.failed
  BY IdleIsFormed DEF Init
<1>7. Typed
  <2>1. op \in [todo : Seq(Writes), undo : Seq(Writes), item : Items \cup {None}, worker : Workers \cup {None},
                failed : BOOLEAN]
    BY <1>6 DEF Idle
  <2> QED BY <1>5, <1>6, <2>1 DEF Typed
<1>8. Formed
  BY <1>6 DEF Formed, Once
<1>9. Sound(disk)
  BY <1>5 DEF Sound, Matched, Live
<1>10. \A w \in Workers : Holds(disk, w) /\ Needed(disk, w)
  BY <1>5 DEF Holds, Supplied, Needed, Wanted, Live
<1>11. ASSUME NEW p \in Ahead PROVE Back(p[1], p[2]) = disk
  <2>1. p[1] = 0 /\ p[2] = 0
    BY <1>6, <1>11 DEF Ahead
  <2> QED BY <1>5, <2>1, NothingWritten DEF Back, Path
<1>12. \A p \in Ahead : Sound(Back(p[1], p[2]))
  BY <1>9, <1>11
<1>13. Held
  BY <1>10, <1>11 DEF Held
<1>14. Vain
  BY <1>6, <1>10, <1>11 DEF Vain
<1>15. Stepwise
  BY <1>6 DEF Stepwise
<1> QED BY <1>7, <1>8, <1>12, <1>13, <1>14, <1>15 DEF Dispatching

LEMMA NextDispatches == Dispatching /\ [Next]_vars => Dispatching'
<1> SUFFICES ASSUME Dispatching, [Next]_vars PROVE Dispatching'
  OBVIOUS
<1>1. ASSUME NEW i \in Items,
             \/ CreateWorkItem(i) \/ ClaimWorkItem(i) \/ ReleaseWorkItemClaim(i) \/ ReworkWorkItem(i)
             \/ \E named \in Acks[i] : ConfigureWorkItem(i, named)
             \/ \E to \in Stages : TransitionWorkItem(i, to)
             \/ \E outcome \in {"done", "concluded"} : CloseWorkItem(i, outcome)
      PROVE  Dispatching'
  BY <1>1, ItemCommandKeeps
<1>2. ASSUME NEW i \in Items, NEW w \in Workers, NEW kind \in Kinds[i], PrepareWorkerDispatch(w, i, kind)
      PROVE  Dispatching'
  BY <1>2, PrepareKeeps
<1>3. ASSUME NEW t \in Tasks, NEW i \in Tasked, NEW w \in Workers \cup {None}, NEW status \in TaskReports,
             RegisterTask(t, i, w, status)
      PROVE  Dispatching'
  BY <1>3, RegisterKeeps
<1>4. ASSUME NEW scope \in Scopes, ReadPlan(scope) PROVE Dispatching'
  <2>1. UNCHANGED <<disk, op, torn>> /\ (plan' # None => plan'.id \in Nat)
    BY <1>4 DEF ReadPlan, Dispatching, Typed
  <2> QED BY <2>1, StandStill
<1>5. ASSUME WritePlan PROVE Dispatching'
  <2>1. UNCHANGED <<disk, op, torn>> /\ (plan' # None => plan'.id \in Nat)
    BY <1>5 DEF WritePlan, Dispatching, Typed
  <2> QED BY <2>1, StandStill
<1>6. ASSUME NEW w \in Workers, AttachInternalWorker(w) PROVE Dispatching'
  BY <1>6, AttachKeeps
<1>7. ASSUME NEW w \in Workers, NEW status \in Reports, UpdateRuntimeWorker(w, status) PROVE Dispatching'
  BY <1>7, UpdateWorkerKeeps
<1>8. ASSUME NEW t \in Tasks, NEW status \in TaskReports, UpdateTask(t, status) PROVE Dispatching'
  BY <1>8, UpdateTaskKeeps
<1>9. ASSUME Write PROVE Dispatching'
  BY <1>9, WriteKeeps
<1>10. ASSUME Fail PROVE Dispatching'
  BY <1>10, FailKeeps, CrashKeeps
<1>11. ASSUME Crash PROVE Dispatching'
  BY <1>11, CrashKeeps
<1>12. ASSUME UNCHANGED vars PROVE Dispatching'
  <2>1. UNCHANGED <<disk, op, torn>> /\ (plan' # None => plan'.id \in Nat)
    BY <1>12 DEF vars, Dispatching, Typed
  <2> QED BY <2>1, StandStill
<1>13. CASE \E t \in Tasks, i \in Tasked, w \in Workers \cup (IF LooseTasks THEN {None} ELSE {}),
              status \in TaskReports : RegisterTask(t, i, w, status)
  BY <1>3, <1>13
<1> QED BY <1>1, <1>2, <1>4, <1>5, <1>6, <1>7, <1>8, <1>9, <1>10, <1>11, <1>12, <1>13 DEF Next

(***************************************************************************)
(* What it says of the documents as they are.                              *)
(***************************************************************************)
LEMMA Now ==
    ASSUME Dispatching
    PROVE  /\ Back(0, 0) = disk /\ <<0, 0>> \in Ahead /\ Sound(disk)
           /\ \A w \in Workers : Holds(disk, w) \/ <<w, TRUE>> \in torn \/ (w = op.worker /\ Exposed(0, 0))
           /\ \A w \in Workers \ Torn : Needed(disk, w) \/ w = op.worker
<1>1. Back(0, 0) = disk
  BY NothingWritten DEF Dispatching, Typed, Back, Path
<1>2. <<0, 0>> \in Ahead /\ <<0, 0>>[1] = 0 /\ <<0, 0>>[2] = 0
  BY DEF Dispatching, Typed, Ahead
<1>3. Sound(disk)
  BY <1>1, <1>2 DEF Dispatching
<1>4. \A w \in Workers : Holds(disk, w) \/ <<w, TRUE>> \in torn \/ (w = op.worker /\ Exposed(0, 0))
  BY <1>1, <1>2 DEF Dispatching, Held
<1>5. \A w \in Workers \ Torn : Needed(disk, w) \/ w = op.worker
  BY <1>1, <1>2 DEF Dispatching, Vain
<1> QED BY <1>1, <1>2, <1>3, <1>4, <1>5

\* Everything that is done keeps what is ahead in order: Dispatching is an inductive invariant.
THEOREM DispatchInductive == Spec => []Dispatching
<1> QED BY InitDispatches, NextDispatches, PTL DEF Spec

\* The documents, and every list of writes to them, have their types.
THEOREM TypesAreKept == Spec => []TypeOK
<1>1. Dispatching => TypeOK
  BY DEF Dispatching, Typed, TypeOK
<1> QED BY <1>1, DispatchInductive, PTL

\* An item is in the hands of one worker at a time, whatever becomes of its claim.
THEOREM OneWorkerAtATime == Spec => []OneLiveWorker
<1>1. Dispatching => OneLiveWorker
  BY Now DEF OneLiveWorker, Sound, Matched, Alive, Live
<1> QED BY <1>1, DispatchInductive, PTL

\* Nobody works without the units it needs, save in the gap of a rollback.
THEOREM WorkIsSupplied == Spec => []LiveWorkersHoldResources
<1>1. Dispatching => LiveWorkersHoldResources
  <2>1. ASSUME Dispatching, NEW w \in Workers
        PROVE  Holds(disk, w) \/ <<w, TRUE>> \in torn \/ (op.worker = w /\ op.failed)
    <3>1. Exposed(0, 0) => op.failed
      BY DEF Exposed
    <3> QED BY <2>1, <3>1, Now
  <2> QED BY <2>1 DEF LiveWorkersHoldResources, Holds, Supplied, Alive, Live
<1> QED BY <1>1, DispatchInductive, PTL

\* No unit stays reserved for a worker that has ended or never was.
THEOREM NothingStaysHeld == Spec => []NothingHeldInVain
<1>1. Dispatching => NothingHeldInVain
  BY Now DEF NothingHeldInVain, Needed, Wanted, Alive, Live
<1> QED BY <1>1, DispatchInductive, PTL

\* A worker's task is registered for that worker, its item and its claim, crashes included.
THEOREM TasksAreKnown == Spec => []WorkersKnowTheirTask
<1>1. Dispatching => WorkersKnowTheirTask
  BY Now DEF WorkersKnowTheirTask, Sound, Matched
<1> QED BY <1>1, DispatchInductive, PTL

\* The step that a write is.
LEMMA WriteIsAStep ==
    ASSUME Dispatching, Write
    PROVE  /\ 1 \in 1 .. Len(op.todo) /\ op.todo[1] = Head(op.todo)
           /\ Back(1 - 1, 0) = disk /\ Back(1, 0) = disk'
<1>1. op.todo # <<>> /\ disk' = Path(1)
  BY WriteAdvances
<1>2. 1 \in 1 .. Len(op.todo) /\ op.todo[1] = Head(op.todo)
  BY <1>1 DEF Dispatching, Typed
<1>3. 1 - 1 = 0
  OBVIOUS
<1> QED BY <1>1, <1>2, <1>3, BackAtZero, Now

\* The steps that change the documents.
LEMMA Changes ==
    ASSUME Dispatching, Next, disk' # disk
    PROVE  \/ Write
           \/ op.worker = None /\ \A v \in Workers : disk.workers[v] = None => disk'.workers[v] = None
<1>1. ASSUME NEW i \in Items,
             \/ CreateWorkItem(i) \/ ClaimWorkItem(i) \/ ReleaseWorkItemClaim(i) \/ ReworkWorkItem(i)
             \/ \E named \in Acks[i] : ConfigureWorkItem(i, named)
             \/ \E to \in Stages : TransitionWorkItem(i, to)
             \/ \E outcome \in {"done", "concluded"} : CloseWorkItem(i, outcome)
      PROVE  op.worker = None /\ \A v \in Workers : disk.workers[v] = None => disk'.workers[v] = None
  BY <1>1, ItemCommandKeeps, IdleIsFormed
<1>2. ASSUME NEW w \in Workers, AttachInternalWorker(w)
      PROVE  op.worker = None /\ \A v \in Workers : disk.workers[v] = None => disk'.workers[v] = None
  <2>1. op = Idle /\ disk.workers[w] # None
        /\ disk' = [disk EXCEPT !.workers[w].status = "active", !.workers[w].runtime = TRUE]
    BY <1>2 DEF AttachInternalWorker
  <2>2. \A v \in Workers : v # w => disk'.workers[v] = disk.workers[v]
    BY <2>1 DEF Dispatching, Typed, WorkerDocs
  <2> QED BY <2>1, <2>2, IdleIsFormed
<1>3. ASSUME \/ \E i \in Items : \E w \in Workers, kind \in Kinds[i] : PrepareWorkerDispatch(w, i, kind)
             \/ \E t \in Tasks, i \in Tasked, w \in Workers \cup {None}, status \in TaskReports :
                  RegisterTask(t, i, w, status)
             \/ \E scope \in Scopes : ReadPlan(scope)
             \/ WritePlan
             \/ \E w \in Workers, status \in Reports : UpdateRuntimeWorker(w, status)
             \/ \E t \in Tasks, status \in TaskReports : UpdateTask(t, status)
             \/ Fail
             \/ Crash
      PROVE  FALSE
  BY <1>3 DEF PrepareWorkerDispatch, RegisterTask, ReadPlan, WritePlan, UpdateRuntimeWorker, UpdateTask,
              Begin, Fail, Crash
<1>4. Workers \cup (IF LooseTasks THEN {None} ELSE {}) \subseteq Workers \cup {None}
  OBVIOUS
<1> QED BY <1>1, <1>2, <1>3, <1>4 DEF Next

\* Cancelling a worker never ends a claim that is not the worker's own.
THEOREM LaterClaimsAreSpared == Spec => SparesLaterClaims
<1>1. ASSUME Dispatching, Next, disk' # disk, NEW i \in Items,
             op.worker # None, disk.items[i].live, ~disk'.items[i].live, ~op.failed, Head(op.todo).file = "items"
      PROVE  disk.workers[op.worker].item = i /\ disk.workers[op.worker].claim = disk.items[i].claim
  <2>1. Write
    BY <1>1, Changes
  <2>2. /\ 1 \in 1 .. Len(op.todo) /\ op.todo[1] = Head(op.todo)
        /\ Back(1 - 1, 0) = disk /\ Back(1, 0) = disk'
    BY <1>1, <2>1, WriteIsAStep
  <2>3. Spares(disk, disk')
    BY <1>1, <2>2 DEF Dispatching, Stepwise
  <2> QED BY <1>1, <2>3 DEF Spares
<1>2. Dispatching /\ [Next]_vars =>
        [\A i \in Items :
           op.worker # None /\ disk.items[i].live /\ ~disk'.items[i].live /\ ~op.failed
           /\ Head(op.todo).file = "items"
             => /\ disk.workers[op.worker].item = i
                /\ disk.workers[op.worker].claim = disk.items[i].claim]_disk
  BY <1>1 DEF vars
<1> QED BY <1>2, DispatchInductive, PTL DEF Spec, SparesLaterClaims

\* A worker takes up an item only when what it depends on is over, and no open item it overlaps without
\* naming it is being worked on.
THEOREM DispatchesInOrder == Spec => DispatchedInOrder
<1>1. ASSUME Dispatching, Next, disk' # disk PROVE InOrder(disk, disk')
  <2>1. CASE Write
    <3>1. /\ 1 \in 1 .. Len(op.todo)
          /\ Back(1 - 1, 0) = disk /\ Back(1, 0) = disk'
      BY <1>1, <2>1, WriteIsAStep
    <3> QED BY <1>1, <3>1 DEF Dispatching, Stepwise
  <2>2. CASE \A v \in Workers : disk.workers[v] = None => disk'.workers[v] = None
    BY <2>2 DEF InOrder
  <2> QED BY <1>1, <2>1, <2>2, Changes
<1>2. Dispatching /\ [Next]_vars =>
        [\A w \in Workers : disk.workers[w] = None /\ disk'.workers[w] # None =>
           LET i == disk'.workers[w].item
           IN /\ Settled(disk.items, i)
              /\ \A v \in Workers : Alive(v) /\ disk.workers[v].item \in Overlaps(disk.items, i) =>
                   disk.workers[v].item \in disk.items[i].named]_disk
  BY <1>1 DEF vars, InOrder, Living, Live, Alive
<1> QED BY <1>2, DispatchInductive, PTL DEF Spec, DispatchedInOrder
=============================================================================
