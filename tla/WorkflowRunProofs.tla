-------------------------- MODULE WorkflowRunProofs --------------------------
(***************************************************************************)
(* Proofs about WorkflowRun, for any runners, runs, workflows and limits.  *)
(*                                                                         *)
(* Typed says of every runner which of its fields its place and phases     *)
(* fill; Dispatches says what a dispatch leaves in the journal and in the  *)
(* history of calls, whoever else is at work; Bound ties every runner past *)
(* its binding to the one run of the claim; Locked ties every runner       *)
(* inside a run to its lock, and needs a single recoverer.  Journaled      *)
(* needs Locked: a runner's outstanding operations are unanswered on disk. *)
(* Clear: a runner past the check of the journal finds every unanswered    *)
(* operation among its own.  Accounted: a runner's books agree with its    *)
(* journal while it is at work, and a run marked completed is complete.    *)
(***************************************************************************)
EXTENDS WorkflowRun, TLAPS

Dispatching == {"inventory", "record", "call", "running", "result"}
Out == {"call", "running"}

Placed(p) ==
    /\ proc[p].pc \notin {"idle", "dead"} => proc[p].run \in Runs
    /\ \A n \in Nodes :
          /\ proc[p].phase[n] # "waiting" => proc[p].run \in Runs
          /\ proc[p].phase[n] \in Dispatching => proc[p].attempt[n] < Attempts
          /\ proc[p].phase[n] \notin {"waiting", "failed"} => Alive(p)

Typed == TypeOK /\ \A p \in Runners : Placed(p)

LEMMA OpTyped ==
    ASSUME Typed, NEW p \in Runners, NEW n \in Nodes, proc[p].attempt[n] < Attempts
    PROVE  Op(p, n) \in Operations
<1>1. proc[p].attempt[n] \in 0..Attempts /\ Attempts \in Nat
  BY WorkflowAssumption DEF Typed, TypeOK, Process
<1>2. proc[p].attempt[n] \in 0..Attempts - 1
  BY <1>1
<1>. QED BY <1>2 DEF Op, Operations

\* A runner at a place, or at work on a node, has a run, and a directory of its type.
LEMMA RunTyped ==
    ASSUME Typed, NEW p \in Runners, proc[p].pc \notin {"idle", "dead"}
    PROVE  proc[p].run \in Runs /\ Run(p) \in Directory /\ proc[p] \in Process
BY DEF Typed, TypeOK, Placed, Run

LEMMA RestedTyped == Rested \in Process
<1>1. 0 \in 0..Attempts
  BY WorkflowAssumption
<1>. QED BY <1>1 DEF Rested, Process, Places, Phases

\* What a step of one runner must establish.
Good(s) ==
    /\ s \in Process
    /\ s.pc \notin {"idle", "dead"} => s.run \in Runs
    /\ \A n \in Nodes :
          /\ s.phase[n] # "waiting" => s.run \in Runs
          /\ s.phase[n] \in Dispatching => s.attempt[n] < Attempts
          /\ s.phase[n] \notin {"waiting", "failed"} => s.pc \in {"graph", "closing", "retained"}

LEMMA GoodNow ==
    ASSUME Typed, NEW p \in Runners
    PROVE  Good(proc[p])
BY DEF Typed, TypeOK, Placed, Good, Alive

LEMMA StepTyped ==
    ASSUME Typed, NEW p \in Runners, NEW s, Become(p, s), Good(s),
           dir' \in [Runs -> Directory], binding' \in Runs \cup {None},
           standing' \in BOOLEAN, calls' \in [Runs -> [Operations -> Seq(Runners)]]
    PROVE  Typed'
<1>1. proc' \in [Runners -> Process] /\ proc'[p] = s
  BY DEF Typed, TypeOK, Become, Good
<1>2. ASSUME NEW q \in Runners PROVE Placed(q)'
  <2>1. CASE q = p
    BY <1>1, <2>1 DEF Good, Placed, Alive
  <2>2. CASE q # p
    <3>1. proc'[q] = proc[q]
      BY <2>2 DEF Typed, TypeOK, Become
    <3>. QED BY <3>1 DEF Typed, Placed, Alive
  <2>. QED BY <2>1, <2>2
<1>. QED BY <1>1, <1>2 DEF Typed, TypeOK

LEMMA StoreTyped ==
    ASSUME Typed, NEW p \in Runners, NEW d \in Directory, Store(p, d), proc[p].run \in Runs
    PROVE  dir' \in [Runs -> Directory]
BY DEF Typed, TypeOK, Store

LEMMA RestedGood == Good(Rested)
<1>1. /\ Rested.pc = "idle"
      /\ \A n \in Nodes : Rested.phase[n] = "waiting"
  BY DEF Rested
<1>. QED BY <1>1, RestedTyped DEF Good, Dispatching

LEMMA GotoGood ==
    ASSUME NEW s, Good(s), NEW place \in Places, s.run \in Runs,
           \/ place \in {"graph", "closing", "retained"}
           \/ \A n \in Nodes : s.phase[n] \in {"waiting", "failed"}
    PROVE  Good([s EXCEPT !.pc = place])
BY DEF Good, Process

LEMMA TypedInit == Init => Typed
<1>. SUFFICES ASSUME Init PROVE Typed
  OBVIOUS
<1>1. NoRun \in Directory
  <2>. DEFINE ops == [o \in Operations |-> "none"]
  <2>1. ops \in [Operations -> Records]
    BY DEF Records
  <2>2. "created" \in Statuses
    BY DEF Statuses
  <2>3. NoRun = [lock |-> None, run |-> FALSE, inventory |-> None, ops |-> ops,
                 database |-> FALSE, done |-> {}, pending |-> {}, approved |-> {},
                 status |-> "created", cancel |-> FALSE, settlement |-> None]
    BY DEF NoRun
  <2>. HIDE DEF ops
  <2>. QED BY <2>1, <2>2, <2>3 DEF Directory
<1>2. <<>> \in Seq(Runners)
  OBVIOUS
<1>3. TypeOK
  BY <1>1, <1>2, RestedTyped DEF Init, TypeOK
<1>4. ASSUME NEW p \in Runners PROVE Placed(p)
  BY RestedGood DEF Init, Placed, Rested, Good
<1>. QED BY <1>3, <1>4 DEF Typed

-----------------------------------------------------------------------------
(* Typed: one step per action. *)

\* What Become and Store have to be given, at a place outside the graph.
LEMMA MoveTyped ==
    ASSUME Typed, NEW p \in Runners, proc[p].pc \notin {"idle", "dead", "graph", "closing", "retained"},
           NEW place \in Places, NEW fresh \in BOOLEAN, NEW known \in SUBSET Operations,
           NEW granted \in SUBSET Gates
    PROVE  /\ Good([proc[p] EXCEPT !.pc = place])
           /\ Good([proc[p] EXCEPT !.pc = place, !.fresh = fresh])
           /\ Good([proc[p] EXCEPT !.pc = place, !.known = known])
           /\ Good([proc[p] EXCEPT !.pc = place, !.granted = granted])
<1>1. proc[p] \in Process /\ proc[p].run \in Runs
  BY RunTyped
<1>2. \A n \in Nodes : proc[p].phase[n] \in {"waiting", "failed"}
  BY DEF Typed, Placed, Alive
<1>. QED BY <1>1, <1>2 DEF Good, Process, Dispatching

LEMMA UnchangedTyped ==
    ASSUME Typed, NEW p \in Runners, NEW s, Become(p, s), Good(s),
           UNCHANGED <<binding, standing, calls>>,
           \/ UNCHANGED dir
           \/ proc[p].run \in Runs /\ \E d \in Directory : Store(p, d)
    PROVE  Typed'
<1>1. dir' \in [Runs -> Directory]
  BY StoreTyped DEF Typed, TypeOK
<1>. QED BY <1>1, StepTyped DEF Typed, TypeOK

LEMMA BlockTyped ==
    ASSUME Typed, NEW p \in Runners, proc[p].pc \notin {"idle", "dead", "graph", "closing", "retained"},
           NEW d \in Directory, Block(p, d), UNCHANGED <<binding, standing, calls>>
    PROVE  Typed'
<1>1. Recorded(d) \in SUBSET Operations /\ "closing" \in Places /\ proc[p].run \in Runs
  BY RunTyped DEF Recorded, Places
<1>2. Good([proc[p] EXCEPT !.pc = "closing", !.known = Recorded(d)])
  BY <1>1, MoveTyped
<1>3. \A aborted \in BOOLEAN : Stopped(d, aborted) \in Directory
  BY DEF Stopped, Directory, Statuses, Finished
<1>. QED BY <1>1, <1>2, <1>3, UnchangedTyped DEF Block

LEMMA TypedStart ==
    ASSUME Typed, NEW p \in Runners,
           \/ Bind(p) \/ Lock(p) \/ Open(p) \/ CreateInventory(p) \/ OpenDatabase(p)
           \/ \E r \in Runs : Execute(p, r) \/ Recover(p, r)
           \/ CompareToken(p) \/ Unlink(p) \/ RemoveLock(p) \/ Die(p)
    PROVE  Typed'
<1>. USE DEF Goto, At, Places
<1>1. CASE Bind(p)
  <2>1. Good([proc[p] EXCEPT !.pc = "lock", !.fresh = TRUE]) /\ Good([proc[p] EXCEPT !.pc = "lock"])
    BY <1>1, MoveTyped DEF Bind
  <2>2. binding' \in Runs \cup {None} /\ dir' \in [Runs -> Directory]
        /\ standing' \in BOOLEAN /\ calls' \in [Runs -> [Operations -> Seq(Runners)]]
    BY <1>1, RunTyped DEF Bind, Typed, TypeOK
  <2>. QED BY <1>1, <2>1, <2>2, RestedGood, StepTyped DEF Bind
<1>2. CASE Lock(p)
  <2>1. [Run(p) EXCEPT !.lock = p] \in Directory /\ proc[p].run \in Runs
    BY <1>2, RunTyped DEF Lock, Directory
  <2>2. Good([proc[p] EXCEPT !.pc = "open"])
    BY <1>2, MoveTyped DEF Lock
  <2>. QED BY <1>2, <2>1, <2>2, RestedGood, UnchangedTyped DEF Lock
<1>3. CASE Open(p)
  <2>1. [Run(p) EXCEPT !.run = TRUE] \in Directory /\ proc[p].run \in Runs
    BY <1>3, RunTyped DEF Open, Directory
  <2>2. /\ Good([proc[p] EXCEPT !.pc = "journal", !.fresh = FALSE])
        /\ Good([proc[p] EXCEPT !.pc = "inventory"]) /\ Good([proc[p] EXCEPT !.pc = "closing"])
    BY <1>3, MoveTyped DEF Open
  <2>. QED BY <1>3, <2>1, <2>2, UnchangedTyped DEF Open
<1>4. CASE CreateInventory(p)
  <2>1. [Run(p) EXCEPT !.inventory = {}] \in Directory /\ proc[p].run \in Runs
    BY <1>4, RunTyped DEF CreateInventory, Directory
  <2>2. Good([proc[p] EXCEPT !.pc = "journal"])
    BY <1>4, MoveTyped DEF CreateInventory
  <2>. QED BY <1>4, <2>1, <2>2, UnchangedTyped DEF CreateInventory
<1>5. CASE OpenDatabase(p)
  <2>1. [Run(p) EXCEPT !.database = TRUE] \in Directory /\ proc[p].run \in Runs /\ Run(p) \in Directory
    BY <1>5, RunTyped DEF OpenDatabase, Directory
  <2>2. Good([proc[p] EXCEPT !.pc = "admit"])
    BY <1>5, MoveTyped DEF OpenDatabase
  <2>3. CASE proc[p].fresh \/ Run(p).database
    BY <1>5, <2>1, <2>2, <2>3, UnchangedTyped DEF OpenDatabase
  <2>4. CASE ~(proc[p].fresh \/ Run(p).database)
    BY <1>5, <2>1, <2>4, BlockTyped DEF OpenDatabase
  <2>. QED BY <2>3, <2>4
<1>6. ASSUME NEW r \in Runs, Execute(p, r) \/ Recover(p, r)
      PROVE  Typed'
  <2>1. ASSUME NEW place \in {"bind", "recover"}
        PROVE  Good([Rested EXCEPT !.pc = place, !.run = r])
    <3>1. \A n \in Nodes : Rested.phase[n] = "waiting"
      BY DEF Rested
    <3>. QED BY <3>1, RestedTyped DEF Good, Process, Dispatching
  <2>. QED BY <1>6, <2>1, UnchangedTyped DEF Execute, Recover
<1>7. CASE CompareToken(p)
  <2>1. Good([proc[p] EXCEPT !.pc = "unlink"])
    BY <1>7, MoveTyped DEF CompareToken
  <2>. QED BY <1>7, <2>1, RestedGood, UnchangedTyped DEF CompareToken
<1>8. CASE Unlink(p) \/ RemoveLock(p)
  <2>1. [Run(p) EXCEPT !.lock = None] \in Directory /\ proc[p].run \in Runs
    BY <1>8, RunTyped DEF Unlink, RemoveLock, Directory
  <2>. QED BY <1>8, <2>1, RestedGood, UnchangedTyped DEF Unlink, RemoveLock
<1>9. CASE Die(p)
  <2>1. Good([Rested EXCEPT !.pc = "dead"])
    <3>1. \A n \in Nodes : Rested.phase[n] = "waiting"
      BY DEF Rested
    <3>. QED BY <3>1, RestedTyped DEF Good, Process, Dispatching
  <2>. QED BY <1>9, <2>1, UnchangedTyped DEF Die
<1>. QED BY <1>1, <1>2, <1>3, <1>4, <1>5, <1>6, <1>7, <1>8, <1>9

LEMMA TypedAdmission ==
    ASSUME Typed, NEW p \in Runners, ReadJournal(p) \/ Refuse(p) \/ Admit(p) \/ AdmitNothing(p)
    PROVE  Typed'
<1>. USE DEF Goto, At, Places
<1>0. proc[p].run \in Runs /\ Run(p) \in Directory /\ Recorded(Run(p)) \in SUBSET Operations
  BY RunTyped DEF ReadJournal, Refuse, Admit, AdmitNothing, Recorded
<1>1. CASE ReadJournal(p)
  <2>1. CASE Run(p).inventory # Recorded(Run(p))
    BY <1>0, <1>1, <2>1, BlockTyped DEF ReadJournal
  <2>2. CASE Run(p).inventory = Recorded(Run(p))
    <3>. DEFINE Reading(S, answer) ==
                    [Run(p) EXCEPT !.ops = [o \in Operations |-> IF o \in S THEN answer[o] ELSE @[o]]]
    <3>1. PICK S \in SUBSET Unanswered(Run(p)) : \E answer \in [S -> Answers] :
            IF Unanswered(Reading(S, answer)) = {}
            THEN /\ Become(p, [proc[p] EXCEPT !.pc = "database", !.known = Recorded(Reading(S, answer))])
                 /\ Store(p, Reading(S, answer))
            ELSE Block(p, Reading(S, answer))
      BY <1>1, <2>2 DEF ReadJournal
    <3>0. PICK answer \in [S -> Answers] :
            IF Unanswered(Reading(S, answer)) = {}
            THEN /\ Become(p, [proc[p] EXCEPT !.pc = "database", !.known = Recorded(Reading(S, answer))])
                 /\ Store(p, Reading(S, answer))
            ELSE Block(p, Reading(S, answer))
      BY <3>1
    <3>. DEFINE read == Reading(S, answer)
    <3>2. [o \in Operations |-> IF o \in S THEN answer[o] ELSE Run(p).ops[o]] \in [Operations -> Records]
      BY <1>0, WorkflowAssumption DEF Directory, Records
    <3>3. read \in Directory
      BY <1>0, <3>2 DEF Directory
    <3>4. Good([proc[p] EXCEPT !.pc = "database", !.known = Recorded(read)])
      BY <1>1, MoveTyped DEF ReadJournal, Recorded
    <3>. HIDE DEF read
    <3>5. CASE Unanswered(read) = {}
      <4>1. Become(p, [proc[p] EXCEPT !.pc = "database", !.known = Recorded(read)]) /\ Store(p, read)
        BY <3>0, <3>5 DEF read
      <4>. QED BY <1>0, <1>1, <3>3, <3>4, <4>1, UnchangedTyped DEF ReadJournal
    <3>6. CASE Unanswered(read) # {}
      <4>1. Block(p, read)
        BY <3>0, <3>6 DEF read
      <4>. QED BY <1>1, <3>3, <4>1, BlockTyped DEF ReadJournal
    <3>. QED BY <3>5, <3>6
  <2>. QED BY <2>1, <2>2
<1>2. CASE Refuse(p)
  BY <1>0, <1>2, BlockTyped DEF Refuse
<1>3. CASE Admit(p)
  <2>. DEFINE Kept(D, approve) == [Run(p) EXCEPT !.approved = @ \cup {g \in D : approve[g]}]
              Decided(D, approve) ==
                  \/ Goto(p, "closing") /\ Store(p, [Kept(D, approve) EXCEPT !.status = "rejected"])
                  \/ Goto(p, "closing") /\ Store(p, [Kept(D, approve) EXCEPT !.status = "awaiting-approval"])
                  \/ /\ Become(p, [proc[p] EXCEPT !.pc = "graph", !.granted = D])
                     /\ Store(p, [Kept(D, approve) EXCEPT !.status = "running"])
  <2>1. PICK D \in SUBSET Run(p).pending : \E approve \in [D -> BOOLEAN] : Decided(D, approve)
    BY <1>3 DEF Admit
  <2>6. PICK approve \in [D -> BOOLEAN] : Decided(D, approve)
    BY <2>1
  <2>. DEFINE kept == Kept(D, approve)
  <2>2. D \in SUBSET Gates /\ kept \in Directory
    BY <1>0 DEF Directory
  <2>3. \A status \in Statuses : [kept EXCEPT !.status = status] \in Directory
    <3>. HIDE DEF kept
    <3>. QED BY <2>2 DEF Directory
  <2>4. {"rejected", "awaiting-approval", "running"} \subseteq Statuses
    BY DEF Statuses, Finished
  <2>5. Good([proc[p] EXCEPT !.pc = "closing"]) /\ Good([proc[p] EXCEPT !.pc = "graph", !.granted = D])
    BY <1>3, <2>2, MoveTyped DEF Admit
  <2>. QED BY <1>0, <1>3, <2>6, <2>3, <2>4, <2>5, UnchangedTyped DEF Admit
<1>4. CASE AdmitNothing(p)
  <2>1. Good([proc[p] EXCEPT !.pc = "closing"])
    BY <1>4, MoveTyped DEF AdmitNothing
  <2>. QED BY <1>0, <1>4, <2>1, UnchangedTyped DEF AdmitNothing
<1>. QED BY <1>1, <1>2, <1>3, <1>4

LEMMA PhaseTyped ==
    ASSUME Typed, NEW p \in Runners, Alive(p), NEW n \in Nodes, NEW phase \in Phases,
           phase \in Dispatching => proc[p].attempt[n] < Attempts
    PROVE  /\ proc[p].run \in Runs /\ Run(p) \in Directory /\ proc[p] \in Process
           /\ proc[p].pc \notin {"idle", "dead"}
           /\ Good([proc[p] EXCEPT !.phase[n] = phase])
<1>1. proc[p].pc \notin {"idle", "dead"} /\ Good(proc[p])
  BY GoodNow DEF Alive
<1>2. proc[p].run \in Runs /\ proc[p] \in Process /\ proc[p].phase \in [Nodes -> Phases]
  BY <1>1 DEF Good, Process
<1>3. [proc[p] EXCEPT !.phase[n] = phase] \in Process
  BY <1>2 DEF Process
<1>4. ASSUME NEW m \in Nodes
      PROVE  LET f == [proc[p] EXCEPT !.phase[n] = phase].phase[m]
             IN  /\ f # "waiting" => proc[p].run \in Runs
                 /\ f \in Dispatching => proc[p].attempt[m] < Attempts
                 /\ f \notin {"waiting", "failed"} => proc[p].pc \in {"graph", "closing", "retained"}
  BY <1>1, <1>2 DEF Good, Alive, Process
<1>. QED BY <1>1, <1>2, <1>3, <1>4, RunTyped DEF Good, Process

LEMMA TypedNode ==
    ASSUME Typed, NEW p \in Runners, NodeStep(p) \/ AdapterStep(p)
    PROVE  Typed'
<1>. USE DEF Phases, Dispatching, Step
<1>1. ASSUME NEW n \in Nodes, Visit(p, n) PROVE Typed'
  <2>1. proc[p].run \in Runs /\ Good(proc[p]) /\ 0 \in 0..Attempts /\ 0 < Attempts
    BY <1>1, RunTyped, GoodNow, WorkflowAssumption DEF Visit, At
  <2>2. Good([proc[p] EXCEPT !.phase[n] = "try", !.attempt[n] = 0])
    BY <1>1, <2>1 DEF Visit, At, Good, Process
  <2>. QED BY <1>1, <2>2, UnchangedTyped DEF Visit
<1>2. ASSUME NEW n \in Nodes, Try(p, n) PROVE Typed'
  <2>1. /\ proc[p].run \in Runs /\ Run(p) \in Directory /\ Good([proc[p] EXCEPT !.phase[n] = "failed"])
        /\ proc[p] \in Process
    BY <1>2, PhaseTyped DEF Try
  <2>2. Good([proc[p] EXCEPT !.phase[n] = "failed", !.aborted = @ \/ Run(p).cancel])
    BY <2>1 DEF Good, Process, Directory
  <2>3. CASE proc[p].attempt[n] < Attempts
    <3>1. Op(p, n) \in Operations
      BY <2>3, OpTyped
    <3>2. Good([proc[p] EXCEPT !.phase[n] = "result"]) /\ Good([proc[p] EXCEPT !.phase[n] = "inventory"])
      BY <1>2, <2>3, PhaseTyped DEF Try
    <3>3. Good([proc[p] EXCEPT !.phase[n] = "inventory", !.known = @ \cup {Op(p, n)}])
      BY <2>1, <3>1, <3>2 DEF Good, Process
    <3>. QED BY <1>2, <2>1, <2>2, <3>2, <3>3, UnchangedTyped DEF Try
  <2>4. CASE ~(proc[p].attempt[n] < Attempts)
    BY <1>2, <2>2, <2>4, UnchangedTyped DEF Try
  <2>. QED BY <2>3, <2>4
<1>3. ASSUME NEW n \in Nodes, WriteInventory(p, n) PROVE Typed'
  <2>1. proc[p].attempt[n] < Attempts
    BY <1>3, GoodNow DEF WriteInventory, Good
  <2>2. /\ proc[p].run \in Runs /\ Run(p) \in Directory /\ proc[p] \in Process
        /\ Good([proc[p] EXCEPT !.phase[n] = "failed"]) /\ Good([proc[p] EXCEPT !.phase[n] = "record"])
    BY <1>3, <2>1, PhaseTyped DEF WriteInventory
  <2>3. [Run(p) EXCEPT !.inventory = proc[p].known] \in Directory
    BY <2>2 DEF Directory, Process
  <2>. QED BY <1>3, <2>2, <2>3, UnchangedTyped DEF WriteInventory
<1>4. ASSUME NEW n \in Nodes, WriteRecord(p, n) PROVE Typed'
  <2>1. proc[p].attempt[n] < Attempts
    BY <1>4, GoodNow DEF WriteRecord, Good
  <2>2. /\ proc[p].run \in Runs /\ Run(p) \in Directory /\ proc[p] \in Process
        /\ Good([proc[p] EXCEPT !.phase[n] = "failed"]) /\ Good([proc[p] EXCEPT !.phase[n] = "call"])
    BY <1>4, <2>1, PhaseTyped DEF WriteRecord
  <2>3. [Run(p) EXCEPT !.ops[Op(p, n)] = "intent"] \in Directory
    BY <2>2 DEF Directory, Records
  <2>4. Good([proc[p] EXCEPT !.phase[n] = "failed", !.jammed = TRUE])
    BY <2>2 DEF Good, Process
  <2>. QED BY <1>4, <2>2, <2>3, <2>4, UnchangedTyped DEF WriteRecord
<1>5. ASSUME NEW n \in Nodes, CallAdapter(p, n) PROVE Typed'
  <2>1. proc[p].attempt[n] < Attempts
    BY <1>5, GoodNow DEF CallAdapter, Good
  <2>2. proc[p].run \in Runs /\ Good([proc[p] EXCEPT !.phase[n] = "running"])
    BY <1>5, <2>1, PhaseTyped DEF CallAdapter
  <2>3. calls' \in [Runs -> [Operations -> Seq(Runners)]]
    <3>1. Append(calls[proc[p].run][Op(p, n)], p) \in Seq(Runners)
      BY <2>1, <2>2, OpTyped DEF Typed, TypeOK
    <3>. QED BY <1>5, <3>1 DEF CallAdapter, Typed, TypeOK
  <2>4. dir' \in [Runs -> Directory] /\ binding' \in Runs \cup {None} /\ standing' \in BOOLEAN
    BY <1>5 DEF CallAdapter, Typed, TypeOK
  <2>. QED BY <1>5, <2>2, <2>3, <2>4, StepTyped DEF CallAdapter
<1>6. ASSUME NEW n \in Nodes, Consider(p, n) PROVE Typed'
  <2>1. proc[p].attempt[n] < Attempts
    BY <1>6, GoodNow DEF Consider, Good
  <2>2. /\ proc[p] \in Process /\ Good([proc[p] EXCEPT !.phase[n] = "save"])
        /\ Good([proc[p] EXCEPT !.phase[n] = "failed"]) /\ Good([proc[p] EXCEPT !.phase[n] = "try"])
    BY <1>6, <2>1, PhaseTyped DEF Consider
  <2>3. proc[p].attempt[n] + 1 \in 0..Attempts
    BY <2>1, <2>2, WorkflowAssumption DEF Process
  <2>4. Good([proc[p] EXCEPT !.phase[n] = "try", !.attempt[n] = @ + 1])
    <3>1. [proc[p] EXCEPT !.phase[n] = "try", !.attempt[n] = @ + 1] \in Process
      BY <2>2, <2>3 DEF Process
    <3>2. Good(proc[p]) /\ proc[p].pc \in {"graph", "closing", "retained"}
      BY <1>6, GoodNow DEF Consider, Alive
    <3>3. ASSUME NEW m \in Nodes, m # n
          PROVE  /\ [proc[p] EXCEPT !.phase[n] = "try", !.attempt[n] = @ + 1].phase[m] = proc[p].phase[m]
                 /\ [proc[p] EXCEPT !.phase[n] = "try", !.attempt[n] = @ + 1].attempt[m] = proc[p].attempt[m]
      BY <2>2, <3>3 DEF Process
    <3>4. [proc[p] EXCEPT !.phase[n] = "try", !.attempt[n] = @ + 1].phase[n] = "try"
      BY <2>2 DEF Process
    <3>. QED BY <2>2, <3>1, <3>2, <3>3, <3>4 DEF Good, Process
  <2>. QED BY <1>6, <2>2, <2>4, UnchangedTyped DEF Consider
<1>7. ASSUME NEW n \in Nodes, Save(p, n) PROVE Typed'
  <2>1. proc[p].run \in Runs /\ Run(p) \in Directory /\ Good([proc[p] EXCEPT !.phase[n] = "waiting"])
    BY <1>7, PhaseTyped DEF Save
  <2>2. [Run(p) EXCEPT !.done = @ \cup {n}] \in Directory
    BY <2>1 DEF Directory
  <2>. QED BY <1>7, <2>1, <2>2, UnchangedTyped DEF Save
<1>8. ASSUME NEW n \in Nodes, AdapterThrows(p, n) PROVE Typed'
  <2>1. proc[p] \in Process /\ Good([proc[p] EXCEPT !.phase[n] = "failed"])
    BY <1>8, PhaseTyped DEF AdapterThrows
  <2>2. \A unsettled \in BOOLEAN :
           Good([proc[p] EXCEPT !.phase[n] = "failed", !.unsettled = @ \/ unsettled])
    BY <2>1 DEF Good, Process
  <2>. QED BY <1>8, <2>2, UnchangedTyped DEF AdapterThrows
<1>9. ASSUME NEW n \in Nodes, NEW result \in Answers, Answer(p, n, result) PROVE Typed'
  <2>1. proc[p].attempt[n] < Attempts
    BY <1>9, GoodNow DEF Answer, Good
  <2>2. proc[p].run \in Runs /\ Run(p) \in Directory /\ Good([proc[p] EXCEPT !.phase[n] = "result"])
    BY <1>9, <2>1, PhaseTyped DEF Answer
  <2>3. [Run(p) EXCEPT !.ops[Op(p, n)] = result] \in Directory
    BY <2>2, WorkflowAssumption DEF Directory, Records
  <2>. QED BY <1>9, <2>2, <2>3, UnchangedTyped DEF Answer
<1>. QED BY <1>1, <1>2, <1>3, <1>4, <1>5, <1>6, <1>7, <1>8, <1>9 DEF NodeStep, AdapterStep

LEMMA TypedGraph ==
    ASSUME Typed, NEW p \in Runners,
           \/ \E g \in Gates : VisitGate(p, g)
           \/ Abort(p) \/ GraphFails(p) \/ GraphEnds(p) \/ Retain(p) \/ Settle(p)
    PROVE  Typed'
<1>. USE DEF Goto, At, Places
<1>0. proc[p].run \in Runs /\ Run(p) \in Directory /\ proc[p] \in Process /\ Good(proc[p])
  BY RunTyped, GoodNow DEF VisitGate, Abort, GraphFails, GraphEnds, Retain, Settle
<1>1. ASSUME NEW g \in Gates, VisitGate(p, g) PROVE Typed'
  <2>1. /\ [Run(p) EXCEPT !.done = @ \cup {g}, !.pending = @ \ {g}] \in Directory
        /\ [Run(p) EXCEPT !.pending = @ \cup {g}] \in Directory
    BY <1>0 DEF Directory
  <2>2. dir' \in [Runs -> Directory]
    BY <1>0, <1>1, <2>1, StoreTyped DEF VisitGate
  <2>. QED BY <1>1, <2>2 DEF VisitGate, Typed, TypeOK, Placed, Alive
<1>2. CASE Abort(p)
  <2>1. Good([proc[p] EXCEPT !.aborted = TRUE])
    BY <1>0 DEF Good, Process
  <2>. QED BY <1>2, <2>1, UnchangedTyped DEF Abort
<1>3. CASE GraphFails(p)
  <2>1. Good([proc[p] EXCEPT !.pc = "closing", !.aborted = TRUE])
    BY <1>0 DEF Good, Process
  <2>2. Stopped(Run(p), proc[p].aborted) \in Directory
    BY <1>0 DEF Stopped, Directory, Statuses, Finished
  <2>. QED BY <1>0, <1>3, <2>1, <2>2, UnchangedTyped DEF GraphFails
<1>4. CASE GraphEnds(p)
  <2>1. Good([proc[p] EXCEPT !.pc = "closing"])
    BY <1>0 DEF Good, Process
  <2>2. \A status \in Statuses : [Run(p) EXCEPT !.status = status] \in Directory
    BY <1>0 DEF Directory
  <2>3. (IF Run(p).pending # {} THEN "awaiting-approval" ELSE "completed") \in Statuses
    BY DEF Statuses, Finished
  <2>. QED BY <1>0, <1>4, <2>1, <2>2, <2>3, UnchangedTyped DEF GraphEnds
<1>5. CASE Retain(p)
  <2>1. Good([proc[p] EXCEPT !.pc = "retained"])
    BY <1>0 DEF Good, Process
  <2>2. [Run(p) EXCEPT !.status = "blocked"] \in Directory
    BY <1>0 DEF Directory, Statuses
  <2>. QED BY <1>0, <1>5, <2>1, <2>2, UnchangedTyped DEF Retain
<1>6. CASE Settle(p)
  <2>1. \A n \in Nodes : proc[p].phase[n] \in {"waiting", "failed"}
    BY <1>6 DEF Settle, Active
  <2>2. Good([proc[p] EXCEPT !.pc = "unlock"])
    BY <1>0, <2>1, GotoGood
  <2>3. Settlement(p) \in [Operations -> Records] \cup {None}
    BY <1>0 DEF Settlement, Directory, Records
  <2>4. [Run(p) EXCEPT !.settlement = Settlement(p)] \in Directory
    BY <1>0, <2>3 DEF Directory
  <2>. QED BY <1>0, <1>6, <2>2, <2>4, UnchangedTyped DEF Settle
<1>. QED BY <1>1, <1>2, <1>3, <1>4, <1>5, <1>6

LEMMA TypedNext == Typed /\ [Next]_vars => Typed'
<1>. SUFFICES ASSUME Typed, [Next]_vars PROVE Typed'
  OBVIOUS
<1>1. ASSUME NEW p \in Runners,
             RunnerStep(p) \/ AdapterStep(p) \/ Die(p) \/ \E r \in Runs : Execute(p, r) \/ Recover(p, r)
      PROVE  Typed'
  BY <1>1, TypedStart, TypedAdmission, TypedNode, TypedGraph DEF RunnerStep
<1>2. ASSUME NEW r \in Runs, RequestCancel(r) PROVE Typed'
  <2>1. [dir[r] EXCEPT !.cancel = TRUE] \in Directory
    BY DEF Typed, TypeOK, Directory
  <2>2. dir' \in [Runs -> Directory]
    BY <1>2, <2>1 DEF RequestCancel, Typed, TypeOK
  <2>. QED BY <1>2, <2>2 DEF RequestCancel, Typed, TypeOK, Placed, Alive
<1>3. CASE Lapse
  BY <1>3 DEF Lapse, Typed, TypeOK, Placed, Alive
<1>4. CASE UNCHANGED vars
  BY <1>4 DEF vars, Typed, TypeOK, Placed, Alive
<1>. QED BY <1>1, <1>2, <1>3, <1>4 DEF Next

\* The type of every variable: in particular, no operation beyond attempts_per_node is ever
\* recorded, dispatched or counted (executeRuntimeNode's attempt loop).
THEOREM TypeCorrect == Spec => []TypeOK
<1>1. Spec => []Typed
  BY TypedInit, TypedNext, PTL DEF Spec
<1>. QED BY <1>1, PTL DEF Typed

-----------------------------------------------------------------------------
(* Dispatches: a node is called out with its record on disk, and the record *)
(* is its own.                                                              *)

Dispatches ==
    /\ \A p \in Runners, n \in Nodes :
          /\ proc[p].phase[n] \in Out => dir[proc[p].run].ops[Op(p, n)] # "none"
          /\ proc[p].phase[n] = "call" =>
                /\ calls[proc[p].run][Op(p, n)] = <<>>
                /\ \A q \in Runners, m \in Nodes :
                      /\ proc[q].phase[m] = "call" /\ proc[q].run = proc[p].run
                      /\ Op(q, m) = Op(p, n)
                      => q = p
    /\ DispatchedOnce

\* Steps that call nobody out and take no record away.
Quiet ==
    /\ \A r \in Runs, o \in Operations : dir[r].ops[o] # "none" => dir'[r].ops[o] # "none"
    /\ \A p \in Runners, n \in Nodes : proc'[p].phase[n] \in Out =>
          /\ proc'[p].phase[n] = proc[p].phase[n] /\ proc'[p].run = proc[p].run
          /\ proc'[p].attempt[n] = proc[p].attempt[n]
    /\ calls' = calls

\* A step of p that leaves the journals of the directories alone, or those of all but its own.
LEMMA JournalKept ==
    ASSUME Typed, NEW p \in Runners, proc[p].run \in Runs,
           \/ dir' = dir
           \/ \E d \in Directory :
                 /\ Store(p, d)
                 /\ \A o \in Operations : Run(p).ops[o] # "none" => d.ops[o] # "none"
    PROVE  \A r \in Runs, o \in Operations : dir[r].ops[o] # "none" => dir'[r].ops[o] # "none"
BY DEF Typed, TypeOK, Store, Run

LEMMA OthersRest ==
    ASSUME Typed, NEW p \in Runners, NEW s, Become(p, s), s \in Process,
           \A n \in Nodes : s.phase[n] \in Out =>
              s.phase[n] = proc[p].phase[n] /\ s.run = proc[p].run /\ s.attempt[n] = proc[p].attempt[n]
    PROVE  \A q \in Runners, n \in Nodes : proc'[q].phase[n] \in Out =>
              /\ proc'[q].phase[n] = proc[q].phase[n] /\ proc'[q].run = proc[q].run
              /\ proc'[q].attempt[n] = proc[q].attempt[n]
BY DEF Typed, TypeOK, Become

LEMMA QuietKeeps ==
    ASSUME Typed, Dispatches, Quiet
    PROVE  Dispatches'
<1>1. ASSUME NEW p \in Runners, NEW n \in Nodes, proc'[p].phase[n] \in Out
      PROVE  /\ proc[p].phase[n] = proc'[p].phase[n] /\ proc[p].run = proc'[p].run
             /\ Op(p, n)' = Op(p, n) /\ Op(p, n) \in Operations /\ proc[p].run \in Runs
  <2>1. proc[p].phase[n] = proc'[p].phase[n] /\ proc[p].run = proc'[p].run /\ Op(p, n)' = Op(p, n)
    BY <1>1 DEF Quiet, Op
  <2>2. proc[p].phase[n] \in Dispatching
    BY <1>1, <2>1 DEF Dispatching, Out
  <2>. QED BY <2>1, <2>2, OpTyped DEF Typed, Placed, Dispatching
<1>2. ASSUME NEW p \in Runners, NEW n \in Nodes, proc'[p].phase[n] \in Out
      PROVE  dir'[proc'[p].run].ops[Op(p, n)'] # "none"
  BY <1>1, <1>2 DEF Quiet, Dispatches
<1>3. ASSUME NEW p \in Runners, NEW n \in Nodes, proc'[p].phase[n] = "call"
      PROVE  /\ calls'[proc'[p].run][Op(p, n)'] = <<>>
             /\ \A q \in Runners, m \in Nodes :
                   /\ proc'[q].phase[m] = "call" /\ proc'[q].run = proc'[p].run
                   /\ Op(q, m)' = Op(p, n)'
                   => q = p
  BY <1>1, <1>3 DEF Quiet, Dispatches, Out
<1>4. DispatchedOnce'
  BY DEF Quiet, Dispatches, DispatchedOnce
<1>. QED BY <1>2, <1>3, <1>4 DEF Dispatches

LEMMA RestedOut ==
    \A n \in Nodes : \A place : \A r :
        /\ Rested.phase[n] \notin Out
        /\ [Rested EXCEPT !.pc = place, !.run = r].phase[n] \notin Out
        /\ [Rested EXCEPT !.pc = place].phase[n] \notin Out
BY DEF Rested, Out

SameJournals == \A r \in Runs : dir'[r].ops = dir[r].ops
SameLocks == \A r \in Runs : dir'[r].lock = dir[r].lock

LEMMA StoreFrame ==
    ASSUME Typed, NEW p \in Runners, proc[p].run \in Runs, NEW d, Store(p, d)
    PROVE  /\ dir'[proc[p].run] = d /\ \A r \in Runs : r # proc[p].run => dir'[r] = dir[r]
           /\ d.ops = Run(p).ops => SameJournals
           /\ d.lock = Run(p).lock => SameLocks
BY DEF Typed, TypeOK, Store, Run, SameJournals, SameLocks

LEMMA BecomeFrame ==
    ASSUME Typed, NEW p \in Runners, NEW s, Become(p, s)
    PROVE  proc'[p] = s /\ \A q \in Runners : q # p => proc'[q] = proc[q]
BY DEF Typed, TypeOK, Become

\* What the steps outside the nodes leave alone: the journal, mostly; the lock, but for three of
\* them; and what the runner has out.
LEMMA RunnerFrame ==
    ASSUME Typed, NEW p \in Runners,
           \/ Bind(p) \/ Open(p) \/ CreateInventory(p) \/ OpenDatabase(p) \/ Refuse(p) \/ Admit(p)
           \/ AdmitNothing(p) \/ \E g \in Gates : VisitGate(p, g)
           \/ CompareToken(p) \/ Abort(p) \/ GraphFails(p) \/ GraphEnds(p) \/ Retain(p) \/ Settle(p)
    PROVE  SameJournals /\ SameLocks
<1>. USE DEF Directory
<1>0. proc[p].run \in Runs /\ Run(p) \in Directory
  BY RunTyped DEF Bind, Open, CreateInventory, OpenDatabase, Refuse, Admit, AdmitNothing, VisitGate,
       CompareToken, Abort, GraphFails, GraphEnds, Retain, Settle, At
<1>1. CASE Bind(p) \/ AdmitNothing(p) \/ CompareToken(p) \/ Abort(p)
  BY <1>1 DEF Bind, AdmitNothing, CompareToken, Abort, SameJournals, SameLocks
<1>2. CASE Open(p)
  BY <1>0, <1>2, StoreFrame DEF Open, SameJournals, SameLocks
<1>3. CASE CreateInventory(p)
  BY <1>0, <1>3, StoreFrame DEF CreateInventory
<1>4. ASSUME Block(p, Run(p)) PROVE SameJournals /\ SameLocks
  BY <1>0, <1>4, StoreFrame DEF Block, Stopped
<1>5. CASE OpenDatabase(p)
  BY <1>0, <1>4, <1>5, StoreFrame DEF OpenDatabase
<1>6. CASE Refuse(p)
  BY <1>4, <1>6 DEF Refuse
<1>7. CASE Admit(p)
  <2>1. PICK approved, status :
            Store(p, [[Run(p) EXCEPT !.approved = approved] EXCEPT !.status = status])
    BY <1>7 DEF Admit
  <2>2. LET d == [[Run(p) EXCEPT !.approved = approved] EXCEPT !.status = status]
        IN  d.ops = Run(p).ops /\ d.lock = Run(p).lock
    BY <1>0
  <2>. QED BY <1>0, <2>1, <2>2, StoreFrame
<1>8. ASSUME NEW g \in Gates, VisitGate(p, g) PROVE SameJournals /\ SameLocks
  <2>1. PICK done, pending :
            \/ Store(p, [Run(p) EXCEPT !.done = done, !.pending = pending])
            \/ Store(p, [Run(p) EXCEPT !.pending = pending])
    BY <1>8 DEF VisitGate
  <2>2. \A d \in {[Run(p) EXCEPT !.done = done, !.pending = pending], [Run(p) EXCEPT !.pending = pending]} :
            d.ops = Run(p).ops /\ d.lock = Run(p).lock
    BY <1>0
  <2>. QED BY <1>0, <2>1, <2>2, StoreFrame
<1>9. CASE GraphFails(p)
  BY <1>0, <1>9, StoreFrame DEF GraphFails, Stopped
<1>10. CASE GraphEnds(p)
  BY <1>0, <1>10, StoreFrame DEF GraphEnds
<1>11. CASE Retain(p)
  BY <1>0, <1>11, StoreFrame DEF Retain
<1>12. CASE Settle(p)
  BY <1>0, <1>12, StoreFrame DEF Settle
<1>. QED BY <1>1, <1>2, <1>3, <1>5, <1>6, <1>7, <1>8, <1>9, <1>10, <1>11, <1>12

LEMMA LockFrame ==
    ASSUME Typed, NEW p \in Runners, Lock(p) \/ Unlink(p) \/ RemoveLock(p)
    PROVE  SameJournals
<1>1. proc[p].run \in Runs /\ Run(p) \in Directory
  BY RunTyped DEF Lock, Unlink, RemoveLock, At
<1>. QED BY <1>1, StoreFrame DEF Lock, Unlink, RemoveLock, Directory, SameJournals

\* The phases and attempts of a runner change only on its nodes, and when it rests.
AsBefore(p, s) ==
    \/ s.phase = proc[p].phase /\ s.run = proc[p].run /\ s.attempt = proc[p].attempt
    \/ s = Rested

LEMMA MoveAsBefore ==
    ASSUME NEW p \in Runners, proc[p] \in Process,
           NEW place, NEW fresh, NEW known, NEW granted
    PROVE  /\ AsBefore(p, [proc[p] EXCEPT !.pc = place])
           /\ AsBefore(p, [proc[p] EXCEPT !.pc = place, !.fresh = fresh])
           /\ AsBefore(p, [proc[p] EXCEPT !.pc = place, !.known = known])
           /\ AsBefore(p, [proc[p] EXCEPT !.pc = place, !.granted = granted])
           /\ AsBefore(p, [proc[p] EXCEPT !.pc = place, !.aborted = TRUE])
           /\ AsBefore(p, [proc[p] EXCEPT !.aborted = TRUE])
           /\ AsBefore(p, Rested)
BY DEF AsBefore, Process

LEMMA PhaseFrame ==
    ASSUME Typed, NEW p \in Runners,
           \/ Bind(p) \/ Lock(p) \/ Open(p) \/ CreateInventory(p) \/ ReadJournal(p) \/ OpenDatabase(p)
           \/ Refuse(p) \/ Admit(p) \/ AdmitNothing(p)
           \/ CompareToken(p) \/ Unlink(p) \/ RemoveLock(p)
           \/ Abort(p) \/ GraphFails(p) \/ GraphEnds(p) \/ Retain(p) \/ Settle(p)
    PROVE  /\ AsBefore(p, proc'[p])
           /\ \A q \in Runners : q # p => proc'[q] = proc[q]
<1>1. proc[p] \in Process
  BY GoodNow DEF Good
<1>. SUFFICES \E s : Become(p, s) /\ AsBefore(p, s)
  BY BecomeFrame
<1>. USE <1>1, MoveAsBefore DEF Goto
<1>2. CASE Bind(p)
  BY <1>2 DEF Bind
<1>3. CASE Lock(p) \/ CompareToken(p) \/ Unlink(p) \/ RemoveLock(p)
  BY <1>3 DEF Lock, CompareToken, Unlink, RemoveLock
<1>4. CASE Open(p) \/ CreateInventory(p) \/ AdmitNothing(p) \/ Abort(p)
  BY <1>4 DEF Open, CreateInventory, AdmitNothing, Abort
<1>5. CASE GraphFails(p) \/ GraphEnds(p) \/ Retain(p) \/ Settle(p)
  BY <1>5 DEF GraphFails, GraphEnds, Retain, Settle
<1>6. CASE OpenDatabase(p) \/ Refuse(p)
  BY <1>6 DEF OpenDatabase, Refuse, Block
<1>7. CASE ReadJournal(p)
  <2>1. \E place, known : Become(p, [proc[p] EXCEPT !.pc = place, !.known = known])
    BY <1>7 DEF ReadJournal, Block
  <2>. QED BY <2>1
<1>8. CASE Admit(p)
  <2>1. \/ Goto(p, "closing")
        \/ \E granted : Become(p, [proc[p] EXCEPT !.pc = "graph", !.granted = granted])
    BY <1>8 DEF Admit
  <2>. QED BY <2>1
<1>. QED BY <1>2, <1>3, <1>4, <1>5, <1>6, <1>7, <1>8

\* What a step on a node changes of its runner: the node's phase, and perhaps its attempt.
OnlyNode(p, n, s) ==
    /\ s.run = proc[p].run /\ s.pc = proc[p].pc
    /\ \A m \in Nodes : m # n => s.phase[m] = proc[p].phase[m] /\ s.attempt[m] = proc[p].attempt[m]

OnlyPhase(p, n, s, phase) ==
    OnlyNode(p, n, s) /\ s.attempt = proc[p].attempt /\ s.phase[n] = phase

LEMMA MoveOnNode ==
    ASSUME NEW p \in Runners, NEW n \in Nodes, proc[p] \in Process,
           NEW phase, NEW known, NEW flag
    PROVE  /\ OnlyPhase(p, n, [proc[p] EXCEPT !.phase[n] = phase], phase)
           /\ OnlyPhase(p, n, [proc[p] EXCEPT !.phase[n] = phase, !.known = known], phase)
           /\ OnlyPhase(p, n, [proc[p] EXCEPT !.phase[n] = phase, !.jammed = flag], phase)
           /\ OnlyPhase(p, n, [proc[p] EXCEPT !.phase[n] = phase, !.aborted = flag], phase)
           /\ OnlyPhase(p, n, [proc[p] EXCEPT !.phase[n] = phase, !.unsettled = flag], phase)
<1>. USE DEF OnlyPhase, OnlyNode, Process
<1>1. OnlyPhase(p, n, [proc[p] EXCEPT !.phase[n] = phase], phase)
  OBVIOUS
<1>2. OnlyPhase(p, n, [proc[p] EXCEPT !.phase[n] = phase, !.known = known], phase)
  OBVIOUS
<1>3. OnlyPhase(p, n, [proc[p] EXCEPT !.phase[n] = phase, !.jammed = flag], phase)
  OBVIOUS
<1>4. OnlyPhase(p, n, [proc[p] EXCEPT !.phase[n] = phase, !.aborted = flag], phase)
  OBVIOUS
<1>5. OnlyPhase(p, n, [proc[p] EXCEPT !.phase[n] = phase, !.unsettled = flag], phase)
  OBVIOUS
<1>. QED BY <1>1, <1>2, <1>3, <1>4, <1>5

\* Each step on a node: the phase it leads to, and what it finds or leaves in the journal.
NodeMove(p, n, s) ==
    \/ OnlyNode(p, n, s) /\ s.phase[n] = "try" /\ s.attempt[n] = 0 /\ proc[p].phase[n] = "waiting"
       /\ At(p, "graph") /\ SameJournals
    \/ OnlyPhase(p, n, s, "failed") /\ SameJournals
    \/ OnlyPhase(p, n, s, "result") /\ SameJournals /\ Run(p).ops[Op(p, n)] \in Results
    \/ OnlyPhase(p, n, s, "inventory") /\ SameJournals /\ proc[p].attempt[n] < Attempts
    \/ OnlyPhase(p, n, s, "record") /\ SameJournals
    \/ OnlyNode(p, n, s) /\ s.phase[n] = "try" /\ s.attempt[n] = proc[p].attempt[n] + 1
       /\ proc[p].phase[n] = "result" /\ SameJournals
    \/ OnlyPhase(p, n, s, "save") /\ SameJournals /\ proc[p].phase[n] = "result"
    \/ OnlyPhase(p, n, s, "waiting") /\ SameJournals /\ proc[p].phase[n] = "save"

MoveGoesOn(p, n) == MayGoOn(p) /\ proc[p].attempt[n] < Attempts

LEMMA NodeFrame ==
    ASSUME Typed, NEW p \in Runners, NEW n \in Nodes,
           \/ Visit(p, n) \/ Try(p, n) \/ WriteInventory(p, n) \/ Consider(p, n) \/ Save(p, n)
           \/ AdapterThrows(p, n)
    PROVE  /\ SameLocks /\ calls' = calls /\ \A q \in Runners : q # p => proc'[q] = proc[q]
           /\ NodeMove(p, n, proc'[p])
<1>1. proc[p].run \in Runs /\ Run(p) \in Directory /\ proc[p] \in Process
  BY RunTyped DEF Visit, Try, WriteInventory, Consider, Save, AdapterThrows, Alive, At
<1>2. SameJournals /\ SameLocks
  <2>1. CASE WriteInventory(p, n)
    BY <1>1, <2>1, StoreFrame DEF WriteInventory, Directory, SameLocks, SameJournals
  <2>2. CASE Save(p, n)
    BY <1>1, <2>2, StoreFrame DEF Save, Directory, SameLocks, SameJournals
  <2>. QED BY <2>1, <2>2 DEF Visit, Try, Consider, AdapterThrows, SameJournals, SameLocks
<1>3. calls' = calls
  BY DEF Visit, Try, WriteInventory, Consider, Save, AdapterThrows
<1>. SUFFICES \E s : Become(p, s) /\ NodeMove(p, n, s)
  BY <1>2, <1>3, BecomeFrame
<1>. USE <1>1, <1>2
<1>10. \A known, flag :
          /\ NodeMove(p, n, [proc[p] EXCEPT !.phase[n] = "failed"])
          /\ NodeMove(p, n, [proc[p] EXCEPT !.phase[n] = "failed", !.aborted = flag])
          /\ NodeMove(p, n, [proc[p] EXCEPT !.phase[n] = "failed", !.unsettled = flag])
          /\ NodeMove(p, n, [proc[p] EXCEPT !.phase[n] = "record"])
  BY MoveOnNode DEF NodeMove
<1>4. CASE Visit(p, n)
  <2>. DEFINE s == [proc[p] EXCEPT !.phase[n] = "try", !.attempt[n] = 0]
  <2>1. OnlyNode(p, n, s) /\ s.phase[n] = "try" /\ s.attempt[n] = 0
    BY DEF OnlyNode, Process
  <2>2. Become(p, s) /\ proc[p].phase[n] = "waiting" /\ At(p, "graph")
    BY <1>4 DEF Visit
  <2>. HIDE DEF s
  <2>. QED BY <2>1, <2>2 DEF NodeMove
<1>5. CASE Try(p, n)
  <2>1. CASE ~MoveGoesOn(p, n)
    <3>1. \E flag : Become(p, [proc[p] EXCEPT !.phase[n] = "failed", !.aborted = flag])
      BY <1>5, <2>1 DEF Try, MoveGoesOn
    <3>. QED BY <1>10, <3>1
  <2>2. CASE MoveGoesOn(p, n) /\ Op(p, n) \in proc[p].known
    <3>1. Run(p).ops[Op(p, n)] \in Results => NodeMove(p, n, [proc[p] EXCEPT !.phase[n] = "result"])
      BY MoveOnNode DEF NodeMove
    <3>2. \/ Run(p).ops[Op(p, n)] \in Results /\ Become(p, [proc[p] EXCEPT !.phase[n] = "result"])
          \/ Become(p, [proc[p] EXCEPT !.phase[n] = "failed"])
          \/ \E flag : Become(p, [proc[p] EXCEPT !.phase[n] = "failed", !.aborted = flag])
      BY <1>5, <2>2 DEF Try, MoveGoesOn, Step
    <3>. QED BY <1>10, <3>1, <3>2
  <2>3. CASE MoveGoesOn(p, n) /\ Op(p, n) \notin proc[p].known
    <3>1. \A known : NodeMove(p, n, [proc[p] EXCEPT !.phase[n] = "inventory", !.known = known])
      BY <2>3, MoveOnNode DEF NodeMove, MoveGoesOn
    <3>2. \/ \E known : Become(p, [proc[p] EXCEPT !.phase[n] = "inventory", !.known = known])
          \/ Become(p, [proc[p] EXCEPT !.phase[n] = "failed"])
          \/ \E flag : Become(p, [proc[p] EXCEPT !.phase[n] = "failed", !.aborted = flag])
      BY <1>5, <2>3 DEF Try, MoveGoesOn, Step
    <3>. QED BY <1>10, <3>1, <3>2
  <2>. QED BY <2>1, <2>2, <2>3
<1>6. CASE WriteInventory(p, n)
  BY <1>6, <1>10 DEF WriteInventory, Step
<1>7. CASE Consider(p, n)
  <2>. DEFINE s == [proc[p] EXCEPT !.phase[n] = "try", !.attempt[n] = proc[p].attempt[n] + 1]
  <2>0. proc[p].phase[n] = "result"
    BY <1>7 DEF Consider
  <2>1. NodeMove(p, n, s) /\ NodeMove(p, n, [proc[p] EXCEPT !.phase[n] = "save"])
    <3>1. OnlyNode(p, n, s) /\ s.phase[n] = "try" /\ s.attempt[n] = proc[p].attempt[n] + 1
      BY DEF OnlyNode, Process
    <3>2. OnlyPhase(p, n, [proc[p] EXCEPT !.phase[n] = "save"], "save")
      BY MoveOnNode
    <3>. HIDE DEF s
    <3>. QED BY <2>0, <3>1, <3>2 DEF NodeMove
  <2>2. \/ Become(p, [proc[p] EXCEPT !.phase[n] = "save"])
        \/ Become(p, s)
        \/ Become(p, [proc[p] EXCEPT !.phase[n] = "failed"])
    BY <1>7 DEF Consider, Step, Process
  <2>. QED BY <1>10, <2>1, <2>2
<1>8. CASE Save(p, n)
  <2>1. NodeMove(p, n, [proc[p] EXCEPT !.phase[n] = "waiting"])
    BY <1>8, MoveOnNode DEF Save, NodeMove
  <2>. QED BY <1>8, <2>1 DEF Save, Step
<1>9. CASE AdapterThrows(p, n)
  <2>1. \E flag : Become(p, [proc[p] EXCEPT !.phase[n] = "failed", !.unsettled = flag])
    BY <1>9 DEF AdapterThrows
  <2>. QED BY <1>10, <2>1
<1>. QED BY <1>4, <1>5, <1>6, <1>7, <1>8, <1>9

\* The steps that change the journal or call the adapter.
LEMMA RecordFrame ==
    ASSUME Typed, NEW p \in Runners, NEW n \in Nodes, WriteRecord(p, n)
    PROVE  /\ SameLocks /\ calls' = calls /\ \A q \in Runners : q # p => proc'[q] = proc[q]
           /\ \/ OnlyPhase(p, n, proc'[p], "failed") /\ SameJournals
              \/ /\ OnlyPhase(p, n, proc'[p], "call")
                 /\ Run(p).ops[Op(p, n)] = "none"
                 /\ \A r \in Runs, o \in Operations :
                       dir'[r].ops[o] = IF r = proc[p].run /\ o = Op(p, n) THEN "intent" ELSE dir[r].ops[o]
<1>1. proc[p].run \in Runs /\ Run(p) \in Directory /\ proc[p] \in Process
  BY RunTyped DEF WriteRecord, Alive
<1>2. CASE Run(p).ops[Op(p, n)] # "none"
  <2>. DEFINE s == [proc[p] EXCEPT !.phase[n] = "failed", !.jammed = TRUE]
  <2>1. Become(p, s) /\ dir' = dir /\ calls' = calls
    BY <1>2 DEF WriteRecord
  <2>2. OnlyPhase(p, n, s, "failed")
    BY <1>1, MoveOnNode
  <2>. HIDE DEF s
  <2>. QED BY <2>1, <2>2, BecomeFrame DEF SameLocks, SameJournals
<1>3. CASE Run(p).ops[Op(p, n)] = "none"
  <2>. DEFINE d == [Run(p) EXCEPT !.ops[Op(p, n)] = "intent"]
  <2>1. Store(p, d) /\ Become(p, [proc[p] EXCEPT !.phase[n] = "call"]) /\ calls' = calls
    BY <1>3 DEF WriteRecord, Step
  <2>2. /\ d.lock = Run(p).lock
        /\ \A o \in Operations : d.ops[o] = IF o = Op(p, n) THEN "intent" ELSE Run(p).ops[o]
    BY <1>1 DEF Directory
  <2>. HIDE DEF d
  <2>3. /\ SameLocks /\ dir'[proc[p].run] = d
        /\ \A r \in Runs : r # proc[p].run => dir'[r] = dir[r]
    BY <1>1, <2>1, <2>2, StoreFrame
  <2>4. OnlyPhase(p, n, [proc[p] EXCEPT !.phase[n] = "call"], "call")
    BY <1>1, MoveOnNode
  <2>5. OnlyPhase(p, n, proc'[p], "call") /\ \A q \in Runners : q # p => proc'[q] = proc[q]
    BY <2>1, <2>4, BecomeFrame
  <2>6. \A r \in Runs, o \in Operations :
           dir'[r].ops[o] = IF r = proc[p].run /\ o = Op(p, n) THEN "intent" ELSE dir[r].ops[o]
    BY <2>2, <2>3 DEF Run
  <2>. QED BY <1>3, <2>1, <2>3, <2>5, <2>6
<1>. QED BY <1>2, <1>3

LEMMA AnswerFrame ==
    ASSUME Typed, NEW p \in Runners, NEW n \in Nodes, NEW result \in Answers, Answer(p, n, result)
    PROVE  /\ SameLocks /\ calls' = calls /\ \A q \in Runners : q # p => proc'[q] = proc[q]
           /\ OnlyPhase(p, n, proc'[p], "result")
           /\ \A r \in Runs, o \in Operations :
                 dir'[r].ops[o] = IF r = proc[p].run /\ o = Op(p, n) THEN result ELSE dir[r].ops[o]
<1>1. proc[p].run \in Runs /\ Run(p) \in Directory /\ proc[p] \in Process
  BY RunTyped DEF Answer, Alive
<1>. DEFINE d == [Run(p) EXCEPT !.ops[Op(p, n)] = result]
<1>2. Store(p, d) /\ Become(p, [proc[p] EXCEPT !.phase[n] = "result"]) /\ calls' = calls
  BY DEF Answer, Step
<1>3. /\ d.lock = Run(p).lock
      /\ \A o \in Operations : d.ops[o] = IF o = Op(p, n) THEN result ELSE Run(p).ops[o]
  BY <1>1 DEF Directory
<1>. HIDE DEF d
<1>4. /\ SameLocks /\ dir'[proc[p].run] = d
      /\ \A r \in Runs : r # proc[p].run => dir'[r] = dir[r]
  BY <1>1, <1>2, <1>3, StoreFrame
<1>5. OnlyPhase(p, n, [proc[p] EXCEPT !.phase[n] = "result"], "result")
  BY <1>1, MoveOnNode
<1>6. OnlyPhase(p, n, proc'[p], "result") /\ \A q \in Runners : q # p => proc'[q] = proc[q]
  BY <1>2, <1>5, BecomeFrame
<1>7. \A r \in Runs, o \in Operations :
         dir'[r].ops[o] = IF r = proc[p].run /\ o = Op(p, n) THEN result ELSE dir[r].ops[o]
  BY <1>3, <1>4 DEF Run
<1>. QED BY <1>2, <1>4, <1>6, <1>7

LEMMA CallFrame ==
    ASSUME Typed, NEW p \in Runners, NEW n \in Nodes, CallAdapter(p, n)
    PROVE  /\ dir' = dir /\ \A q \in Runners : q # p => proc'[q] = proc[q]
           /\ OnlyPhase(p, n, proc'[p], "running") /\ proc[p].phase[n] = "call"
<1>1. proc[p] \in Process
  BY RunTyped DEF CallAdapter, Alive
<1>2. OnlyPhase(p, n, [proc[p] EXCEPT !.phase[n] = "running"], "running")
  BY <1>1, MoveOnNode
<1>3. Become(p, [proc[p] EXCEPT !.phase[n] = "running"]) /\ dir' = dir /\ proc[p].phase[n] = "call"
  BY DEF CallAdapter, Step
<1>. QED BY <1>2, <1>3, BecomeFrame

\* Every step but the creation of a record and the call of an adapter is quiet.
LEMMA QuietStart ==
    ASSUME Typed, NEW p \in Runners,
           \/ Bind(p) \/ Lock(p) \/ Open(p) \/ CreateInventory(p) \/ OpenDatabase(p)
           \/ Refuse(p) \/ Admit(p) \/ AdmitNothing(p)
           \/ CompareToken(p) \/ Unlink(p) \/ RemoveLock(p)
           \/ Abort(p) \/ GraphFails(p) \/ GraphEnds(p) \/ Retain(p) \/ Settle(p)
    PROVE  Quiet
<1>1. calls' = calls
  BY DEF Bind, Lock, Open, CreateInventory, OpenDatabase, Refuse, Admit, AdmitNothing,
       CompareToken, Unlink, RemoveLock, Abort, GraphFails, GraphEnds, Retain, Settle
<1>2. SameJournals
  BY RunnerFrame, LockFrame
<1>. QED BY <1>1, <1>2, PhaseFrame, RestedOut DEF Quiet, SameJournals, AsBefore

LEMMA QuietRest ==
    ASSUME Typed, NEW p \in Runners,
           Die(p) \/ \E r \in Runs : Execute(p, r) \/ Recover(p, r)
    PROVE  Quiet
<1>1. dir' = dir /\ calls' = calls
  BY DEF Die, Execute, Recover
<1>2. PICK place, r : Become(p, [Rested EXCEPT !.pc = place]) \/ Become(p, [Rested EXCEPT !.pc = place, !.run = r])
  BY DEF Die, Execute, Recover
<1>3. \A n \in Nodes : proc'[p].phase[n] \notin Out
  <2>1. \/ proc'[p] = [Rested EXCEPT !.pc = place]
        \/ proc'[p] = [Rested EXCEPT !.pc = place, !.run = r]
    BY <1>2, BecomeFrame
  <2>. QED BY <2>1, RestedOut
<1>. QED BY <1>1, <1>2, <1>3, BecomeFrame DEF Quiet

\* The journal is read: only unanswered records change, and they get an answer.
LEMMA JournalFrame ==
    ASSUME Typed, NEW p \in Runners, ReadJournal(p)
    PROVE  /\ SameLocks
           /\ \A r \in Runs : r # proc[p].run => dir'[r] = dir[r]
           /\ \A o \in Operations :
                 \/ dir'[proc[p].run].ops[o] = Run(p).ops[o]
                 \/ Run(p).ops[o] = "intent" /\ dir'[proc[p].run].ops[o] \in Answers
           /\ proc'[p].pc = "database" => Unanswered(dir'[proc[p].run]) = {}
<1>1. proc[p].run \in Runs /\ Run(p) \in Directory /\ proc[p] \in Process /\ At(p, "journal")
  BY RunTyped DEF ReadJournal, At
<1>3. CASE Run(p).inventory # Recorded(Run(p))
  <2>1. PICK aborted \in BOOLEAN : Store(p, Stopped(Run(p), aborted))
    BY <1>3 DEF ReadJournal, Block
  <2>2. Stopped(Run(p), aborted).ops = Run(p).ops /\ Stopped(Run(p), aborted).lock = Run(p).lock
    BY <1>1 DEF Stopped, Directory
  <2>3. proc'[p].pc = "closing"
    BY <1>1, <1>3, BecomeFrame DEF ReadJournal, Block, Process
  <2>. QED BY <1>1, <2>1, <2>2, <2>3, StoreFrame
<1>4. CASE Run(p).inventory = Recorded(Run(p))
  <2>. DEFINE Reading(S, answer) ==
                  [Run(p) EXCEPT !.ops = [o \in Operations |-> IF o \in S THEN answer[o] ELSE @[o]]]
              Taken(d) == \/ /\ Unanswered(d) = {} /\ Store(p, d)
                             /\ Become(p, [proc[p] EXCEPT !.pc = "database", !.known = Recorded(d)])
                          \/ Unanswered(d) # {} /\ Block(p, d)
  <2>1. PICK S \in SUBSET Unanswered(Run(p)) : \E answer \in [S -> Answers] : Taken(Reading(S, answer))
    BY <1>4 DEF ReadJournal
  <2>2. PICK answer \in [S -> Answers] : Taken(Reading(S, answer))
    BY <2>1
  <2>3. /\ \A o \in Operations : Reading(S, answer).ops[o] = IF o \in S THEN answer[o] ELSE Run(p).ops[o]
        /\ Reading(S, answer).lock = Run(p).lock
        /\ \A aborted \in BOOLEAN :
              /\ Stopped(Reading(S, answer), aborted).ops = Reading(S, answer).ops
              /\ Stopped(Reading(S, answer), aborted).lock = Run(p).lock
    BY <1>1 DEF Directory, Stopped
  <2>4. \A o \in S : Run(p).ops[o] = "intent" /\ answer[o] \in Answers
    BY DEF Unanswered
  <2>. HIDE DEF Reading
  <2>5. PICK d : /\ Store(p, d) /\ d.ops = Reading(S, answer).ops /\ d.lock = Run(p).lock
                 /\ proc'[p].pc = "closing" \/ Unanswered(d) = {}
    <3>1. CASE Unanswered(Reading(S, answer)) = {}
      BY <2>2, <2>3, <3>1
    <3>2. CASE Unanswered(Reading(S, answer)) # {}
      <4>1. Block(p, Reading(S, answer))
        BY <2>2, <3>2
      <4>2. proc'[p] = [proc[p] EXCEPT !.pc = "closing", !.known = Recorded(Reading(S, answer))]
        BY <4>1, BecomeFrame DEF Block
      <4>3. proc'[p].pc = "closing"
        BY <1>1, <4>2 DEF Process
      <4>. QED BY <2>3, <4>1, <4>3 DEF Block
    <3>. QED BY <3>1, <3>2
  <2>6. dir'[proc[p].run] = d /\ SameLocks /\ \A r \in Runs : r # proc[p].run => dir'[r] = dir[r]
    BY <1>1, <2>5, StoreFrame
  <2>. QED BY <2>3, <2>4, <2>5, <2>6 DEF Unanswered
<1>. QED BY <1>3, <1>4

LEMMA QuietJournal ==
    ASSUME Typed, NEW p \in Runners, ReadJournal(p)
    PROVE  Quiet
<1>1. calls' = calls
  BY DEF ReadJournal
<1>2. "none" \notin Answers
  BY WorkflowAssumption DEF Results
<1>3. \A r \in Runs, o \in Operations : dir[r].ops[o] # "none" => dir'[r].ops[o] # "none"
  BY <1>2, JournalFrame DEF Run
<1>. QED BY <1>1, <1>3, PhaseFrame, RestedOut DEF Quiet, AsBefore

LEMMA QuietNode ==
    ASSUME Typed, NEW p \in Runners, NEW n \in Nodes,
           \/ Visit(p, n) \/ Try(p, n) \/ WriteInventory(p, n) \/ Consider(p, n) \/ Save(p, n)
           \/ AdapterThrows(p, n)
    PROVE  Quiet
<1>1. \A r \in Runs, o \in Operations : dir[r].ops[o] # "none" => dir'[r].ops[o] # "none"
  BY NodeFrame DEF NodeMove, SameJournals
<1>2. proc'[p].run = proc[p].run /\ proc'[p].phase[n] \notin Out
      /\ \A m \in Nodes : m # n => proc'[p].phase[m] = proc[p].phase[m] /\ proc'[p].attempt[m] = proc[p].attempt[m]
  BY NodeFrame DEF NodeMove, OnlyPhase, OnlyNode, Out
<1>. QED BY <1>1, <1>2, NodeFrame DEF Quiet

LEMMA QuietAnswer ==
    ASSUME Typed, NEW p \in Runners, NEW n \in Nodes, NEW result \in Answers, Answer(p, n, result)
    PROVE  Quiet
<1>1. result # "none"
  BY WorkflowAssumption DEF Results
<1>. QED BY <1>1, AnswerFrame DEF Quiet, OnlyPhase, OnlyNode, Out

LEMMA QuietOther ==
    ASSUME Typed,
           \/ \E r \in Runs : RequestCancel(r)
           \/ \E p \in Runners, g \in Gates : VisitGate(p, g)
           \/ Lapse \/ UNCHANGED vars
    PROVE  Quiet
<1>1. SameJournals
  <2>1. ASSUME NEW r \in Runs, RequestCancel(r) PROVE SameJournals
    BY <2>1 DEF RequestCancel, SameJournals, Typed, TypeOK, Directory
  <2>. QED BY <2>1, RunnerFrame DEF Lapse, vars, SameJournals
<1>2. proc' = proc /\ calls' = calls
  BY DEF RequestCancel, VisitGate, Lapse, vars
<1>. QED BY <1>1, <1>2 DEF Quiet, SameJournals

LEMMA RecordKeeps ==
    ASSUME Typed, Dispatches, NEW p \in Runners, NEW n \in Nodes, WriteRecord(p, n)
    PROVE  Dispatches'
<1>1. /\ proc[p].run \in Runs /\ Run(p) \in Directory /\ proc[p] \in Process
      /\ proc[p].attempt[n] < Attempts /\ Op(p, n) \in Operations
  BY RunTyped, OpTyped DEF WriteRecord, Alive, Typed, Placed, Dispatching
<1>2. /\ calls' = calls
      /\ \A q \in Runners, m \in Nodes : q # p \/ m # n =>
            proc'[q].phase[m] = proc[q].phase[m] /\ Op(q, m)' = Op(q, m)
      /\ \A q \in Runners : proc'[q].run = proc[q].run
      /\ Op(p, n)' = Op(p, n)
  <2>1. /\ calls' = calls /\ \A q \in Runners : q # p => proc'[q] = proc[q]
        /\ OnlyNode(p, n, proc'[p]) /\ proc'[p].attempt = proc[p].attempt
    BY RecordFrame DEF OnlyPhase
  <2>. QED BY <2>1 DEF OnlyNode, Op
<1>3. CASE OnlyPhase(p, n, proc'[p], "failed") /\ SameJournals
  <2>1. Quiet
    BY <1>2, <1>3 DEF Quiet, Out, Op, OnlyPhase, SameJournals
  <2>. QED BY <2>1, QuietKeeps
<1>4. CASE /\ OnlyPhase(p, n, proc'[p], "call") /\ Run(p).ops[Op(p, n)] = "none"
           /\ \A r \in Runs, o \in Operations :
                 dir'[r].ops[o] = IF r = proc[p].run /\ o = Op(p, n) THEN "intent" ELSE dir[r].ops[o]
  <2>1. proc'[p].phase[n] = "call"
    BY <1>4 DEF OnlyPhase
  <2>2. dir'[proc[p].run].ops[Op(p, n)] = "intent"
    BY <1>1, <1>4
  <2>3. \A r \in Runs, o \in Operations : dir[r].ops[o] # "none" => dir'[r].ops[o] # "none"
    BY <1>4 DEF Run
  <2>4. calls[proc[p].run][Op(p, n)] = <<>>
    BY <1>1, <1>4 DEF Dispatches, DispatchedOnce, Run
  \* nobody else was called out for an operation without a record
  <2>5. \A q \in Runners, m \in Nodes :
           proc[q].phase[m] \in Out /\ proc[q].run = proc[p].run => Op(q, m) # Op(p, n)
    BY <1>4 DEF Dispatches, Run
  <2>6. ASSUME NEW q \in Runners, NEW m \in Nodes, proc'[q].phase[m] \in Out
        PROVE  dir'[proc'[q].run].ops[Op(q, m)'] # "none"
    <3>1. CASE q = p /\ m = n
      BY <1>2, <2>2, <3>1
    <3>2. CASE q # p \/ m # n
      <4>1. proc[q].phase[m] \in Out
        BY <1>2, <2>6, <3>2
      <4>2. proc[q].run \in Runs /\ Op(q, m) \in Operations
        BY <4>1, OpTyped DEF Typed, Placed, Out, Dispatching
      <4>. QED BY <1>2, <2>3, <3>2, <4>1, <4>2 DEF Dispatches
    <3>. QED BY <3>1, <3>2
  <2>7. ASSUME NEW q \in Runners, NEW m \in Nodes, proc'[q].phase[m] = "call"
        PROVE  /\ calls'[proc'[q].run][Op(q, m)'] = <<>>
               /\ \A u \in Runners, k \in Nodes :
                     /\ proc'[u].phase[k] = "call" /\ proc'[u].run = proc'[q].run
                     /\ Op(u, k)' = Op(q, m)'
                     => u = q
    BY <1>2, <2>4, <2>5, <2>7 DEF Dispatches, Out
  <2>8. DispatchedOnce'
    BY <1>2, <2>3 DEF Dispatches, DispatchedOnce
  <2>. QED BY <2>6, <2>7, <2>8 DEF Dispatches
<1>. QED BY <1>3, <1>4, RecordFrame

LEMMA CallKeeps ==
    ASSUME Typed, Dispatches, NEW p \in Runners, NEW n \in Nodes, CallAdapter(p, n)
    PROVE  Dispatches'
<1>1. /\ proc[p].run \in Runs /\ proc[p] \in Process
      /\ proc[p].attempt[n] < Attempts /\ Op(p, n) \in Operations
  BY RunTyped, OpTyped DEF CallAdapter, Alive, Typed, Placed, Dispatching
<1>2. /\ dir' = dir /\ proc'[p].phase[n] = "running"
      /\ \A q \in Runners, m \in Nodes : q # p \/ m # n =>
            proc'[q].phase[m] = proc[q].phase[m] /\ Op(q, m)' = Op(q, m)
      /\ \A q \in Runners : proc'[q].run = proc[q].run
      /\ Op(p, n)' = Op(p, n)
  BY CallFrame DEF OnlyPhase, OnlyNode, Op
<1>3. /\ calls[proc[p].run][Op(p, n)] = <<>> /\ dir[proc[p].run].ops[Op(p, n)] # "none"
      /\ proc[p].phase[n] = "call"
  BY DEF Dispatches, CallAdapter, Out
<1>4. \A r \in Runs, o \in Operations :
          calls'[r][o] = IF r = proc[p].run /\ o = Op(p, n) THEN <<p>> ELSE calls[r][o]
  BY <1>1, <1>3 DEF CallAdapter, Typed, TypeOK
<1>5. ASSUME NEW q \in Runners, NEW m \in Nodes, proc'[q].phase[m] \in Out
      PROVE  dir'[proc'[q].run].ops[Op(q, m)'] # "none"
  BY <1>2, <1>3, <1>5 DEF Dispatches
<1>6. ASSUME NEW q \in Runners, NEW m \in Nodes, proc'[q].phase[m] = "call"
      PROVE  /\ calls'[proc'[q].run][Op(q, m)'] = <<>>
             /\ \A u \in Runners, k \in Nodes :
                   /\ proc'[u].phase[k] = "call" /\ proc'[u].run = proc'[q].run
                   /\ Op(u, k)' = Op(q, m)'
                   => u = q
  <2>1. q # p \/ m # n
    BY <1>2, <1>6
  <2>2. proc[q].phase[m] = "call" /\ proc'[q].run = proc[q].run /\ Op(q, m)' = Op(q, m)
    BY <1>2, <1>6, <2>1
  <2>3. proc[q].run \in Runs /\ Op(q, m) \in Operations
    BY <2>2, OpTyped DEF Typed, Placed, Dispatching
  \* the operation called is not this one: its caller would be p, and m would be n
  <2>4. ~(proc[q].run = proc[p].run /\ Op(q, m) = Op(p, n))
    BY <1>3, <2>1, <2>2 DEF Dispatches, Op
  <2>. QED BY <1>2, <1>4, <2>2, <2>3, <2>4 DEF Dispatches
<1>7. ASSUME NEW r \in Runs, NEW o \in Operations
      PROVE  Len(calls'[r][o]) <= 1 /\ (calls'[r][o] # <<>> => dir'[r].ops[o] # "none")
  <2>1. CASE r = proc[p].run /\ o = Op(p, n)
    <3>1. calls'[r][o] = <<p>> /\ dir'[r].ops[o] # "none"
      BY <1>2, <1>3, <1>4, <2>1
    <3>2. Len(<<p>>) <= 1
      OBVIOUS
    <3>. QED BY <3>1, <3>2
  <2>2. CASE ~(r = proc[p].run /\ o = Op(p, n))
    BY <1>2, <1>4, <2>2 DEF Dispatches, DispatchedOnce
  <2>. QED BY <2>1, <2>2
<1>. QED BY <1>5, <1>6, <1>7 DEF Dispatches, DispatchedOnce

LEMMA DispatchesInit == Init => Dispatches
BY DEF Init, Dispatches, DispatchedOnce, Rested, Out

LEMMA DispatchesNext == Typed /\ Dispatches /\ [Next]_vars => Dispatches'
<1>. SUFFICES ASSUME Typed, Dispatches, [Next]_vars PROVE Dispatches'
  OBVIOUS
<1>1. ASSUME NEW p \in Runners, RunnerStep(p) \/ AdapterStep(p)
      PROVE  Dispatches'
  BY <1>1, QuietStart, QuietJournal, QuietNode, QuietAnswer, QuietOther, QuietKeeps, RecordKeeps, CallKeeps
     DEF RunnerStep, NodeStep, AdapterStep
<1>. QED BY <1>1, QuietRest, QuietOther, QuietKeeps DEF Next

\* No operation is dispatched twice or before its record exists: whoever dies in between, and also
\* when a second recoverer has let two runners into the same run.
THEOREM DispatchedOnceHolds == Spec => []DispatchedOnce
<1>1. Spec => [](Typed /\ Dispatches)
  BY TypedInit, TypedNext, DispatchesInit, DispatchesNext, PTL DEF Spec
<1>. QED BY <1>1, PTL DEF Dispatches

-----------------------------------------------------------------------------
(* Bound: everybody past the binding works on the run of the claim. *)

Outside == {"idle", "bind", "recover", "dead"}
InsidePlaces == {"open", "inventory", "journal", "database", "admit", "graph", "closing", "unlock",
                 "unlink", "retained"}

Bound ==
    /\ \A p \in Runners : proc[p].pc \notin Outside => proc[p].run = binding
    /\ \A r \in Runs, o \in Operations : calls[r][o] # <<>> => r = binding

\* Most steps are taken inside a run, and stay inside it or end the call.
LEMMA PlaceFrame ==
    ASSUME Typed, NEW p \in Runners,
           \/ Open(p) \/ CreateInventory(p) \/ ReadJournal(p) \/ OpenDatabase(p)
           \/ Refuse(p) \/ Admit(p) \/ AdmitNothing(p) \/ CompareToken(p)
           \/ Abort(p) \/ GraphFails(p) \/ GraphEnds(p) \/ Retain(p) \/ Settle(p)
    PROVE  proc[p].pc \in InsidePlaces /\ (proc'[p].pc \in InsidePlaces \/ proc'[p] = Rested)
<1>1. proc[p] \in Process
  BY GoodNow DEF Good
<1>2. proc[p].pc \in InsidePlaces
  BY DEF Open, CreateInventory, ReadJournal, OpenDatabase, Refuse, Admit, AdmitNothing, CompareToken,
     Abort, GraphFails, GraphEnds, Retain, Settle, At, InsidePlaces
<1>. DEFINE Inner(s) == s.pc \in InsidePlaces \/ s = Rested
<1>. SUFFICES \E s : Become(p, s) /\ Inner(s)
  BY <1>2, BecomeFrame
<1>3. \A place \in InsidePlaces : \A fresh, known, granted :
         /\ Inner([proc[p] EXCEPT !.pc = place])
         /\ Inner([proc[p] EXCEPT !.pc = place, !.fresh = fresh])
         /\ Inner([proc[p] EXCEPT !.pc = place, !.known = known])
         /\ Inner([proc[p] EXCEPT !.pc = place, !.granted = granted])
         /\ Inner([proc[p] EXCEPT !.pc = place, !.aborted = TRUE])
         /\ Inner([proc[p] EXCEPT !.aborted = TRUE])
         /\ Inner(Rested)
  BY <1>1, <1>2 DEF Process
<1>4. /\ {"open", "inventory", "journal", "database", "admit", "graph"} \subseteq InsidePlaces
      /\ {"closing", "unlock", "unlink", "retained"} \subseteq InsidePlaces
  BY DEF InsidePlaces
<1>. HIDE DEF Inner
<1>. USE <1>3, <1>4 DEF Goto
<1>5. CASE Open(p) \/ CreateInventory(p) \/ AdmitNothing(p) \/ Abort(p) \/ CompareToken(p)
  BY <1>5 DEF Open, CreateInventory, AdmitNothing, Abort, CompareToken
<1>6. CASE GraphFails(p) \/ GraphEnds(p) \/ Retain(p) \/ Settle(p)
  BY <1>6 DEF GraphFails, GraphEnds, Retain, Settle
<1>7. CASE OpenDatabase(p) \/ Refuse(p)
  BY <1>7 DEF OpenDatabase, Refuse, Block
<1>8. CASE ReadJournal(p)
  <2>1. \E place \in {"database", "closing"} : \E known : Become(p, [proc[p] EXCEPT !.pc = place, !.known = known])
    BY <1>8 DEF ReadJournal, Block
  <2>. QED BY <2>1
<1>9. CASE Admit(p)
  <2>1. \/ Goto(p, "closing")
        \/ \E granted : Become(p, [proc[p] EXCEPT !.pc = "graph", !.granted = granted])
    BY <1>9 DEF Admit
  <2>. QED BY <2>1
<1>. QED BY <1>5, <1>6, <1>7, <1>8, <1>9

LEMMA RestedPlace ==
    /\ Rested.pc = "idle" /\ Rested.run = None
    /\ \A place : [Rested EXCEPT !.pc = place].pc = place
    /\ \A place, r : LET s == [Rested EXCEPT !.pc = place, !.run = r] IN s.pc = place /\ s.run = r
BY DEF Rested

\* A step on a node, of whatever kind, leaves the places and the locks alone.
AnyNodeStep(p, n) ==
    \/ Visit(p, n) \/ Try(p, n) \/ WriteInventory(p, n) \/ WriteRecord(p, n) \/ CallAdapter(p, n)
    \/ Consider(p, n) \/ Save(p, n) \/ AdapterThrows(p, n) \/ \E result \in Answers : Answer(p, n, result)

LEMMA NodePlace ==
    ASSUME Typed, NEW p \in Runners, NEW n \in Nodes, AnyNodeStep(p, n)
    PROVE  /\ proc[p].pc \in {"graph", "closing", "retained"}
           /\ OnlyNode(p, n, proc'[p]) /\ \A q \in Runners : q # p => proc'[q] = proc[q]
           /\ SameLocks /\ UNCHANGED <<binding, standing>>
<1>1. proc[p].pc \in {"graph", "closing", "retained"} /\ UNCHANGED <<binding, standing>>
  BY DEF AnyNodeStep, Visit, Try, WriteInventory, WriteRecord, CallAdapter, Consider, Save, AdapterThrows,
     Answer, Alive, At
<1>2. CASE WriteRecord(p, n)
  BY <1>1, <1>2, RecordFrame DEF OnlyPhase
<1>3. CASE CallAdapter(p, n)
  BY <1>1, <1>3, CallFrame DEF OnlyPhase, SameLocks
<1>4. CASE \E result \in Answers : Answer(p, n, result)
  BY <1>1, <1>4, AnswerFrame DEF OnlyPhase
<1>5. CASE ~WriteRecord(p, n) /\ ~CallAdapter(p, n) /\ ~\E result \in Answers : Answer(p, n, result)
  BY <1>1, <1>5, NodeFrame DEF AnyNodeStep, NodeMove, OnlyPhase
<1>. QED BY <1>2, <1>3, <1>4, <1>5

LEMMA BoundNext == Typed /\ Bound /\ [Next]_vars => Bound'
<1>. SUFFICES ASSUME Typed, Bound, [Next]_vars PROVE Bound'
  OBVIOUS
<1>. USE DEF Bound
\* A step of p that binds nothing and calls nobody: p stays where it is, or is outside.
<1>1. ASSUME NEW p \in Runners, UNCHANGED <<binding, calls>>, \A q \in Runners : q # p => proc'[q] = proc[q],
             \/ proc'[p].pc \in Outside
             \/ proc[p].pc \notin Outside /\ proc'[p].run = proc[p].run
      PROVE  Bound'
  BY <1>1
<1>2. ASSUME NEW p \in Runners, Bind(p) PROVE Bound'
  <2>1. /\ calls' = calls /\ proc[p].run \in Runs /\ proc[p] \in Process
        /\ AsBefore(p, proc'[p]) /\ \A q \in Runners : q # p => proc'[q] = proc[q]
    BY <1>2, RunTyped, PhaseFrame DEF Bind, At
  <2>2. CASE binding \in {None, proc[p].run}
    <3>1. binding' = proc[p].run
      BY <1>2, <2>2 DEF Bind
    <3>2. proc'[p].run = proc[p].run \/ proc'[p].pc = "idle"
      BY <2>1, RestedPlace DEF AsBefore
    <3>3. binding = None => /\ \A q \in Runners : proc[q].pc \in Outside
                            /\ \A r \in Runs, o \in Operations : calls[r][o] = <<>>
      BY RunTyped, WorkflowAssumption DEF Outside
    <3>. QED BY <2>1, <2>2, <3>1, <3>2, <3>3 DEF Outside
  <2>3. CASE binding \notin {None, proc[p].run}
    <3>1. proc'[p] = Rested /\ UNCHANGED binding
      BY <1>2, <2>3, BecomeFrame DEF Bind
    <3>. QED BY <1>1, <2>1, <3>1, RestedPlace DEF Outside
  <2>. QED BY <2>2, <2>3
<1>3. ASSUME NEW p \in Runners, Lock(p) \/ Unlink(p) \/ RemoveLock(p) PROVE Bound'
  <2>1. AsBefore(p, proc'[p]) /\ (\A q \in Runners : q # p => proc'[q] = proc[q]) /\ UNCHANGED <<binding, calls>>
    BY <1>3, PhaseFrame DEF Lock, Unlink, RemoveLock
  <2>2. Lock(p) \/ Unlink(p) => proc[p].pc \notin Outside
    BY DEF Lock, Unlink, At, Outside
  <2>3. RemoveLock(p) => proc'[p] = Rested
    BY BecomeFrame DEF RemoveLock
  <2>. QED BY <1>1, <1>3, <2>1, <2>2, <2>3, RestedPlace DEF AsBefore, Outside
<1>4. ASSUME NEW p \in Runners,
             \/ Open(p) \/ CreateInventory(p) \/ ReadJournal(p) \/ OpenDatabase(p)
             \/ Refuse(p) \/ Admit(p) \/ AdmitNothing(p) \/ CompareToken(p)
             \/ Abort(p) \/ GraphFails(p) \/ GraphEnds(p) \/ Retain(p) \/ Settle(p)
      PROVE  Bound'
  <2>1. UNCHANGED <<binding, calls>>
    BY <1>4 DEF Open, CreateInventory, ReadJournal, OpenDatabase, Refuse, Admit, AdmitNothing, CompareToken,
       Abort, GraphFails, GraphEnds, Retain, Settle
  <2>2. proc[p].pc \notin Outside
    BY <1>4, PlaceFrame DEF InsidePlaces, Outside
  <2>. QED BY <1>1, <1>4, <2>1, <2>2, PhaseFrame, RestedPlace DEF AsBefore, Outside
<1>5. ASSUME NEW p \in Runners, NEW n \in Nodes, AnyNodeStep(p, n) PROVE Bound'
  <2>1. proc[p].pc \notin Outside /\ proc'[p].run = proc[p].run /\ UNCHANGED binding
        /\ \A q \in Runners : q # p => proc'[q] = proc[q]
    BY <1>5, NodePlace DEF Outside, OnlyNode
  <2>2. CASE CallAdapter(p, n)
    <3>1. \A r \in Runs : r # proc[p].run => calls'[r] = calls[r]
      BY <2>2 DEF CallAdapter, Typed, TypeOK
    <3>. QED BY <2>1, <3>1
  <2>3. CASE ~CallAdapter(p, n)
    <3>1. UNCHANGED calls
      BY <1>5, <2>3, NodeFrame, RecordFrame, AnswerFrame DEF AnyNodeStep
    <3>. QED BY <1>1, <2>1, <3>1
  <2>. QED BY <2>2, <2>3
<1>6. ASSUME NEW p \in Runners, NEW r \in Runs, Execute(p, r) \/ Recover(p, r) PROVE Bound'
  <2>1. \E place \in {"bind", "recover"} : proc'[p] = [Rested EXCEPT !.pc = place, !.run = r]
    BY <1>6, BecomeFrame DEF Execute, Recover
  <2>2. proc'[p].pc \in Outside
    BY <2>1, RestedPlace DEF Outside
  <2>. QED BY <1>1, <1>6, <2>2, BecomeFrame DEF Execute, Recover
<1>7. ASSUME NEW p \in Runners, Die(p) PROVE Bound'
  <2>1. proc'[p] = [Rested EXCEPT !.pc = "dead"]
    BY <1>7, BecomeFrame DEF Die
  <2>2. proc'[p].pc \in Outside
    BY <2>1, RestedPlace DEF Outside
  <2>. QED BY <1>1, <1>7, <2>2, BecomeFrame DEF Die
<1>8. ASSUME UNCHANGED <<binding, proc, calls>> PROVE Bound'
  BY <1>8
<1>9. ASSUME NEW p \in Runners, RunnerStep(p) \/ AdapterStep(p) PROVE Bound'
  BY <1>2, <1>3, <1>4, <1>5, <1>8, <1>9 DEF RunnerStep, NodeStep, AdapterStep, AnyNodeStep, VisitGate
<1>. QED BY <1>6, <1>7, <1>8, <1>9 DEF Next, RequestCancel, Lapse, vars

\* The adapters are called for at most one run of a claim.
THEOREM OneRunPerClaimHolds == Spec => []OneRunPerClaim
<1>1. Init => Bound
  BY DEF Init, Bound, Rested, Outside
<1>2. Spec => [](Typed /\ Bound)
  BY TypedInit, TypedNext, <1>1, BoundNext, PTL DEF Spec
<1>3. Bound => OneRunPerClaim
  BY DEF Bound, OneRunPerClaim
<1>. QED BY <1>2, <1>3, PTL

-----------------------------------------------------------------------------
(* Locked: everybody inside a run holds its lock.  Two recoverers may both   *)
(* have seen the dead holder's lock, and the second then removes the lock of *)
(* a live one; with one recoverer this cannot be.                            *)

SoleRecoverer == \A p, q \in Recoverers : p = q

Locked ==
    \A p \in Runners :
        /\ proc[p].pc \in InsidePlaces => dir[proc[p].run].lock = p
        /\ proc[p].pc = "recover" =>
              /\ p \in Recoverers
              /\ dir[proc[p].run].lock \in Runners
              /\ proc[dir[proc[p].run].lock].pc = "dead"

LEMMA LockedNext ==
    ASSUME SoleRecoverer
    PROVE  Typed /\ Locked /\ [Next]_vars => Locked'
<1>. SUFFICES ASSUME Typed, Locked, [Next]_vars PROVE Locked'
  OBVIOUS
\* A step of p that changes no lock: p stays inside, or is neither inside nor recovering.
<1>1. ASSUME NEW p \in Runners, proc[p].pc # "dead", SameLocks, \A q \in Runners : q # p => proc'[q] = proc[q],
             \/ proc'[p].pc \notin InsidePlaces \cup {"recover"}
             \/ proc[p].pc \in InsidePlaces /\ proc'[p].pc \in InsidePlaces /\ proc'[p].run = proc[p].run
      PROVE  Locked'
  <2>1. ASSUME NEW q \in Runners, q # p, proc[q].pc \in InsidePlaces \cup {"recover"}
        PROVE  dir'[proc'[q].run].lock = dir[proc[q].run].lock
    BY <1>1, <2>1, RunTyped DEF SameLocks, InsidePlaces
  <2>2. ASSUME NEW q \in Runners, q # p
        PROVE  /\ proc'[q].pc \in InsidePlaces => dir'[proc'[q].run].lock = q
               /\ proc'[q].pc = "recover" =>
                    /\ q \in Recoverers /\ dir'[proc'[q].run].lock \in Runners
                    /\ proc'[dir'[proc'[q].run].lock].pc = "dead"
    <3>1. proc'[q] = proc[q]
      BY <1>1, <2>2
    <3>2. CASE proc[q].pc \in InsidePlaces
      BY <2>1, <2>2, <3>1, <3>2 DEF Locked, InsidePlaces
    <3>3. CASE proc[q].pc = "recover"
      <4>1. /\ q \in Recoverers /\ dir[proc[q].run].lock \in Runners
            /\ proc[dir[proc[q].run].lock].pc = "dead"
        BY <3>3 DEF Locked
      <4>2. proc'[dir[proc[q].run].lock] = proc[dir[proc[q].run].lock]
        BY <1>1, <4>1
      <4>. QED BY <2>1, <2>2, <3>1, <3>3, <4>1, <4>2 DEF InsidePlaces
    <3>. QED BY <3>1, <3>2, <3>3
  <2>3. /\ proc'[p].pc \in InsidePlaces => dir'[proc'[p].run].lock = p
        /\ proc'[p].pc # "recover"
    <3>1. CASE proc'[p].pc \notin InsidePlaces \cup {"recover"}
      BY <3>1
    <3>2. CASE proc[p].pc \in InsidePlaces /\ proc'[p].pc \in InsidePlaces /\ proc'[p].run = proc[p].run
      BY <1>1, <3>2, RunTyped DEF SameLocks, Locked, InsidePlaces
    <3>. QED BY <1>1, <3>1, <3>2
  <2>. QED BY <2>2, <2>3 DEF Locked
<1>2. ASSUME NEW p \in Runners,
             \/ Open(p) \/ CreateInventory(p) \/ ReadJournal(p) \/ OpenDatabase(p)
             \/ Refuse(p) \/ Admit(p) \/ AdmitNothing(p) \/ CompareToken(p)
             \/ Abort(p) \/ GraphFails(p) \/ GraphEnds(p) \/ Retain(p) \/ Settle(p)
      PROVE  Locked'
  <2>1. SameLocks
    BY <1>2, RunnerFrame, JournalFrame
  <2>2. proc[p].pc \in InsidePlaces /\ (proc'[p].pc \in InsidePlaces \/ proc'[p] = Rested)
    BY <1>2, PlaceFrame
  <2>3. AsBefore(p, proc'[p]) /\ \A q \in Runners : q # p => proc'[q] = proc[q]
    BY <1>2, PhaseFrame
  <2>4. Rested.pc \notin InsidePlaces \cup {"recover"} /\ "dead" \notin InsidePlaces
    BY RestedPlace DEF InsidePlaces
  <2>. QED BY <1>1, <2>1, <2>2, <2>3, <2>4 DEF AsBefore
<1>3. ASSUME NEW p \in Runners, NEW n \in Nodes, AnyNodeStep(p, n) PROVE Locked'
  <2>1. /\ proc[p].pc \in InsidePlaces /\ proc'[p].pc \in InsidePlaces /\ proc'[p].run = proc[p].run
        /\ proc[p].pc # "dead"
    BY <1>3, NodePlace DEF InsidePlaces, OnlyNode
  <2>. QED BY <1>1, <1>3, <2>1, NodePlace
<1>4. ASSUME NEW p \in Runners, Bind(p) PROVE Locked'
  <2>1. SameLocks /\ proc[p] \in Process /\ proc[p].pc = "bind"
    BY <1>4, RunnerFrame, GoodNow DEF Good, Bind, At
  <2>2. proc'[p].pc \in {"lock", "idle"}
    <3>1. \/ proc'[p] = [proc[p] EXCEPT !.pc = "lock", !.fresh = TRUE]
          \/ proc'[p] = [proc[p] EXCEPT !.pc = "lock"]
          \/ proc'[p] = Rested
      BY <1>4, BecomeFrame DEF Bind, Goto
    <3>. QED BY <2>1, <3>1, RestedPlace DEF Process
  <2>. QED BY <1>1, <1>4, <2>1, <2>2, PhaseFrame DEF InsidePlaces
<1>5. ASSUME NEW p \in Runners, Die(p) PROVE Locked'
  <2>1. proc'[p] = [Rested EXCEPT !.pc = "dead"] /\ (\A q \in Runners : q # p => proc'[q] = proc[q])
        /\ SameLocks /\ proc[p].pc # "dead"
    BY <1>5, BecomeFrame DEF Die, SameLocks
  <2>2. proc'[p].pc = "dead"
    BY <2>1, RestedPlace
  <2>. QED BY <1>1, <2>1, <2>2 DEF InsidePlaces
<1>6. ASSUME NEW p \in Runners, NEW r \in Runs, Execute(p, r) PROVE Locked'
  <2>1. /\ proc'[p] = [Rested EXCEPT !.pc = "bind", !.run = r] /\ (\A q \in Runners : q # p => proc'[q] = proc[q])
        /\ SameLocks /\ proc[p].pc # "dead"
    BY <1>6, BecomeFrame DEF Execute, SameLocks, At
  <2>2. proc'[p].pc = "bind"
    BY <2>1, RestedPlace
  <2>. QED BY <1>1, <2>1, <2>2 DEF InsidePlaces
<1>7. ASSUME NEW p \in Runners, NEW r \in Runs, Recover(p, r) PROVE Locked'
  <2>1. /\ proc'[p] = [Rested EXCEPT !.pc = "recover", !.run = r] /\ (\A q \in Runners : q # p => proc'[q] = proc[q])
        /\ dir' = dir /\ proc[p].pc = "idle" /\ p \in Recoverers
        /\ dir[r].lock # None /\ proc[dir[r].lock].pc = "dead"
    BY <1>7, BecomeFrame DEF Recover, At
  <2>2. proc'[p].pc = "recover" /\ proc'[p].run = r /\ dir[r].lock \in Runners
    BY <2>1, RestedPlace DEF Typed, TypeOK, Directory
  <2>3. ASSUME NEW q \in Runners, proc[q].pc = "dead" PROVE proc'[q].pc = "dead"
    BY <2>1, <2>3
  <2>4. ASSUME NEW q \in Runners, q # p
        PROVE  /\ proc[q].pc \in InsidePlaces => dir[proc[q].run].lock = q
               /\ proc[q].pc = "recover" =>
                    /\ q \in Recoverers /\ dir[proc[q].run].lock \in Runners
                    /\ proc'[dir[proc[q].run].lock].pc = "dead"
    BY <2>3 DEF Locked
  <2>5. ASSUME NEW q \in Runners, q # p
        PROVE  /\ proc'[q].pc \in InsidePlaces => dir'[proc'[q].run].lock = q
               /\ proc'[q].pc = "recover" =>
                    /\ q \in Recoverers /\ dir'[proc'[q].run].lock \in Runners
                    /\ proc'[dir'[proc'[q].run].lock].pc = "dead"
    BY <2>1, <2>4, <2>5
  <2>6. /\ proc'[p].pc \notin InsidePlaces /\ p \in Recoverers
        /\ dir'[proc'[p].run].lock \in Runners /\ proc'[dir'[proc'[p].run].lock].pc = "dead"
    BY <2>1, <2>2, <2>3 DEF InsidePlaces
  <2>. QED BY <2>5, <2>6 DEF Locked
<1>8. ASSUME NEW p \in Runners, Lock(p) PROVE Locked'
  <2>1. proc[p].run \in Runs /\ Run(p) \in Directory /\ proc[p] \in Process /\ proc[p].pc = "lock"
    BY <1>8, RunTyped DEF Lock, At
  <2>2. CASE Run(p).lock = None
    <3>1. /\ Become(p, [proc[p] EXCEPT !.pc = "open"]) /\ Store(p, [Run(p) EXCEPT !.lock = p])
      BY <1>8, <2>2 DEF Lock, Goto
    <3>2. /\ proc'[p].pc = "open" /\ proc'[p].run = proc[p].run /\ \A q \in Runners : q # p => proc'[q] = proc[q]
      BY <2>1, <3>1, BecomeFrame DEF Process
    <3>3. /\ dir'[proc[p].run].lock = p
          /\ \A r \in Runs : r # proc[p].run => dir'[r] = dir[r]
      BY <2>1, <3>1, StoreFrame DEF Directory
    <3>4. ASSUME NEW q \in Runners, q # p, proc[q].pc \in InsidePlaces \cup {"recover"}
          PROVE  proc[q].run \in Runs /\ proc[q].run # proc[p].run
      BY <2>2, <3>4, RunTyped, WorkflowAssumption DEF Locked, Run, InsidePlaces
    <3>5. ASSUME NEW q \in Runners, proc[q].pc = "dead" PROVE proc'[q].pc = "dead"
      BY <2>1, <3>2, <3>5
    <3>. QED BY <3>2, <3>3, <3>4, <3>5 DEF Locked, InsidePlaces
  <2>3. CASE Run(p).lock # None
    <3>1. proc'[p] = Rested /\ SameLocks /\ \A q \in Runners : q # p => proc'[q] = proc[q]
      BY <1>8, <2>3, BecomeFrame DEF Lock, SameLocks
    <3>. QED BY <1>1, <2>1, <3>1, RestedPlace DEF InsidePlaces
  <2>. QED BY <2>2, <2>3
<1>9. ASSUME NEW p \in Runners, Unlink(p) \/ RemoveLock(p) PROVE Locked'
  <2>1. /\ proc[p].run \in Runs /\ Run(p) \in Directory /\ proc[p].pc \in {"unlink", "recover"}
        /\ proc[p].pc = "unlink" \/ p \in Recoverers
    BY <1>9, RunTyped DEF Unlink, RemoveLock, At, Locked
  <2>2. Become(p, Rested) /\ Store(p, [Run(p) EXCEPT !.lock = None])
    BY <1>9 DEF Unlink, RemoveLock
  <2>3. proc'[p].pc = "idle" /\ \A q \in Runners : q # p => proc'[q] = proc[q]
    BY <2>2, BecomeFrame, RestedPlace
  <2>4. \A r \in Runs : r # proc[p].run => dir'[r] = dir[r]
    BY <2>1, <2>2, StoreFrame
  \* nobody else is inside this run or about to remove its lock
  <2>5. ASSUME NEW q \in Runners, q # p, proc[q].pc \in InsidePlaces \cup {"recover"}
        PROVE  proc[q].run \in Runs /\ proc[q].run # proc[p].run
    <3>1. proc[q].run \in Runs
      BY <2>5, RunTyped DEF InsidePlaces
    <3>2. CASE proc[p].pc = "unlink"
      <4>1. dir[proc[p].run].lock = p
        BY <3>2 DEF Locked, InsidePlaces
      <4>. QED BY <2>5, <3>1, <3>2, <4>1 DEF Locked
    <3>3. CASE proc[p].pc = "recover"
      <4>1. proc[dir[proc[p].run].lock].pc = "dead"
        BY <3>3 DEF Locked
      <4>. QED BY <2>1, <2>5, <3>1, <3>3, <4>1 DEF Locked, SoleRecoverer, InsidePlaces
    <3>. QED BY <2>1, <3>2, <3>3
  <2>6. ASSUME NEW q \in Runners, proc[q].pc = "dead" PROVE proc'[q].pc = "dead"
    BY <2>1, <2>3, <2>6
  <2>. QED BY <2>3, <2>4, <2>5, <2>6 DEF Locked, InsidePlaces
<1>10. ASSUME proc' = proc, SameLocks PROVE Locked'
  BY <1>10, RunTyped DEF SameLocks, Locked, InsidePlaces
<1>11. ASSUME NEW p \in Runners, RunnerStep(p) \/ AdapterStep(p) PROVE Locked'
  <2>1. ASSUME NEW g \in Gates, VisitGate(p, g) PROVE Locked'
    BY <1>10, <2>1, RunnerFrame DEF VisitGate
  <2>. QED BY <1>2, <1>3, <1>4, <1>8, <1>9, <1>11, <2>1 DEF RunnerStep, NodeStep, AdapterStep, AnyNodeStep
<1>12. ASSUME NEW r \in Runs, RequestCancel(r) PROVE Locked'
  <2>1. SameLocks
    BY <1>12 DEF RequestCancel, SameLocks, Typed, TypeOK, Directory
  <2>. QED BY <1>10, <1>12, <2>1 DEF RequestCancel
<1>. QED BY <1>5, <1>6, <1>7, <1>10, <1>11, <1>12 DEF Next, Lapse, vars, SameLocks

LEMMA LockedInit == Init => Locked
BY DEF Init, Locked, Rested, InsidePlaces

LEMMA LockedAlways ==
    ASSUME SoleRecoverer
    PROVE  Spec => [](Typed /\ Locked)
<1>1. Typed /\ Locked /\ [Next]_vars => (Typed /\ Locked)'
  BY TypedNext, LockedNext
<1>. QED BY TypedInit, LockedInit, <1>1, PTL DEF Spec

\* One runner at a time is inside a run, from its lock to its unlock, whoever dies and is recovered
\* from, as long as one operator recovers locks.
THEOREM OneDispatcherHolds ==
    ASSUME SoleRecoverer
    PROVE  Spec => []OneDispatcher
<1>1. Typed /\ Locked => OneDispatcher
  BY DEF Locked, OneDispatcher, Inside, InsidePlaces
<1>. QED BY LockedAlways, <1>1, PTL

-----------------------------------------------------------------------------
(* Journaled: what a runner has out is unanswered on disk, and what it       *)
(* considers is answered there; nobody else writes into its journal.         *)

Journaled ==
    \A p \in Runners, n \in Nodes :
        /\ proc[p].phase[n] \in Out => dir[proc[p].run].ops[Op(p, n)] = "intent"
        /\ proc[p].phase[n] \in {"result", "save"} => dir[proc[p].run].ops[Op(p, n)] \in Results

\* A step of p that writes into no journal but that of the run it is inside.
OwnJournal(p) ==
    /\ \A q \in Runners : q # p => proc'[q] = proc[q]
    /\ \/ SameJournals
       \/ proc[p].pc \in InsidePlaces /\ \A r \in Runs : r # proc[p].run => dir'[r].ops = dir[r].ops

LEMMA OthersJournal ==
    ASSUME Typed, Locked, NEW p \in Runners, OwnJournal(p),
           NEW q \in Runners, q # p, proc[q].pc \in InsidePlaces
    PROVE  proc'[q] = proc[q] /\ proc[q].run \in Runs /\ dir'[proc[q].run].ops = dir[proc[q].run].ops
<1>1. proc'[q] = proc[q] /\ proc[q].run \in Runs
  BY RunTyped DEF OwnJournal, InsidePlaces
<1>2. CASE SameJournals
  BY <1>1, <1>2 DEF SameJournals
<1>3. CASE proc[p].pc \in InsidePlaces /\ \A r \in Runs : r # proc[p].run => dir'[r].ops = dir[r].ops
  <2>1. proc[q].run # proc[p].run
    BY <1>3 DEF Locked
  <2>. QED BY <1>1, <1>3, <2>1
<1>. QED BY <1>2, <1>3 DEF OwnJournal

LEMMA BusyTyped ==
    ASSUME Typed, NEW p \in Runners, NEW n \in Nodes, proc[p].phase[n] \notin {"waiting", "failed"}
    PROVE  proc[p].pc \in InsidePlaces /\ Alive(p)
BY DEF Typed, Placed, Alive, InsidePlaces

LEMMA JournalStep ==
    ASSUME Typed, Locked, Journaled, NEW p \in Runners, OwnJournal(p),
           \A n \in Nodes :
              /\ proc'[p].phase[n] \in Out => dir'[proc'[p].run].ops[Op(p, n)'] = "intent"
              /\ proc'[p].phase[n] \in {"result", "save"} => dir'[proc'[p].run].ops[Op(p, n)'] \in Results
    PROVE  Journaled'
<1>1. ASSUME NEW q \in Runners, q # p, NEW n \in Nodes
      PROVE  /\ proc'[q].phase[n] \in Out => dir'[proc'[q].run].ops[Op(q, n)'] = "intent"
             /\ proc'[q].phase[n] \in {"result", "save"} => dir'[proc'[q].run].ops[Op(q, n)'] \in Results
  <2>1. proc'[q] = proc[q] /\ Op(q, n)' = Op(q, n)
    BY <1>1 DEF OwnJournal, Op
  <2>2. CASE proc[q].phase[n] \in Out \cup {"result", "save"}
    <3>1. proc[q].pc \in InsidePlaces
      BY <2>2, BusyTyped DEF Out
    <3>2. dir'[proc[q].run].ops = dir[proc[q].run].ops
      BY <1>1, <3>1, OthersJournal
    <3>. QED BY <2>1, <3>2 DEF Journaled
  <2>3. CASE proc[q].phase[n] \notin Out \cup {"result", "save"}
    BY <2>1, <2>3
  <2>. QED BY <2>2, <2>3
<1>. QED BY <1>1 DEF Journaled

\* The steps that leave the phases alone, or end the call.
LEMMA JournalCalm ==
    ASSUME Typed, Locked, Journaled, NEW p \in Runners, OwnJournal(p), AsBefore(p, proc'[p]),
           SameJournals \/ proc[p].pc = "journal"
    PROVE  Journaled'
<1>1. ASSUME NEW n \in Nodes, proc'[p].phase[n] \in Out \cup {"result", "save"}
      PROVE  /\ proc'[p].phase[n] = proc[p].phase[n] /\ Op(p, n)' = Op(p, n)
             /\ dir'[proc'[p].run].ops = dir[proc[p].run].ops
  <2>1. proc'[p].phase = proc[p].phase /\ proc'[p].run = proc[p].run /\ Op(p, n)' = Op(p, n)
    BY <1>1 DEF AsBefore, Rested, Out, Op
  <2>2. Alive(p) /\ proc[p].run \in Runs
    BY <1>1, <2>1, BusyTyped, RunTyped DEF Out, Alive
  <2>. QED BY <2>1, <2>2 DEF Alive, SameJournals
<1>. QED BY <1>1, JournalStep DEF Journaled

\* Every step: whose it is, and that it writes into no other journal.
LEMMA CalmSteps ==
    ASSUME Typed, NEW p \in Runners,
           \/ Bind(p) \/ Lock(p) \/ Open(p) \/ CreateInventory(p) \/ ReadJournal(p) \/ OpenDatabase(p)
           \/ Refuse(p) \/ Admit(p) \/ AdmitNothing(p)
           \/ CompareToken(p) \/ Unlink(p) \/ RemoveLock(p)
           \/ Abort(p) \/ GraphFails(p) \/ GraphEnds(p) \/ Retain(p) \/ Settle(p)
    PROVE  OwnJournal(p) /\ AsBefore(p, proc'[p]) /\ (SameJournals \/ proc[p].pc = "journal")
<1>1. CASE ReadJournal(p)
  <2>1. proc[p].pc = "journal" /\ proc[p].pc \in InsidePlaces
    BY <1>1 DEF ReadJournal, At, InsidePlaces
  <2>. QED BY <1>1, <2>1, JournalFrame, PhaseFrame DEF OwnJournal
<1>2. CASE ~ReadJournal(p)
  BY <1>2, RunnerFrame, LockFrame, PhaseFrame DEF OwnJournal
<1>. QED BY <1>1, <1>2

LEMMA NodeSteps ==
    ASSUME Typed, NEW p \in Runners, NEW n \in Nodes, AnyNodeStep(p, n)
    PROVE  OwnJournal(p)
<1>1. proc[p].pc \in InsidePlaces /\ \A q \in Runners : q # p => proc'[q] = proc[q]
  BY NodePlace DEF InsidePlaces
<1>2. CASE WriteRecord(p, n) \/ \E result \in Answers : Answer(p, n, result)
  <2>1. \A r \in Runs : r # proc[p].run => dir'[r] = dir[r]
    <3>1. PICK d : Store(p, d) \/ dir' = dir
      BY <1>2 DEF WriteRecord, Answer
    <3>. QED BY <1>1, <3>1, StoreFrame, RunTyped DEF InsidePlaces
  <2>. QED BY <1>1, <2>1 DEF OwnJournal
<1>3. CASE ~(WriteRecord(p, n) \/ \E result \in Answers : Answer(p, n, result))
  BY <1>1, <1>3, NodeFrame, CallFrame DEF OwnJournal, AnyNodeStep, NodeMove, SameJournals
<1>. QED BY <1>2, <1>3

LEMMA RestSteps ==
    ASSUME Typed, NEW p \in Runners, Die(p) \/ \E r \in Runs : Execute(p, r) \/ Recover(p, r)
    PROVE  OwnJournal(p) /\ SameJournals /\ (\A n \in Nodes : proc'[p].phase[n] = "waiting")
           /\ proc'[p].pc \in {"dead", "bind", "recover"}
<1>1. PICK place \in {"dead", "bind", "recover"} :
         \/ Become(p, [Rested EXCEPT !.pc = place])
         \/ \E r : Become(p, [Rested EXCEPT !.pc = place, !.run = r])
  BY DEF Die, Execute, Recover
<1>2. dir' = dir
  BY DEF Die, Execute, Recover
<1>3. (\A n \in Nodes : proc'[p].phase[n] = "waiting") /\ proc'[p].pc \in {"dead", "bind", "recover"}
  <2>1. CASE Become(p, [Rested EXCEPT !.pc = place])
    <3>1. proc'[p] = [Rested EXCEPT !.pc = place]
      BY <2>1, BecomeFrame
    <3>. QED BY <3>1 DEF Rested
  <2>2. CASE \E r : Become(p, [Rested EXCEPT !.pc = place, !.run = r])
    <3>1. PICK r : Become(p, [Rested EXCEPT !.pc = place, !.run = r])
      BY <2>2
    <3>2. proc'[p] = [Rested EXCEPT !.pc = place, !.run = r]
      BY <3>1, BecomeFrame
    <3>. QED BY <3>2 DEF Rested
  <2>. QED BY <1>1, <2>1, <2>2
<1>. QED BY <1>1, <1>2, <1>3, BecomeFrame DEF OwnJournal, SameJournals

LEMMA JournaledNode ==
    ASSUME Typed, Locked, Journaled, NEW p \in Runners, NEW n \in Nodes, AnyNodeStep(p, n)
    PROVE  Journaled'
<1>1. OwnJournal(p) /\ OnlyNode(p, n, proc'[p]) /\ proc[p].run \in Runs
  BY NodeSteps, NodePlace, RunTyped
\* the other nodes of p: their operations are others
<1>2. ASSUME NEW m \in Nodes, m # n
      PROVE  /\ proc'[p].phase[m] = proc[p].phase[m] /\ Op(p, m)' = Op(p, m) /\ proc'[p].run = proc[p].run
             /\ Op(p, m) # Op(p, n)
  BY <1>1, <1>2 DEF OnlyNode, Op
<1>3. ASSUME NEW m \in Nodes, m # n, proc[p].phase[m] \in Dispatching \cup {"save"}
      PROVE  dir'[proc[p].run].ops[Op(p, m)] = dir[proc[p].run].ops[Op(p, m)]
  <2>1. CASE WriteRecord(p, n) \/ \E result \in Answers : Answer(p, n, result)
    <3>1. CASE dir' = dir
      BY <3>1
    <3>2. CASE dir' # dir
      <4>1. PICK record : Store(p, [Run(p) EXCEPT !.ops[Op(p, n)] = record])
        BY <2>1, <3>2 DEF WriteRecord, Answer
      <4>2. dir'[proc[p].run] = [Run(p) EXCEPT !.ops[Op(p, n)] = record]
        BY <1>1, <4>1, StoreFrame
      <4>3. Run(p) \in Directory
        BY <1>1 DEF Typed, TypeOK, Run
      <4>. QED BY <1>2, <1>3, <4>2, <4>3 DEF Directory, Run
    <3>. QED BY <3>1, <3>2
  <2>2. CASE ~(WriteRecord(p, n) \/ \E result \in Answers : Answer(p, n, result))
    BY <1>1, <2>2, NodeFrame, CallFrame DEF AnyNodeStep, NodeMove, SameJournals
  <2>. QED BY <2>1, <2>2
\* the node itself
<1>4. /\ proc'[p].phase[n] \in Out => dir'[proc'[p].run].ops[Op(p, n)'] = "intent"
      /\ proc'[p].phase[n] \in {"result", "save"} => dir'[proc'[p].run].ops[Op(p, n)'] \in Results
  <2>1. CASE WriteRecord(p, n)
    <3>1. Op(p, n) \in Operations
      BY <2>1, OpTyped DEF WriteRecord, Typed, Placed, Dispatching
    <3>2. proc'[p].run = proc[p].run /\ Op(p, n)' = Op(p, n)
      BY <2>1, RecordFrame DEF OnlyPhase, OnlyNode, Op
    <3>. QED BY <1>1, <2>1, <3>1, <3>2, RecordFrame DEF OnlyPhase, Out
  <2>2. ASSUME NEW result \in Answers, Answer(p, n, result)
        PROVE  proc'[p].phase[n] = "result" /\ dir'[proc'[p].run].ops[Op(p, n)'] \in Results
    <3>1. Op(p, n) \in Operations
      BY <2>2, OpTyped DEF Answer, Typed, Placed, Dispatching
    <3>2. proc'[p].run = proc[p].run /\ Op(p, n)' = Op(p, n) /\ proc'[p].phase[n] = "result"
      BY <2>2, AnswerFrame DEF OnlyPhase, OnlyNode, Op
    <3>. QED BY <1>1, <2>2, <3>1, <3>2, AnswerFrame, WorkflowAssumption
  <2>3. CASE CallAdapter(p, n)
    <3>1. proc'[p].run = proc[p].run /\ Op(p, n)' = Op(p, n) /\ proc'[p].phase[n] = "running" /\ dir' = dir
          /\ proc[p].phase[n] = "call"
      BY <2>3, CallFrame DEF OnlyPhase, OnlyNode, Op
    <3>. QED BY <3>1 DEF Journaled, Out
  <2>4. CASE ~(WriteRecord(p, n) \/ CallAdapter(p, n) \/ \E result \in Answers : Answer(p, n, result))
    <3>1. SameJournals /\ NodeMove(p, n, proc'[p])
      BY <2>4, NodeFrame DEF AnyNodeStep, NodeMove
    <3>2. CASE proc'[p].phase[n] \notin {"result", "save"}
      BY <3>1, <3>2 DEF NodeMove, OnlyPhase, Out
    <3>3. CASE proc'[p].phase[n] \in {"result", "save"}
      <4>1. proc'[p].run = proc[p].run /\ Op(p, n)' = Op(p, n)
            /\ (Run(p).ops[Op(p, n)] \in Results \/ proc[p].phase[n] = "result")
        BY <3>1, <3>3 DEF NodeMove, OnlyPhase, OnlyNode, Op
      <4>2. dir'[proc[p].run].ops = dir[proc[p].run].ops
        BY <1>1, <3>1 DEF SameJournals
      <4>. QED BY <3>3, <4>1, <4>2 DEF Journaled, Run, Out
    <3>. QED BY <3>2, <3>3
  <2>. QED BY <2>1, <2>2, <2>3, <2>4 DEF Out
<1>5. ASSUME NEW m \in Nodes
      PROVE  /\ proc'[p].phase[m] \in Out => dir'[proc'[p].run].ops[Op(p, m)'] = "intent"
             /\ proc'[p].phase[m] \in {"result", "save"} => dir'[proc'[p].run].ops[Op(p, m)'] \in Results
  <2>1. CASE m = n
    BY <1>4, <2>1
  <2>2. CASE m # n
    BY <1>2, <1>3, <2>2 DEF Journaled, Out, Dispatching
  <2>. QED BY <2>1, <2>2
<1>. QED BY <1>1, <1>5, JournalStep

LEMMA JournaledNext == Typed /\ Locked /\ Journaled /\ [Next]_vars => Journaled'
<1>. SUFFICES ASSUME Typed, Locked, Journaled, [Next]_vars PROVE Journaled'
  OBVIOUS
<1>1. ASSUME proc' = proc, SameJournals PROVE Journaled'
  <2>1. ASSUME NEW p \in Runners, NEW n \in Nodes
        PROVE  /\ proc'[p].phase[n] \in Out => dir'[proc'[p].run].ops[Op(p, n)'] = "intent"
               /\ proc'[p].phase[n] \in {"result", "save"} => dir'[proc'[p].run].ops[Op(p, n)'] \in Results
    <3>1. Op(p, n)' = Op(p, n)
      BY <1>1 DEF Op
    <3>2. proc[p].phase[n] # "waiting" => proc[p].run \in Runs
      BY DEF Typed, Placed
    <3>. QED BY <1>1, <3>1, <3>2 DEF Journaled, SameJournals, Out
  <2>. QED BY <2>1 DEF Journaled
<1>2. ASSUME NEW p \in Runners, RunnerStep(p) \/ AdapterStep(p) PROVE Journaled'
  <2>1. ASSUME NEW g \in Gates, VisitGate(p, g) PROVE Journaled'
    BY <1>1, <2>1, RunnerFrame DEF VisitGate
  <2>. QED BY <1>2, <2>1, CalmSteps, JournalCalm, JournaledNode
       DEF RunnerStep, NodeStep, AdapterStep, AnyNodeStep
<1>3. ASSUME NEW p \in Runners, Die(p) \/ \E r \in Runs : Execute(p, r) \/ Recover(p, r) PROVE Journaled'
  BY <1>3, RestSteps, JournalStep DEF Out
<1>4. ASSUME NEW r \in Runs, RequestCancel(r) PROVE Journaled'
  <2>1. SameJournals
    BY <1>4 DEF RequestCancel, SameJournals, Typed, TypeOK, Directory
  <2>. QED BY <1>1, <1>4, <2>1 DEF RequestCancel
<1>. QED BY <1>1, <1>2, <1>3, <1>4 DEF Next, Lapse, vars, SameJournals

\* A result on record is never replaced: not by a reconciliation, which only reads unanswered records,
\* nor by a late answer, which was still awaited; as long as one operator recovers locks.
THEOREM AnswersStandAlways ==
    ASSUME SoleRecoverer
    PROVE  Spec => AnswersStand
<1>. DEFINE Stands == \A r \in Runs, o \in Operations :
                         dir[r].ops[o] \in Results => dir'[r].ops[o] = dir[r].ops[o]
<1>1. Init => Journaled
  BY DEF Init, Journaled, Rested, Out
<1>2. Typed /\ Locked /\ Journaled /\ [Next]_vars => Stands
  <2>. SUFFICES ASSUME Typed, Locked, Journaled, [Next]_vars PROVE Stands
    OBVIOUS
  <2>1. ASSUME SameJournals PROVE Stands
    BY <2>1 DEF SameJournals
  <2>2. ASSUME NEW p \in Runners, ReadJournal(p) PROVE Stands
    BY <2>2, JournalFrame DEF Run, Results
  <2>3. ASSUME NEW p \in Runners, NEW n \in Nodes, WriteRecord(p, n) PROVE Stands
    BY <2>1, <2>3, RecordFrame DEF Run, Results
  <2>4. ASSUME NEW p \in Runners, NEW n \in Nodes, NEW result \in Answers, Answer(p, n, result) PROVE Stands
    <3>1. dir[proc[p].run].ops[Op(p, n)] = "intent"
      BY <2>4 DEF Journaled, Answer, Out
    <3>. QED BY <2>4, <3>1, AnswerFrame DEF Results
  <2>5. ASSUME NEW p \in Runners, NEW n \in Nodes, AnyNodeStep(p, n) PROVE Stands
    BY <2>1, <2>3, <2>4, <2>5, NodeFrame, CallFrame DEF AnyNodeStep, NodeMove, SameJournals
  <2>6. ASSUME NEW p \in Runners, RunnerStep(p) \/ AdapterStep(p) PROVE Stands
    BY <2>1, <2>2, <2>5, <2>6, RunnerFrame, LockFrame DEF RunnerStep, NodeStep, AdapterStep, AnyNodeStep
  <2>7. ASSUME NEW r \in Runs, RequestCancel(r) PROVE Stands
    BY <2>7 DEF RequestCancel, Typed, TypeOK, Directory
  <2>. QED BY <2>1, <2>6, <2>7, RestSteps DEF Next, Lapse, vars, SameJournals
<1>3. Spec => [](Typed /\ Locked /\ Journaled)
  BY LockedAlways, <1>1, JournaledNext, PTL DEF Spec
<1>4. Typed /\ Locked /\ Journaled /\ [Next]_vars => [Stands]_vars
  BY <1>2
<1>. QED BY <1>3, <1>4, PTL DEF Spec, AnswersStand

-----------------------------------------------------------------------------
(* Clear: from the journal to the end of the call, whatever is unanswered on *)
(* disk is an operation of a node this runner has visited.                   *)

Early == {"bind", "lock", "open", "inventory", "journal", "database", "admit"}

Certain(p) ==
    \A o \in Operations : dir[proc[p].run].ops[o] = "intent" =>
        \E n \in Nodes : proc[p].phase[n] # "waiting" /\ o = Op(p, n)

Committed(p) ==
    \/ proc[p].pc \in {"database", "admit", "graph"}
    \/ Alive(p) /\ \E n \in Nodes : proc[p].phase[n] # "waiting"

Clear ==
    \A p \in Runners :
        /\ proc[p].pc \in Early => \A n \in Nodes : proc[p].phase[n] = "waiting"
        /\ Committed(p) => Certain(p)

LEMMA ClearStep ==
    ASSUME Typed, Locked, Clear, NEW p \in Runners, OwnJournal(p),
           proc'[p].pc \in Early => \A n \in Nodes : proc'[p].phase[n] = "waiting",
           Committed(p)' => Certain(p)'
    PROVE  Clear'
<1>1. ASSUME NEW q \in Runners, q # p
      PROVE  /\ proc'[q].pc \in Early => \A n \in Nodes : proc'[q].phase[n] = "waiting"
             /\ Committed(q)' => Certain(q)'
  <2>1. proc'[q] = proc[q] /\ \A n \in Nodes : Op(q, n)' = Op(q, n)
    BY <1>1 DEF OwnJournal, Op
  <2>2. Committed(q)' = Committed(q)
    BY <2>1 DEF Committed, Alive
  <2>3. Committed(q) => proc[q].pc \in InsidePlaces
    BY DEF Committed, Alive, InsidePlaces
  <2>4. ASSUME Committed(q) PROVE Certain(q)'
    <3>1. dir'[proc[q].run].ops = dir[proc[q].run].ops
      BY <1>1, <2>3, <2>4, OthersJournal
    <3>. QED BY <2>1, <2>4, <3>1 DEF Clear, Certain
  <2>. QED BY <2>1, <2>2, <2>4 DEF Clear
<1>. QED BY <1>1 DEF Clear

\* The phases as before, the journal as before: certain as before.
LEMMA CertainStays ==
    ASSUME Typed, NEW p \in Runners, AsBefore(p, proc'[p]), SameJournals, proc[p].run \in Runs,
           Certain(p), proc'[p] # Rested
    PROVE  Certain(p)'
<1>1. proc'[p].phase = proc[p].phase /\ proc'[p].run = proc[p].run /\ \A n \in Nodes : Op(p, n)' = Op(p, n)
  BY DEF AsBefore, Op
<1>. QED BY <1>1 DEF Certain, SameJournals

LEMMA RestedClear ==
    /\ Rested.pc \notin Early \cup {"graph", "closing", "retained"}
    /\ \A n \in Nodes : Rested.phase[n] = "waiting"
BY DEF Rested, Early

\* Where the steps outside the graph lead.
LEMMA EarlyPlaces ==
    ASSUME Typed, NEW p \in Runners
    PROVE  /\ Bind(p) \/ Lock(p) \/ Open(p) \/ CreateInventory(p) =>
                 /\ proc[p].pc \in Early
                 /\ proc'[p].pc \in {"lock", "open", "journal", "inventory", "closing", "idle"}
           /\ ReadJournal(p) => proc[p].pc \in Early /\ proc'[p].pc \in {"database", "closing"}
           /\ OpenDatabase(p) \/ Refuse(p) \/ Admit(p) \/ AdmitNothing(p) =>
                 proc[p].pc \in {"database", "admit"}
           /\ Abort(p) \/ GraphFails(p) \/ GraphEnds(p) \/ Retain(p) =>
                 /\ proc[p].pc \in {"graph", "closing"} /\ proc'[p].pc \in {"graph", "closing", "retained"}
                 /\ proc'[p].pc = "graph" => proc[p].pc = "graph"
           /\ Settle(p) \/ CompareToken(p) \/ Unlink(p) \/ RemoveLock(p) =>
                 proc'[p].pc \in {"unlock", "unlink", "idle"}
<1>1. proc[p] \in Process
  BY GoodNow DEF Good
<1>2. ASSUME NEW place, Become(p, [proc[p] EXCEPT !.pc = place]) PROVE proc'[p].pc = place
  <2>1. proc'[p] = [proc[p] EXCEPT !.pc = place]
    BY <1>2, BecomeFrame
  <2>. QED BY <1>1, <2>1 DEF Process
<1>3. ASSUME NEW place, NEW fresh, Become(p, [proc[p] EXCEPT !.pc = place, !.fresh = fresh])
      PROVE  proc'[p].pc = place
  <2>1. proc'[p] = [proc[p] EXCEPT !.pc = place, !.fresh = fresh]
    BY <1>3, BecomeFrame
  <2>. QED BY <1>1, <2>1 DEF Process
<1>4. ASSUME NEW place, NEW known, Become(p, [proc[p] EXCEPT !.pc = place, !.known = known])
      PROVE  proc'[p].pc = place
  <2>1. proc'[p] = [proc[p] EXCEPT !.pc = place, !.known = known]
    BY <1>4, BecomeFrame
  <2>. QED BY <1>1, <2>1 DEF Process
<1>5. ASSUME NEW place, Become(p, [proc[p] EXCEPT !.pc = place, !.aborted = TRUE])
      PROVE  proc'[p].pc = place
  <2>1. proc'[p] = [proc[p] EXCEPT !.pc = place, !.aborted = TRUE]
    BY <1>5, BecomeFrame
  <2>. QED BY <1>1, <2>1 DEF Process
<1>6. ASSUME Become(p, [proc[p] EXCEPT !.aborted = TRUE]) PROVE proc'[p].pc = proc[p].pc
  <2>1. proc'[p] = [proc[p] EXCEPT !.aborted = TRUE]
    BY <1>6, BecomeFrame
  <2>. QED BY <1>1, <2>1 DEF Process
<1>7. ASSUME Become(p, Rested) PROVE proc'[p].pc = "idle"
  <2>1. proc'[p] = Rested
    BY <1>7, BecomeFrame
  <2>. QED BY <2>1, RestedPlace
<1>8. ASSUME Bind(p) \/ Lock(p) \/ Open(p) \/ CreateInventory(p)
      PROVE  /\ proc[p].pc \in Early
             /\ proc'[p].pc \in {"lock", "open", "journal", "inventory", "closing", "idle"}
  <2>1. proc[p].pc \in Early
    BY <1>8 DEF Bind, Lock, Open, CreateInventory, At, Early
  <2>2. \/ \E place \in {"lock", "open", "journal", "inventory", "closing"} : Goto(p, place)
        \/ \E place \in {"lock", "journal"}, fresh \in BOOLEAN :
              Become(p, [proc[p] EXCEPT !.pc = place, !.fresh = fresh])
        \/ Become(p, Rested)
    BY <1>8 DEF Bind, Lock, Open, CreateInventory
  <2>. QED BY <1>2, <1>3, <1>7, <2>1, <2>2 DEF Goto
<1>9. ASSUME ReadJournal(p)
      PROVE  proc[p].pc \in Early /\ proc'[p].pc \in {"database", "closing"}
  <2>1. proc[p].pc \in Early
    BY <1>9 DEF ReadJournal, At, Early
  <2>2. \E place \in {"database", "closing"} : \E known : Become(p, [proc[p] EXCEPT !.pc = place, !.known = known])
    BY <1>9 DEF ReadJournal, Block
  <2>. QED BY <1>4, <2>1, <2>2
<1>10. OpenDatabase(p) \/ Refuse(p) \/ Admit(p) \/ AdmitNothing(p) => proc[p].pc \in {"database", "admit"}
  BY DEF OpenDatabase, Refuse, Admit, AdmitNothing, At
<1>11. ASSUME Abort(p) PROVE proc[p].pc = "graph" /\ proc'[p].pc = "graph"
  BY <1>6, <1>11 DEF Abort, At
<1>12. ASSUME GraphFails(p) \/ GraphEnds(p) \/ Retain(p)
       PROVE  proc[p].pc \in {"graph", "closing"} /\ proc'[p].pc \in {"closing", "retained"}
  <2>1. \/ \E place \in {"closing", "retained"} : Goto(p, place)
        \/ Become(p, [proc[p] EXCEPT !.pc = "closing", !.aborted = TRUE])
    BY <1>12 DEF GraphFails, GraphEnds, Retain
  <2>. QED BY <1>2, <1>5, <1>12, <2>1 DEF GraphFails, GraphEnds, Retain, At, Goto
<1>13. ASSUME Settle(p) \/ CompareToken(p) \/ Unlink(p) \/ RemoveLock(p)
       PROVE  proc'[p].pc \in {"unlock", "unlink", "idle"}
  <2>1. Become(p, Rested) \/ \E place \in {"unlock", "unlink"} : Goto(p, place)
    BY <1>13 DEF Settle, CompareToken, Unlink, RemoveLock
  <2>. QED BY <1>2, <1>7, <2>1 DEF Goto
<1>. QED BY <1>8, <1>9, <1>10, <1>11, <1>12, <1>13

LEMMA ClearCalm ==
    ASSUME Typed, Locked, Clear, NEW p \in Runners,
           \/ Bind(p) \/ Lock(p) \/ Open(p) \/ CreateInventory(p) \/ ReadJournal(p) \/ OpenDatabase(p)
           \/ Refuse(p) \/ Admit(p) \/ AdmitNothing(p)
           \/ CompareToken(p) \/ Unlink(p) \/ RemoveLock(p)
           \/ Abort(p) \/ GraphFails(p) \/ GraphEnds(p) \/ Retain(p) \/ Settle(p)
    PROVE  Clear'
<1>0. OwnJournal(p) /\ AsBefore(p, proc'[p]) /\ (SameJournals \/ proc[p].pc = "journal")
  BY CalmSteps
<1>. SUFFICES /\ proc'[p].pc \in Early => \A n \in Nodes : proc'[p].phase[n] = "waiting"
              /\ Committed(p)' => Certain(p)'
  BY <1>0, ClearStep
<1>1. CASE proc'[p] = Rested
  BY <1>1, RestedClear DEF Committed, Alive, Early
<1>2. CASE proc'[p] # Rested /\ (Bind(p) \/ Lock(p) \/ Open(p) \/ CreateInventory(p))
  <2>1. /\ proc[p].pc \in Early /\ \A n \in Nodes : proc'[p].phase[n] = "waiting"
        /\ proc'[p].pc \in {"lock", "open", "journal", "inventory", "closing", "idle"}
    BY <1>0, <1>2, EarlyPlaces DEF Clear, AsBefore
  <2>. QED BY <2>1 DEF Committed
<1>3. CASE proc'[p] # Rested /\ ReadJournal(p)
  <2>1. /\ proc[p].pc \in Early /\ (\A n \in Nodes : proc'[p].phase[n] = "waiting")
        /\ proc'[p].run = proc[p].run /\ proc'[p].pc \in {"database", "closing"}
    BY <1>0, <1>3, EarlyPlaces DEF Clear, AsBefore
  <2>2. proc'[p].pc = "database" => \A o \in Operations : dir'[proc[p].run].ops[o] # "intent"
    BY <1>3, JournalFrame DEF Unanswered
  <2>. QED BY <2>1, <2>2 DEF Committed, Certain
<1>4. CASE proc'[p] # Rested /\ (OpenDatabase(p) \/ Refuse(p) \/ Admit(p) \/ AdmitNothing(p))
  <2>1. proc[p].pc \in {"database", "admit"} /\ proc[p].run \in Runs
    BY <1>4, EarlyPlaces, RunTyped
  <2>2. Certain(p) /\ \A n \in Nodes : proc'[p].phase[n] = "waiting"
    BY <1>0, <1>4, <2>1 DEF Clear, Committed, Early, AsBefore
  <2>. QED BY <1>0, <1>4, <2>1, <2>2, CertainStays
<1>5. CASE proc'[p] # Rested /\ (Abort(p) \/ GraphFails(p) \/ GraphEnds(p) \/ Retain(p))
  <2>1. /\ proc[p].pc \in {"graph", "closing"} /\ proc'[p].pc \in {"graph", "closing", "retained"}
        /\ proc'[p].pc = "graph" => proc[p].pc = "graph"
        /\ proc[p].run \in Runs
    BY <1>5, EarlyPlaces, RunTyped
  <2>2. Committed(p)' => Committed(p)
    BY <1>0, <1>5, <2>1 DEF Committed, Alive, AsBefore
  <2>. QED BY <1>0, <1>5, <2>1, <2>2, CertainStays DEF Clear, Early
<1>6. CASE proc'[p] # Rested /\ (Settle(p) \/ CompareToken(p) \/ Unlink(p) \/ RemoveLock(p))
  BY <1>6, EarlyPlaces DEF Committed, Alive, Early
<1>. QED BY <1>1, <1>2, <1>3, <1>4, <1>5, <1>6

LEMMA ClearNode ==
    ASSUME Typed, Locked, Journaled, Clear, NEW p \in Runners, NEW n \in Nodes, AnyNodeStep(p, n)
    PROVE  Clear'
<1>1. /\ OwnJournal(p) /\ OnlyNode(p, n, proc'[p]) /\ proc[p].run \in Runs
      /\ proc[p].pc \in {"graph", "closing", "retained"}
  BY NodeSteps, NodePlace, RunTyped
<1>2. proc[p].pc = "graph" \/ proc[p].phase[n] # "waiting"
  BY <1>1 DEF AnyNodeStep, Visit, Try, WriteInventory, WriteRecord, CallAdapter, Consider, Save,
     AdapterThrows, Answer, At
<1>3. Certain(p)
  BY <1>1, <1>2 DEF Clear, Committed, Alive
<1>4. ASSUME NEW m \in Nodes, m # n
      PROVE  proc'[p].phase[m] = proc[p].phase[m] /\ Op(p, m)' = Op(p, m)
  BY <1>1, <1>4 DEF OnlyNode, Op
\* an operation of n that is unanswered after the step is the one n is at
<1>5. ASSUME NEW o \in Operations, dir'[proc[p].run].ops[o] = "intent",
             \A m \in Nodes : proc[p].phase[m] # "waiting" /\ o = Op(p, m) => m = n
      PROVE  proc'[p].phase[n] # "waiting" /\ o = Op(p, n)'
  <2>1. CASE WriteRecord(p, n)
    <3>1. proc'[p].phase[n] # "waiting" /\ Op(p, n)' = Op(p, n) /\ proc[p].phase[n] # "waiting"
      BY <2>1, RecordFrame DEF OnlyPhase, Op, WriteRecord
    <3>2. o = Op(p, n) \/ dir[proc[p].run].ops[o] = "intent"
      BY <1>1, <1>5, <2>1, RecordFrame DEF SameJournals
    <3>. QED BY <1>3, <1>5, <3>1, <3>2 DEF Certain
  <2>2. ASSUME NEW result \in Answers, Answer(p, n, result)
        PROVE  proc'[p].phase[n] # "waiting" /\ o = Op(p, n)'
    <3>1. proc'[p].phase[n] # "waiting" /\ Op(p, n)' = Op(p, n)
      BY <2>2, AnswerFrame DEF OnlyPhase, Op
    <3>2. o # Op(p, n) /\ dir[proc[p].run].ops[o] = "intent"
      BY <1>1, <1>5, <2>2, AnswerFrame, WorkflowAssumption DEF Results
    <3>. QED BY <1>3, <1>5, <3>1, <3>2 DEF Certain
  <2>3. CASE CallAdapter(p, n)
    <3>1. proc'[p].phase[n] # "waiting" /\ Op(p, n)' = Op(p, n) /\ dir' = dir
      BY <2>3, CallFrame DEF OnlyPhase, Op
    <3>. QED BY <1>3, <1>5, <3>1 DEF Certain
  <2>4. CASE ~(WriteRecord(p, n) \/ CallAdapter(p, n) \/ \E result \in Answers : Answer(p, n, result))
    <3>1. SameJournals /\ NodeMove(p, n, proc'[p])
      BY <2>4, NodeFrame DEF AnyNodeStep, NodeMove
    <3>2. dir[proc[p].run].ops[o] = "intent"
      BY <1>1, <1>5, <3>1 DEF SameJournals
    <3>3. o = Op(p, n) /\ proc[p].phase[n] # "waiting"
      BY <1>3, <1>5, <3>2 DEF Certain
    \* so n is at neither an answered operation nor at rest
    <3>4. proc[p].phase[n] \notin {"waiting", "result", "save"}
      BY <3>2, <3>3 DEF Journaled, Results
    <3>5. OnlyPhase(p, n, proc'[p], "failed") \/ OnlyPhase(p, n, proc'[p], "result")
          \/ OnlyPhase(p, n, proc'[p], "inventory") \/ OnlyPhase(p, n, proc'[p], "record")
      BY <3>1, <3>4 DEF NodeMove
    <3>6. proc'[p].phase[n] # "waiting" /\ Op(p, n)' = Op(p, n)
      BY <3>5 DEF OnlyPhase, Op
    <3>. QED BY <3>3, <3>6
  <2>. QED BY <2>1, <2>2, <2>3, <2>4
<1>6. Certain(p)'
  <2>1. proc'[p].run = proc[p].run
    BY <1>1 DEF OnlyNode
  <2>2. ASSUME NEW o \in Operations, dir'[proc'[p].run].ops[o] = "intent"
        PROVE  \E m \in Nodes : proc'[p].phase[m] # "waiting" /\ o = Op(p, m)'
    <3>1. CASE \A m \in Nodes : proc[p].phase[m] # "waiting" /\ o = Op(p, m) => m = n
      BY <1>5, <2>1, <2>2, <3>1
    <3>2. CASE ~\A m \in Nodes : proc[p].phase[m] # "waiting" /\ o = Op(p, m) => m = n
      BY <1>4, <3>2
    <3>. QED BY <3>1, <3>2
  <2>. QED BY <2>2 DEF Certain
<1>7. proc'[p].pc = proc[p].pc
  BY <1>1 DEF OnlyNode
<1>. QED BY <1>1, <1>6, <1>7, ClearStep DEF Early

LEMMA ClearNext == Typed /\ Locked /\ Journaled /\ Clear /\ [Next]_vars => Clear'
<1>. SUFFICES ASSUME Typed, Locked, Journaled, Clear, [Next]_vars PROVE Clear'
  OBVIOUS
<1>1. ASSUME proc' = proc, SameJournals PROVE Clear'
  <2>1. ASSUME NEW p \in Runners
        PROVE  /\ proc'[p].pc \in Early => \A n \in Nodes : proc'[p].phase[n] = "waiting"
               /\ Committed(p)' => Certain(p)'
    <3>1. Committed(p)' = Committed(p) /\ \A n \in Nodes : Op(p, n)' = Op(p, n)
      BY <1>1 DEF Committed, Alive, Op
    <3>2. Committed(p) => proc[p].run \in Runs
      BY RunTyped DEF Committed, Alive
    <3>. QED BY <1>1, <3>1, <3>2 DEF Clear, Certain, SameJournals
  <2>. QED BY <2>1 DEF Clear
<1>2. ASSUME NEW p \in Runners, RunnerStep(p) \/ AdapterStep(p) PROVE Clear'
  <2>1. ASSUME NEW g \in Gates, VisitGate(p, g) PROVE Clear'
    BY <1>1, <2>1, RunnerFrame DEF VisitGate
  <2>. QED BY <1>2, <2>1, ClearCalm, ClearNode DEF RunnerStep, NodeStep, AdapterStep, AnyNodeStep
<1>3. ASSUME NEW p \in Runners, Die(p) \/ \E r \in Runs : Execute(p, r) \/ Recover(p, r) PROVE Clear'
  BY <1>3, RestSteps, ClearStep DEF Committed
<1>4. ASSUME NEW r \in Runs, RequestCancel(r) PROVE Clear'
  <2>1. SameJournals
    BY <1>4 DEF RequestCancel, SameJournals, Typed, TypeOK, Directory
  <2>. QED BY <1>1, <1>4, <2>1 DEF RequestCancel
<1>. QED BY <1>1, <1>2, <1>3, <1>4 DEF Next, Lapse, vars, SameJournals

\* Nothing is dispatched on top of what an earlier runner left uncertain; as long as one operator
\* recovers locks.
THEOREM NothingOnUncertaintyHolds ==
    ASSUME SoleRecoverer
    PROVE  Spec => []NothingOnUncertainty
<1>1. Init => Journaled /\ Clear
  BY DEF Init, Journaled, Clear, Committed, Alive, Early, Rested, Out
<1>2. Spec => [](Typed /\ Locked /\ Journaled /\ Clear)
  BY LockedAlways, <1>1, JournaledNext, ClearNext, PTL DEF Spec
<1>3. Typed /\ Clear => NothingOnUncertainty
  <2>. SUFFICES ASSUME Typed, Clear, NEW p \in Runners, Alive(p),
                       NEW m \in Nodes, proc[p].phase[m] = "running",
                       NEW o \in Unanswered(Run(p))
                PROVE  \E n \in Nodes : n \notin {k \in Nodes : proc[p].phase[k] = "waiting"} /\ o = Op(p, n)
    BY DEF NothingOnUncertainty
  <2>1. Certain(p)
    BY DEF Clear, Committed
  <2>2. o \in Operations /\ dir[proc[p].run].ops[o] = "intent"
    BY DEF Unanswered, Run
  <2>. QED BY <2>1, <2>2 DEF Certain
<1>. QED BY <1>2, <1>3, PTL


-----------------------------------------------------------------------------
(* Accounted: what a runner knows of its journal while it is at work, and    *)
(* what a finished run holds.  At the end of the graph nothing is queued, so *)
(* the journal is what the runner knows, and, as no node is left to visit    *)
(* and the graph has no loops, every node ended.                             *)

Complete(d) ==
    /\ d.done = Nodes \cup Gates
    /\ d.inventory = Recorded(d) /\ Unanswered(d) = {}

RunOK(d) ==
    /\ ~d.run => d.status \notin Finished
    /\ \A n \in Nodes \cap d.done : \E k \in 0..Attempts - 1 : d.ops[<<n, k>>] = "completed"
    /\ Gates \cap d.done \subseteq d.approved
    /\ d.status = "completed" => Complete(d)

AtRest(p) == \A n \in Nodes : proc[p].phase[n] = "waiting"

\* Where a runner is, by the status it finds or left.
Stage(p) ==
    /\ proc[p].pc \in {"inventory", "journal", "database", "admit"} =>
          Run(p).run /\ Run(p).status \notin Finished
    /\ proc[p].pc = "graph" => Run(p).run /\ Run(p).status = "running"
    /\ proc[p].pc = "retained" => Run(p).status = "blocked"
    /\ proc[p].pc = "closing" /\ Run(p).status = "completed" => AtRest(p)

\* The operation of a node that is on its way into the journal.
Queued(p, o, phases) == \E n \in Nodes : proc[p].phase[n] \in phases /\ o = Op(p, n)

Consistent(p) ==
    /\ Run(p).inventory # None
    /\ \A o \in Operations :
          /\ o \in proc[p].known <=> (Run(p).ops[o] # "none" \/ Queued(p, o, {"inventory", "record"}))
          /\ o \in Run(p).inventory => o \in proc[p].known
          /\ o \in proc[p].known => o \in Run(p).inventory \/ Queued(p, o, {"inventory"})

Books(p) ==
    /\ proc[p].pc \in {"database", "admit", "graph"} /\ Failed(p) = {} => Consistent(p)
    /\ proc[p].pc = "graph" => proc[p].granted \subseteq Run(p).approved
    /\ \A n \in Nodes : proc[p].phase[n] = "save" =>
          proc[p].attempt[n] < Attempts /\ Run(p).ops[Op(p, n)] = "completed"

Accounted == (\A p \in Runners : Stage(p) /\ Books(p)) /\ \A r \in Runs : RunOK(dir[r])

\* Everything but the lock and the cancel request.
SameContents(e, d) ==
    /\ e.run = d.run /\ e.inventory = d.inventory /\ e.ops = d.ops /\ e.database = d.database
    /\ e.done = d.done /\ e.pending = d.pending /\ e.approved = d.approved /\ e.status = d.status
    /\ e.settlement = d.settlement

\* A step of p that changes the contents of no run but the one p is inside.
OwnRun(p) ==
    /\ \A q \in Runners : q # p => proc'[q] = proc[q]
    /\ \A r \in Runs : SameContents(dir'[r], dir[r]) \/ (proc[p].pc \in InsidePlaces /\ r = proc[p].run)

LEMMA RunOKStays ==
    ASSUME NEW e, NEW d, SameContents(e, d), RunOK(d)
    PROVE  RunOK(e)
BY DEF SameContents, RunOK, Complete, Recorded, Unanswered

LEMMA OthersRun ==
    ASSUME Typed, Locked, NEW p \in Runners, OwnRun(p),
           NEW q \in Runners, q # p, proc[q].pc \in InsidePlaces
    PROVE  proc'[q] = proc[q] /\ proc[q].run \in Runs /\ SameContents(dir'[proc[q].run], dir[proc[q].run])
<1>1. proc'[q] = proc[q] /\ proc[q].run \in Runs
  BY RunTyped DEF OwnRun, InsidePlaces
<1>2. proc[p].pc \in InsidePlaces => proc[q].run # proc[p].run
  BY DEF Locked
<1>. QED BY <1>1, <1>2 DEF OwnRun

LEMMA BooksStay ==
    ASSUME Typed, Accounted, NEW q \in Runners, proc'[q] = proc[q],
           proc[q].pc \in InsidePlaces => SameContents(dir'[proc[q].run], dir[proc[q].run])
    PROVE  (Stage(q) /\ Books(q))'
<1>1. Stage(q) /\ Books(q) /\ \A n \in Nodes : Op(q, n)' = Op(q, n)
  BY DEF Accounted, Op
<1>2. CASE proc[q].pc \in InsidePlaces
  <2>1. SameContents(Run(q)', Run(q))
    BY <1>2 DEF Run
  <2>2. Stage(q)'
    BY <1>1, <2>1 DEF Stage, SameContents, AtRest
  <2>3. Consistent(q) => Consistent(q)'
    BY <1>1, <2>1 DEF Consistent, SameContents, Queued
  <2>4. Books(q)'
    BY <1>1, <2>1, <2>3 DEF Books, SameContents, Failed
  <2>. QED BY <2>2, <2>4
<1>3. CASE proc[q].pc \notin InsidePlaces
  <2>1. \A n \in Nodes : proc[q].phase[n] # "save"
    BY <1>3, BusyTyped
  <2>. QED BY <1>1, <1>3, <2>1 DEF Stage, Books, InsidePlaces
<1>. QED BY <1>2, <1>3

LEMMA AccountedStep ==
    ASSUME Typed, Locked, Accounted, NEW p \in Runners, OwnRun(p), Stage(p)', Books(p)',
           proc[p].pc \in InsidePlaces => RunOK(dir'[proc[p].run])
    PROVE  Accounted'
<1>1. ASSUME NEW r \in Runs PROVE RunOK(dir'[r])
  BY RunOKStays DEF Accounted, OwnRun
<1>2. ASSUME NEW q \in Runners, q # p PROVE (Stage(q) /\ Books(q))'
  <2>1. proc'[q] = proc[q]
    BY <1>2 DEF OwnRun
  <2>2. proc[q].pc \in InsidePlaces => SameContents(dir'[proc[q].run], dir[proc[q].run])
    BY <1>2, OthersRun
  <2>. QED BY <2>1, <2>2, BooksStay
<1>. QED BY <1>1, <1>2 DEF Accounted

\* A move that leaves the nodes alone.
Moved(p, s, place) ==
    /\ s.pc = place /\ s.run = proc[p].run /\ s.phase = proc[p].phase /\ s.attempt = proc[p].attempt

\* A step of p inside its run, to s, leaving e behind.
LEMMA Stored ==
    ASSUME Typed, NEW p \in Runners, proc[p].pc \in InsidePlaces, NEW s, Become(p, s),
           NEW e, Store(p, e) \/ (UNCHANGED dir /\ e = Run(p))
    PROVE  /\ OwnRun(p) /\ proc'[p] = s /\ dir'[proc[p].run] = e
           /\ proc[p].run \in Runs /\ Run(p) \in Directory /\ proc[p] \in Process
<1>1. proc[p].run \in Runs /\ Run(p) \in Directory /\ proc[p] \in Process
  BY RunTyped DEF InsidePlaces
<1>2. dir'[proc[p].run] = e /\ \A r \in Runs : r # proc[p].run => dir'[r] = dir[r]
  BY <1>1, StoreFrame DEF Run
<1>3. \A r \in Runs : r # proc[p].run => SameContents(dir'[r], dir[r])
  BY <1>2 DEF SameContents
<1>4. proc'[p] = s /\ \A q \in Runners : q # p => proc'[q] = proc[q]
  BY BecomeFrame
<1>. QED BY <1>1, <1>2, <1>3, <1>4 DEF OwnRun

\* The same, when the nodes rest: what remains to be seen is the status and the books.
LEMMA CalmAccounted ==
    ASSUME Typed, Locked, Accounted, NEW p \in Runners, proc[p].pc \in InsidePlaces,
           NEW s, Become(p, s), NEW place \in InsidePlaces, Moved(p, s, place),
           NEW e, Store(p, e) \/ (UNCHANGED dir /\ e = Run(p)), e.ops = Run(p).ops \/ AtRest(p),
           RunOK(e),
           place \in {"inventory", "journal", "database", "admit"} => e.run /\ e.status \notin Finished,
           place = "graph" => e.run /\ e.status = "running" /\ s.granted \subseteq e.approved,
           place = "retained" => e.status = "blocked",
           place = "closing" /\ e.status = "completed" => AtRest(p),
           place \in {"database", "admit", "graph"} /\ Failed(p) = {} =>
              /\ e.inventory # None
              /\ \A o \in Operations :
                    /\ o \in s.known <=> (e.ops[o] # "none" \/ Queued(p, o, {"inventory", "record"}))
                    /\ o \in e.inventory => o \in s.known
                    /\ o \in s.known => o \in e.inventory \/ Queued(p, o, {"inventory"})
    PROVE  Accounted'
<1>1. /\ OwnRun(p) /\ proc'[p] = s /\ dir'[proc[p].run] = e
      /\ proc[p].run \in Runs /\ Run(p) \in Directory /\ proc[p] \in Process
  BY Stored
<1>2. /\ Run(p)' = e /\ (\A n \in Nodes : Op(p, n)' = Op(p, n))
      /\ proc'[p].phase = proc[p].phase /\ proc'[p].attempt = proc[p].attempt
      /\ proc'[p].pc = place
  BY <1>1 DEF Run, Moved, Op
<1>3. Stage(p)'
  BY <1>2 DEF Stage, AtRest
<1>4. Consistent(p)' \/ ~(place \in {"database", "admit", "graph"} /\ Failed(p) = {})
  BY <1>1, <1>2 DEF Consistent, Queued
<1>5. ASSUME NEW n \in Nodes, proc[p].phase[n] = "save"
      PROVE  proc[p].attempt[n] < Attempts /\ e.ops[Op(p, n)] = "completed"
  <2>1. e.ops = Run(p).ops
    BY <1>5 DEF AtRest
  <2>. QED BY <1>5, <2>1 DEF Accounted, Books
<1>6. Books(p)'
  BY <1>1, <1>2, <1>4, <1>5 DEF Books, Failed
<1>. QED BY <1>1, <1>3, <1>6, AccountedStep

LEMMA AccountedOpen ==
    ASSUME Typed, Locked, Clear, Accounted, NEW p \in Runners, Open(p) \/ CreateInventory(p)
    PROVE  Accounted'
<1>1. /\ proc[p].pc \in {"open", "inventory"} /\ proc[p].pc \in InsidePlaces /\ AtRest(p)
      /\ RunOK(Run(p)) /\ Stage(p)
      /\ proc[p].run \in Runs /\ Run(p) \in Directory /\ proc[p] \in Process
  BY RunTyped DEF Open, CreateInventory, At, Clear, Early, AtRest, Accounted, Run, InsidePlaces
<1>2. {"inventory", "journal", "closing"} \subseteq InsidePlaces
  BY DEF InsidePlaces
<1>3. CASE /\ Open(p) /\ Run(p).run /\ Run(p).status \notin Finished
           /\ Become(p, [proc[p] EXCEPT !.pc = "journal", !.fresh = FALSE]) /\ UNCHANGED dir
  <2>1. PICK s : s = [proc[p] EXCEPT !.pc = "journal", !.fresh = FALSE]
    OBVIOUS
  <2>2. Moved(p, s, "journal")
    BY <1>1, <2>1 DEF Moved, Process
  <2>. QED BY <1>1, <1>2, <1>3, <2>1, <2>2, CalmAccounted
<1>4. CASE /\ Open(p) /\ ~Run(p).run /\ Goto(p, "inventory") /\ Store(p, [Run(p) EXCEPT !.run = TRUE])
  <2>1. PICK s, e : s = [proc[p] EXCEPT !.pc = "inventory"] /\ e = [Run(p) EXCEPT !.run = TRUE]
    OBVIOUS
  <2>2. Moved(p, s, "inventory")
    BY <1>1, <2>1 DEF Moved, Process
  <2>3. e.run /\ e.status \notin Finished /\ e.ops = Run(p).ops /\ RunOK(e)
    BY <1>1, <1>4, <2>1 DEF Directory, RunOK, Finished
  <2>4. Become(p, s) /\ Store(p, e)
    BY <1>4, <2>1 DEF Goto
  <2>. QED BY <1>1, <1>2, <2>2, <2>3, <2>4, CalmAccounted
<1>5. CASE Open(p) /\ Goto(p, "closing") /\ UNCHANGED dir
  <2>1. PICK s : s = [proc[p] EXCEPT !.pc = "closing"]
    OBVIOUS
  <2>2. Moved(p, s, "closing")
    BY <1>1, <2>1 DEF Moved, Process
  <2>3. Become(p, s)
    BY <1>5, <2>1 DEF Goto
  <2>. QED BY <1>1, <1>2, <1>5, <2>2, <2>3, CalmAccounted
<1>6. CASE CreateInventory(p)
  <2>1. PICK s, e : s = [proc[p] EXCEPT !.pc = "journal"] /\ e = [Run(p) EXCEPT !.inventory = {}]
    OBVIOUS
  <2>2. Moved(p, s, "journal")
    BY <1>1, <2>1 DEF Moved, Process
  <2>3. Run(p).run /\ Run(p).status \notin Finished
    BY <1>1, <1>6 DEF CreateInventory, At, Stage
  <2>4. e.run /\ e.status \notin Finished /\ e.ops = Run(p).ops /\ RunOK(e)
    BY <1>1, <2>1, <2>3 DEF Directory, RunOK, Finished
  <2>5. Become(p, s) /\ Store(p, e)
    BY <1>6, <2>1 DEF Goto, CreateInventory
  <2>. QED BY <1>1, <1>2, <2>2, <2>4, <2>5, CalmAccounted
<1>. QED BY <1>3, <1>4, <1>5, <1>6 DEF Open

\* A call that is turned away at the journal, the database or the admission.
LEMMA AccountedBlock ==
    ASSUME Typed, Locked, Accounted, NEW p \in Runners, proc[p].pc \in {"journal", "database", "admit"},
           AtRest(p), NEW d \in Directory, Block(p, d), RunOK(d), d.run
    PROVE  Accounted'
<1>1. proc[p] \in Process
  BY RunTyped
<1>2. PICK known, aborted : /\ Become(p, [proc[p] EXCEPT !.pc = "closing", !.known = known])
                            /\ Store(p, Stopped(d, aborted))
  BY DEF Block
<1>3. PICK s, e : s = [proc[p] EXCEPT !.pc = "closing", !.known = known] /\ e = Stopped(d, aborted)
  OBVIOUS
<1>4. Moved(p, s, "closing")
  BY <1>1, <1>3 DEF Moved, Process
<1>5. e.status \in {"cancelled", "blocked"} /\ e.status # "completed" /\ RunOK(e)
  <2>1. /\ e.run = d.run /\ e.done = d.done /\ e.ops = d.ops /\ e.approved = d.approved
        /\ e.status \in {"cancelled", "blocked"}
    BY <1>3 DEF Stopped, Directory
  <2>. QED BY <2>1 DEF RunOK
<1>6. proc[p].pc \in InsidePlaces /\ "closing" \in InsidePlaces
  BY DEF InsidePlaces
<1>. QED BY <1>2, <1>3, <1>4, <1>5, <1>6, CalmAccounted

LEMMA AccountedJournal ==
    ASSUME Typed, Locked, Clear, Accounted, NEW p \in Runners, ReadJournal(p)
    PROVE  Accounted'
<1>1. /\ proc[p].pc = "journal" /\ proc[p].pc \in InsidePlaces /\ AtRest(p) /\ Stage(p)
      /\ Run(p).run /\ Run(p).status \notin Finished /\ RunOK(Run(p))
      /\ proc[p].run \in Runs /\ Run(p) \in Directory /\ proc[p] \in Process
  BY RunTyped DEF ReadJournal, At, Clear, Early, AtRest, Accounted, Run, InsidePlaces, Stage
<1>2. CASE Run(p).inventory # Recorded(Run(p))
  BY <1>1, <1>2, AccountedBlock DEF ReadJournal
<1>3. CASE Run(p).inventory = Recorded(Run(p))
  <2>1. PICK S \in SUBSET Unanswered(Run(p)) : \E answer \in [S -> Answers] :
          LET read == [Run(p) EXCEPT !.ops = [o \in Operations |-> IF o \in S THEN answer[o] ELSE @[o]]]
          IN  IF Unanswered(read) = {}
              THEN /\ Become(p, [proc[p] EXCEPT !.pc = "database", !.known = Recorded(read)])
                   /\ Store(p, read)
              ELSE Block(p, read)
    BY <1>3 DEF ReadJournal
  <2>11. PICK answer \in [S -> Answers] :
          LET read == [Run(p) EXCEPT !.ops = [o \in Operations |-> IF o \in S THEN answer[o] ELSE @[o]]]
          IN  IF Unanswered(read) = {}
              THEN /\ Become(p, [proc[p] EXCEPT !.pc = "database", !.known = Recorded(read)])
                   /\ Store(p, read)
              ELSE Block(p, read)
    BY <2>1
  <2>2. PICK e : e = [Run(p) EXCEPT !.ops = [o \in Operations |-> IF o \in S THEN answer[o] ELSE @[o]]]
    OBVIOUS
  <2>3. /\ \A o \in Operations : e.ops[o] = IF o \in S THEN answer[o] ELSE Run(p).ops[o]
        /\ e.run = Run(p).run /\ e.done = Run(p).done /\ e.approved = Run(p).approved
        /\ e.status = Run(p).status /\ e.inventory = Run(p).inventory
    BY <1>1, <2>2 DEF Directory
  <2>4. e \in Directory
    <3>1. [o \in Operations |-> IF o \in S THEN answer[o] ELSE Run(p).ops[o]] \in [Operations -> Records]
      BY <1>1, <2>1, <2>11, WorkflowAssumption DEF Directory, Records, Unanswered
    <3>. QED BY <1>1, <2>2, <3>1 DEF Directory
  <2>5. \A o \in S : Run(p).ops[o] = "intent" /\ e.ops[o] \in Results
    BY <2>1, <2>11, <2>3, WorkflowAssumption DEF Unanswered
  <2>6. Recorded(e) = Recorded(Run(p))
    BY <2>3, <2>5 DEF Recorded, Results
  <2>7. RunOK(e)
    <3>1. \A o \in Operations : Run(p).ops[o] = "completed" => e.ops[o] = "completed"
      BY <2>3, <2>5
    <3>2. \A n \in Nodes, k \in 0..Attempts - 1 : <<n, k>> \in Operations
      BY DEF Operations
    <3>3. e.status # "completed"
      BY <1>1, <2>3 DEF Finished
    <3>4. \A n \in Nodes \cap e.done : \E k \in 0..Attempts - 1 : e.ops[<<n, k>>] = "completed"
      BY <1>1, <2>3, <3>1, <3>2 DEF RunOK
    <3>. QED BY <1>1, <2>3, <3>3, <3>4 DEF RunOK
  <2>8. CASE Unanswered(e) # {}
    <3>1. Block(p, e)
      BY <2>11, <2>2, <2>8
    <3>. QED BY <1>1, <2>3, <2>4, <2>7, <3>1, AccountedBlock
  <2>9. CASE Unanswered(e) = {}
    <3>1. PICK s : s = [proc[p] EXCEPT !.pc = "database", !.known = Recorded(e)]
      OBVIOUS
    <3>2. Become(p, s) /\ Store(p, e)
      BY <2>11, <2>2, <2>9, <3>1
    <3>3. Moved(p, s, "database") /\ s.known = Recorded(e)
      BY <1>1, <3>1 DEF Moved, Process
    <3>4. \A o : ~Queued(p, o, {"inventory", "record"}) /\ ~Queued(p, o, {"inventory"})
      BY <1>1 DEF AtRest, Queued
    <3>5. e.inventory # None
      <4>1. Recorded(e) \in SUBSET Operations
        BY DEF Recorded
      <4>. QED BY <1>3, <2>3, <2>6, <4>1, WorkflowAssumption
    <3>6. "database" \in InsidePlaces
      BY DEF InsidePlaces
    <3>7. /\ \A o \in Operations :
               /\ o \in s.known <=> (e.ops[o] # "none" \/ Queued(p, o, {"inventory", "record"}))
               /\ o \in e.inventory => o \in s.known
               /\ o \in s.known => o \in e.inventory \/ Queued(p, o, {"inventory"})
      BY <1>3, <2>3, <2>6, <3>3, <3>4 DEF Recorded
    <3>8. e.run /\ e.status \notin Finished
      BY <1>1, <2>3
    <3>. QED BY <1>1, <2>7, <3>2, <3>3, <3>5, <3>6, <3>7, <3>8, CalmAccounted
  <2>. QED BY <2>8, <2>9
<1>. QED BY <1>2, <1>3

LEMMA AccountedDatabase ==
    ASSUME Typed, Locked, Clear, Accounted, NEW p \in Runners, OpenDatabase(p) \/ Refuse(p)
    PROVE  Accounted'
<1>1. /\ proc[p].pc \in {"database", "admit"} /\ AtRest(p) /\ Stage(p) /\ Books(p)
      /\ Run(p).run /\ Run(p).status \notin Finished /\ RunOK(Run(p))
      /\ proc[p].run \in Runs /\ Run(p) \in Directory /\ proc[p] \in Process
  BY RunTyped DEF OpenDatabase, Refuse, At, Clear, Early, AtRest, Accounted, Run, Stage
<1>2. CASE Block(p, Run(p))
  BY <1>1, <1>2, AccountedBlock
<1>3. CASE /\ proc[p].pc = "database" /\ Goto(p, "admit")
           /\ Store(p, [Run(p) EXCEPT !.database = TRUE])
  <2>1. PICK s, e : s = [proc[p] EXCEPT !.pc = "admit"] /\ e = [Run(p) EXCEPT !.database = TRUE]
    OBVIOUS
  <2>2. Moved(p, s, "admit") /\ s.known = proc[p].known
    BY <1>1, <2>1 DEF Moved, Process
  <2>3. /\ e.run /\ e.status = Run(p).status /\ e.ops = Run(p).ops /\ e.inventory = Run(p).inventory
        /\ e.done = Run(p).done /\ e.approved = Run(p).approved
    BY <1>1, <2>1 DEF Directory
  <2>4. RunOK(e)
    BY <1>1, <2>3 DEF RunOK, Finished
  <2>5. Become(p, s) /\ Store(p, e)
    BY <1>3, <2>1 DEF Goto
  <2>6. {"database", "admit"} \subseteq InsidePlaces
    BY DEF InsidePlaces
  <2>7. Failed(p) = {} => Consistent(p)
    BY <1>3, <1>1 DEF Books
  <2>. QED BY <1>1, <1>3, <2>2, <2>3, <2>4, <2>5, <2>6, <2>7, CalmAccounted DEF Consistent
<1>. QED BY <1>2, <1>3 DEF OpenDatabase, Refuse, At

LEMMA AccountedAdmit ==
    ASSUME Typed, Locked, Clear, Accounted, NEW p \in Runners, Admit(p) \/ AdmitNothing(p)
    PROVE  Accounted'
<1>1. /\ proc[p].pc = "admit" /\ AtRest(p) /\ Stage(p) /\ Books(p)
      /\ Run(p).run /\ Run(p).status \notin Finished /\ RunOK(Run(p))
      /\ proc[p].run \in Runs /\ Run(p) \in Directory /\ proc[p] \in Process
  BY RunTyped DEF Admit, AdmitNothing, At, Clear, Early, AtRest, Accounted, Run, Stage
<1>2. {"admit", "graph", "closing"} \subseteq InsidePlaces
  BY DEF InsidePlaces
<1>3. CASE AdmitNothing(p)
  <2>1. PICK s : s = [proc[p] EXCEPT !.pc = "closing"]
    OBVIOUS
  <2>2. Moved(p, s, "closing")
    BY <1>1, <2>1 DEF Moved, Process
  <2>3. Become(p, s) /\ UNCHANGED dir
    BY <1>3, <2>1 DEF AdmitNothing, Goto
  <2>. QED BY <1>1, <1>2, <2>2, <2>3, CalmAccounted
<1>4. CASE Admit(p)
  <2>1. PICK D \in SUBSET Run(p).pending : \E approve \in [D -> BOOLEAN] :
          LET kept == [Run(p) EXCEPT !.approved = @ \cup {g \in D : approve[g]}]
          IN  \/ Goto(p, "closing") /\ Store(p, [kept EXCEPT !.status = "rejected"])
              \/ Goto(p, "closing") /\ Store(p, [kept EXCEPT !.status = "awaiting-approval"])
              \/ /\ \A g \in D : approve[g]
                 /\ Become(p, [proc[p] EXCEPT !.pc = "graph", !.granted = D])
                 /\ Store(p, [kept EXCEPT !.status = "running"])
    BY <1>4 DEF Admit
  <2>2. PICK approve \in [D -> BOOLEAN] :
          LET kept == [Run(p) EXCEPT !.approved = @ \cup {g \in D : approve[g]}]
          IN  \/ Goto(p, "closing") /\ Store(p, [kept EXCEPT !.status = "rejected"])
              \/ Goto(p, "closing") /\ Store(p, [kept EXCEPT !.status = "awaiting-approval"])
              \/ /\ \A g \in D : approve[g]
                 /\ Become(p, [proc[p] EXCEPT !.pc = "graph", !.granted = D])
                 /\ Store(p, [kept EXCEPT !.status = "running"])
    BY <2>1
  <2>3. PICK given : given = {g \in D : approve[g]}
    OBVIOUS
  <2>4. PICK kept : kept = [Run(p) EXCEPT !.approved = @ \cup given]
    OBVIOUS
  <2>5. /\ kept \in Directory /\ kept.run /\ kept.ops = Run(p).ops /\ kept.inventory = Run(p).inventory
        /\ kept.done = Run(p).done /\ kept.approved = Run(p).approved \cup given
    BY <1>1, <2>3, <2>4 DEF Directory
  <2>6. ASSUME NEW status \in Statuses, status # "completed", NEW e, e = [kept EXCEPT !.status = status]
        PROVE  /\ RunOK(e) /\ e.run /\ e.status = status /\ e.ops = Run(p).ops
               /\ e.inventory = Run(p).inventory /\ given \subseteq e.approved
    <3>1. /\ e.run /\ e.status = status /\ e.ops = Run(p).ops /\ e.inventory = Run(p).inventory
          /\ e.done = Run(p).done /\ e.approved = Run(p).approved \cup given
      BY <2>5, <2>6 DEF Directory
    <3>2. Gates \cap e.done \subseteq e.approved
      BY <1>1, <3>1 DEF RunOK
    <3>3. \A n \in Nodes \cap e.done : \E k \in 0..Attempts - 1 : e.ops[<<n, k>>] = "completed"
      BY <1>1, <3>1 DEF RunOK
    <3>. QED BY <2>6, <3>1, <3>2, <3>3 DEF RunOK
  <2>7. CASE \E status \in {"rejected", "awaiting-approval"} :
               Goto(p, "closing") /\ Store(p, [kept EXCEPT !.status = status])
    <3>1. PICK status \in {"rejected", "awaiting-approval"} :
               Goto(p, "closing") /\ Store(p, [kept EXCEPT !.status = status])
      BY <2>7
    <3>2. PICK s, e : s = [proc[p] EXCEPT !.pc = "closing"] /\ e = [kept EXCEPT !.status = status]
      OBVIOUS
    <3>3. Moved(p, s, "closing")
      BY <1>1, <3>2 DEF Moved, Process
    <3>4. Become(p, s) /\ Store(p, e)
      BY <3>1, <3>2 DEF Goto
    <3>5. status \in Statuses /\ status # "completed"
      BY DEF Statuses, Finished
    <3>6. RunOK(e)
      BY <2>6, <3>2, <3>5
    <3>. QED BY <1>1, <1>2, <3>3, <3>4, <3>6, CalmAccounted
  <2>8. CASE /\ \A g \in D : approve[g]
             /\ Become(p, [proc[p] EXCEPT !.pc = "graph", !.granted = D])
             /\ Store(p, [kept EXCEPT !.status = "running"])
    <3>1. PICK s, e : s = [proc[p] EXCEPT !.pc = "graph", !.granted = D]
                      /\ e = [kept EXCEPT !.status = "running"]
      OBVIOUS
    <3>2. Moved(p, s, "graph") /\ s.known = proc[p].known /\ s.granted = D
      BY <1>1, <3>1 DEF Moved, Process
    <3>3. Become(p, s) /\ Store(p, e)
      BY <2>8, <3>1
    <3>4. "running" \in Statuses /\ "running" \notin Finished
      BY DEF Statuses, Finished
    <3>5. /\ RunOK(e) /\ e.run /\ e.status = "running" /\ e.ops = Run(p).ops
          /\ e.inventory = Run(p).inventory /\ given \subseteq e.approved
      BY <2>6, <3>1, <3>4
    <3>6. given = D
      BY <2>3, <2>8
    <3>7. Failed(p) = {} => Consistent(p)
      BY <1>1 DEF Books
    <3>. QED BY <1>1, <1>2, <3>2, <3>3, <3>4, <3>5, <3>6, <3>7, CalmAccounted DEF Consistent
  <2>. QED BY <2>2, <2>3, <2>4, <2>7, <2>8
<1>. QED BY <1>3, <1>4

LEMMA AccountedGate ==
    ASSUME Typed, Locked, Accounted, NEW p \in Runners, NEW g \in Gates, VisitGate(p, g)
    PROVE  Accounted'
<1>1. /\ proc[p].pc = "graph" /\ "graph" \in InsidePlaces /\ Stage(p) /\ Books(p)
      /\ Run(p).run /\ Run(p).status = "running" /\ RunOK(Run(p))
      /\ proc[p].run \in Runs /\ Run(p) \in Directory /\ proc[p] \in Process
  BY RunTyped DEF VisitGate, At, Accounted, Run, Stage, InsidePlaces
<1>2. Moved(p, proc[p], "graph") /\ Become(p, proc[p])
  BY <1>1 DEF Moved, Become, VisitGate, Typed, TypeOK
<1>3. proc[p].granted \subseteq Run(p).approved
  BY <1>1 DEF Books
<1>4. PICK done, pending : Store(p, [Run(p) EXCEPT !.done = done, !.pending = pending])
                           /\ (done = Run(p).done \/ (g \in proc[p].granted /\ done = Run(p).done \cup {g}))
  <2>1. CASE g \in proc[p].granted
    BY <2>1 DEF VisitGate
  <2>2. CASE g \notin proc[p].granted
    <3>1. Store(p, [Run(p) EXCEPT !.pending = @ \cup {g}])
      BY <2>2 DEF VisitGate
    <3>2. [Run(p) EXCEPT !.pending = @ \cup {g}]
             = [Run(p) EXCEPT !.done = Run(p).done, !.pending = Run(p).pending \cup {g}]
      BY <1>1 DEF Directory
    <3>. QED BY <3>1, <3>2
  <2>. QED BY <2>1, <2>2
<1>5. PICK e : e = [Run(p) EXCEPT !.done = done, !.pending = pending]
  OBVIOUS
<1>6. /\ e.run /\ e.status = "running" /\ e.ops = Run(p).ops /\ e.inventory = Run(p).inventory
      /\ e.done = done /\ e.approved = Run(p).approved
  BY <1>1, <1>5 DEF Directory
<1>7. RunOK(e)
  <2>1. Nodes \cap done = Nodes \cap Run(p).done /\ Gates \cap done \subseteq Run(p).approved
    <3>1. Nodes \cap Gates = {} /\ Gates \cap Run(p).done \subseteq Run(p).approved
      BY <1>1, WorkflowAssumption DEF RunOK
    <3>. QED BY <1>3, <1>4, <3>1
  <2>. QED BY <1>1, <1>6, <2>1 DEF RunOK
<1>8. Failed(p) = {} => Consistent(p)
  BY <1>1 DEF Books
<1>9. proc[p].granted \subseteq e.approved /\ e.status \notin Finished
  BY <1>1, <1>6 DEF Books, Finished
<1>10. Store(p, e)
  BY <1>4, <1>5
<1>. QED BY <1>1, <1>2, <1>6, <1>7, <1>8, <1>9, <1>10, CalmAccounted DEF Consistent

\* Where no node is at work and none can be visited, all of the graph is in the checkpoint.
LEMMA NothingLeft ==
    ASSUME NEW p \in Runners, Ready(p) = {}, Run(p) \in Directory
    PROVE  Run(p).done = Nodes \cup Gates
<1>. DEFINE S == (Nodes \cup Gates) \ Run(p).done
<1>1. ASSUME S # {} PROVE FALSE
  <2>1. PICK n \in S : Before[n] \cap S = {}
    <3>. S \in SUBSET (Nodes \cup Gates)
      OBVIOUS
    <3>. HIDE DEF S
    <3>. QED BY <1>1, WorkflowAssumption
  <2>2. Before[n] \subseteq Nodes \cup Gates
    BY WorkflowAssumption
  <2>. QED BY <2>1, <2>2 DEF Ready
<1>. QED BY <1>1 DEF Directory

LEMMA AccountedEnd ==
    ASSUME Typed, Locked, Clear, Accounted, NEW p \in Runners, GraphEnds(p)
    PROVE  Accounted'
<1>1. /\ proc[p].pc = "graph" /\ {"graph", "closing"} \subseteq InsidePlaces /\ Stage(p) /\ Books(p)
      /\ Run(p).run /\ Run(p).status = "running" /\ RunOK(Run(p))
      /\ proc[p].run \in Runs /\ Run(p) \in Directory /\ proc[p] \in Process
  BY RunTyped DEF GraphEnds, At, Accounted, Run, Stage, InsidePlaces
<1>2. AtRest(p)
  BY <1>1 DEF GraphEnds, AtRest, Active, Failed
<1>3. Consistent(p)
  BY <1>1 DEF GraphEnds, Books
<1>4. PICK status : status = IF Run(p).pending # {} THEN "awaiting-approval" ELSE "completed"
  OBVIOUS
<1>5. PICK s, e : s = [proc[p] EXCEPT !.pc = "closing"] /\ e = [Run(p) EXCEPT !.status = status]
  OBVIOUS
<1>6. Moved(p, s, "closing") /\ Become(p, s) /\ Store(p, e)
  BY <1>1, <1>4, <1>5 DEF Moved, Process, GraphEnds, Goto
<1>7. /\ e.run /\ e.status = status /\ e.ops = Run(p).ops /\ e.inventory = Run(p).inventory
      /\ e.done = Run(p).done /\ e.approved = Run(p).approved
  BY <1>1, <1>5 DEF Directory
<1>8. ASSUME status = "completed" PROVE Complete(e)
  <2>1. Run(p).done = Nodes \cup Gates
    <3>1. Run(p).pending = {}
      BY <1>4, <1>8
    <3>2. Ready(p) = {}
      BY <3>1 DEF GraphEnds
    <3>. QED BY <1>1, <3>2, NothingLeft
  <2>2. Unanswered(e) = {}
    BY <1>1, <1>2, <1>7 DEF Clear, Committed, Certain, AtRest, Unanswered, Run
  <2>3. e.inventory = Recorded(e)
    <3>1. \A o : ~Queued(p, o, {"inventory", "record"}) /\ ~Queued(p, o, {"inventory"})
      BY <1>2 DEF AtRest, Queued
    <3>2. \A o \in Operations : o \in e.inventory <=> e.ops[o] # "none"
      BY <1>3, <1>7, <3>1 DEF Consistent
    <3>3. e.inventory \in SUBSET Operations
      BY <1>1, <1>3, <1>7 DEF Consistent, Directory
    <3>. QED BY <3>2, <3>3 DEF Recorded
  <2>. QED BY <1>7, <2>1, <2>2, <2>3 DEF Complete
<1>9. RunOK(e)
  BY <1>1, <1>7, <1>8 DEF RunOK
<1>. QED BY <1>1, <1>2, <1>6, <1>7, <1>9, CalmAccounted

\* The other steps of a runner that ends, or is made to.
LEMMA AccountedClosing ==
    ASSUME Typed, Locked, Accounted, NEW p \in Runners,
           Abort(p) \/ GraphFails(p) \/ Retain(p) \/ Settle(p)
    PROVE  Accounted'
<1>1. /\ proc[p].pc \in {"graph", "closing"} /\ {"graph", "closing", "retained", "unlock"} \subseteq InsidePlaces
      /\ Stage(p) /\ Books(p) /\ RunOK(Run(p))
      /\ proc[p].run \in Runs /\ Run(p) \in Directory /\ proc[p] \in Process
  BY RunTyped DEF Abort, GraphFails, Retain, Settle, At, Accounted, Run, InsidePlaces
<1>2. CASE Abort(p)
  <2>1. PICK s : s = [proc[p] EXCEPT !.aborted = TRUE]
    OBVIOUS
  <2>2. Moved(p, s, "graph") /\ s.known = proc[p].known /\ s.granted = proc[p].granted
    BY <1>1, <1>2, <2>1 DEF Moved, Process, Abort, At
  <2>3. Become(p, s) /\ UNCHANGED dir /\ proc[p].pc = "graph"
    BY <1>2, <2>1 DEF Abort, At
  <2>4. Run(p).run /\ Run(p).status = "running" /\ Run(p).status \notin Finished
    BY <1>1, <2>3 DEF Stage, Finished
  <2>5. Failed(p) = {} => Consistent(p)
    BY <1>1, <2>3 DEF Books
  <2>6. proc[p].granted \subseteq Run(p).approved
    BY <1>1, <2>3 DEF Books
  <2>. QED BY <1>1, <2>2, <2>3, <2>4, <2>5, <2>6, CalmAccounted DEF Consistent
<1>3. CASE GraphFails(p)
  <2>1. PICK s, e : s = [proc[p] EXCEPT !.pc = "closing", !.aborted = TRUE] /\ e = Stopped(Run(p), proc[p].aborted)
    OBVIOUS
  <2>2. Moved(p, s, "closing") /\ Become(p, s) /\ Store(p, e)
    BY <1>1, <1>3, <2>1 DEF Moved, Process, GraphFails
  <2>3. /\ e.run = Run(p).run /\ e.done = Run(p).done /\ e.ops = Run(p).ops /\ e.approved = Run(p).approved
        /\ e.status \in {"cancelled", "blocked"}
    BY <1>1, <2>1 DEF Stopped, Directory
  <2>4. Run(p).run
    BY <1>1, <1>3 DEF GraphFails, At, Stage
  <2>5. RunOK(e) /\ e.status # "completed"
    BY <1>1, <2>3, <2>4 DEF RunOK
  <2>. QED BY <1>1, <2>2, <2>3, <2>5, CalmAccounted
<1>4. CASE Retain(p)
  <2>1. PICK s, e : s = [proc[p] EXCEPT !.pc = "retained"] /\ e = [Run(p) EXCEPT !.status = "blocked"]
    OBVIOUS
  <2>2. Moved(p, s, "retained") /\ Become(p, s) /\ Store(p, e)
    BY <1>1, <1>4, <2>1 DEF Moved, Process, Retain, Goto
  <2>3. /\ e.run = Run(p).run /\ e.done = Run(p).done /\ e.ops = Run(p).ops /\ e.approved = Run(p).approved
        /\ e.status = "blocked" /\ "blocked" \notin Finished
    BY <1>1, <2>1 DEF Finished, Directory
  <2>4. RunOK(e)
    BY <1>1, <2>3 DEF RunOK
  <2>. QED BY <1>1, <2>2, <2>3, <2>4, CalmAccounted
<1>5. CASE Settle(p)
  <2>0. PICK settlement : settlement = Settlement(p)
    OBVIOUS
  <2>1. PICK s, e : s = [proc[p] EXCEPT !.pc = "unlock"] /\ e = [Run(p) EXCEPT !.settlement = settlement]
    OBVIOUS
  <2>2. Moved(p, s, "unlock") /\ Become(p, s) /\ Store(p, e)
    BY <1>1, <1>5, <2>0, <2>1 DEF Moved, Process, Settle, Goto
  <2>3. /\ e.run = Run(p).run /\ e.done = Run(p).done /\ e.ops = Run(p).ops /\ e.approved = Run(p).approved
        /\ e.status = Run(p).status /\ e.inventory = Run(p).inventory
    BY <1>1, <2>1 DEF Directory
  <2>4. RunOK(e)
    BY <1>1, <2>3 DEF RunOK, Complete, Recorded, Unanswered
  <2>. QED BY <1>1, <2>2, <2>3, <2>4, CalmAccounted
<1>. QED BY <1>2, <1>3, <1>4, <1>5

\* The queue of a runner, seen from the node that a step is on.
OthersQueued(p, n, o, phases) == \E m \in Nodes \ {n} : proc[p].phase[m] \in phases /\ o = Op(p, m)

LEMMA QueueFrame ==
    ASSUME NEW p \in Runners, NEW n \in Nodes, OnlyNode(p, n, proc'[p]), NEW o, NEW phases
    PROVE  /\ Queued(p, o, phases) <=> OthersQueued(p, n, o, phases) \/ (proc[p].phase[n] \in phases /\ o = Op(p, n))
           /\ Queued(p, o, phases)' <=> OthersQueued(p, n, o, phases)
                                        \/ (proc'[p].phase[n] \in phases /\ o = Op(p, n)')
BY DEF Queued, OthersQueued, OnlyNode, Op

\* What a step on a node, to s, changes of the runner and the directory, e from then on.
OnNode(p, n, s, e) ==
    /\ OnlyNode(p, n, s) /\ s.granted = proc[p].granted
    /\ proc[p].phase[n] # "failed" /\ (~AtRest(p) \/ proc[p].pc = "graph")
    /\ e.run = Run(p).run /\ e.status = Run(p).status /\ e.approved = Run(p).approved
    /\ \/ e.done = Run(p).done
       \/ e.done = Run(p).done \cup {n} /\ \E k \in 0..Attempts - 1 : e.ops[<<n, k>>] = "completed"
    /\ \A o \in Operations : Run(p).ops[o] = "completed" => e.ops[o] = "completed"
    /\ s.phase[n] = "save" => s.attempt[n] < Attempts /\ e.ops[<<n, s.attempt[n]>>] = "completed"

\* Every step on a node: what it has to say of the books.
LEMMA NodeAccounted ==
    ASSUME Typed, Locked, Accounted, NEW p \in Runners, NEW n \in Nodes, Alive(p),
           NEW s, Become(p, s), NEW e, Store(p, e) \/ (UNCHANGED dir /\ e = Run(p)), OnNode(p, n, s, e),
           Consistent(p) /\ proc[p].pc = "graph" /\ s.phase[n] # "failed" => Consistent(p)'
    PROVE  Accounted'
<1>. USE DEF OnNode
<1>0. proc[p].pc \in {"graph", "closing", "retained"} /\ proc[p].pc \in InsidePlaces
  BY DEF Alive, InsidePlaces
<1>1. /\ OwnRun(p) /\ proc'[p] = s /\ dir'[proc[p].run] = e
      /\ proc[p].run \in Runs /\ Run(p) \in Directory /\ proc[p] \in Process
  BY <1>0, Stored
<1>2. Run(p)' = e /\ proc'[p].pc = proc[p].pc
  BY <1>1 DEF Run, OnlyNode
<1>3. Stage(p) /\ Books(p) /\ RunOK(Run(p))
  BY <1>1 DEF Accounted, Run
<1>4. e.status # "completed"
  BY <1>0, <1>3 DEF Stage
<1>5. Stage(p)'
  BY <1>0, <1>2, <1>3, <1>4 DEF Stage
<1>6. RunOK(e)
  <2>1. \A m \in Nodes, k \in 0..Attempts - 1 : <<m, k>> \in Operations
    BY DEF Operations
  <2>2. \A m \in Nodes \cap e.done : \E k \in 0..Attempts - 1 : e.ops[<<m, k>>] = "completed"
    BY <1>3, <2>1 DEF RunOK
  <2>3. Gates \cap e.done \subseteq e.approved
    BY <1>3, WorkflowAssumption DEF RunOK
  <2>. QED BY <1>3, <1>4, <2>2, <2>3 DEF RunOK
<1>7. ASSUME NEW m \in Nodes, proc'[p].phase[m] = "save"
      PROVE  proc'[p].attempt[m] < Attempts /\ e.ops[Op(p, m)'] = "completed"
  <2>1. CASE m = n
    BY <1>1, <1>7, <2>1 DEF Op
  <2>2. CASE m # n
    <3>1. proc[p].phase[m] = "save" /\ proc'[p].attempt[m] = proc[p].attempt[m] /\ Op(p, m)' = Op(p, m)
      BY <1>1, <1>7, <2>2 DEF OnlyNode, Op
    <3>2. proc[p].attempt[m] < Attempts /\ Run(p).ops[Op(p, m)] = "completed"
      BY <1>3, <3>1 DEF Books
    <3>. QED BY <3>1, <3>2, OpTyped
  <2>. QED BY <2>1, <2>2
<1>8. proc[p].pc = "graph" /\ Failed(p)' = {} => Consistent(p)'
  <2>. SUFFICES ASSUME proc[p].pc = "graph", Failed(p)' = {} PROVE Consistent(p)'
    OBVIOUS
  <2>1. s.phase[n] # "failed"
    BY <1>1 DEF Failed
  <2>2. Failed(p) = {}
    BY <1>1 DEF Failed, OnlyNode
  <2>. QED BY <1>3, <2>1, <2>2 DEF Books
<1>9. Books(p)'
  BY <1>0, <1>1, <1>2, <1>3, <1>7, <1>8 DEF Books
<1>. QED BY <1>0, <1>1, <1>5, <1>6, <1>9, AccountedStep

\* A step on a node that is not in the queue and does not join it.
LEMMA ConsistentStays ==
    ASSUME NEW p \in Runners, NEW n \in Nodes, OnlyNode(p, n, proc'[p]), Consistent(p),
           proc[p].phase[n] \notin {"inventory", "record"}, proc'[p].phase[n] \notin {"inventory", "record"},
           proc'[p].known = proc[p].known, Run(p)'.inventory = Run(p).inventory,
           \A o \in Operations : Run(p)'.ops[o] = "none" <=> Run(p).ops[o] = "none"
    PROVE  Consistent(p)'
<1>1. \A o : /\ Queued(p, o, {"inventory", "record"})' <=> Queued(p, o, {"inventory", "record"})
             /\ Queued(p, o, {"inventory"})' <=> Queued(p, o, {"inventory"})
  <2>1. ASSUME NEW o PROVE Queued(p, o, {"inventory", "record"})' <=> Queued(p, o, {"inventory", "record"})
    BY QueueFrame
  <2>2. ASSUME NEW o PROVE Queued(p, o, {"inventory"})' <=> Queued(p, o, {"inventory"})
    BY QueueFrame
  <2>. QED BY <2>1, <2>2
<1>. QED BY <1>1 DEF Consistent

\* A step on a node that leaves the directory and the queue alone.
LEMMA AsideAccounted ==
    ASSUME Typed, Locked, Accounted, NEW p \in Runners, NEW n \in Nodes, Alive(p),
           NEW s, Become(p, s), OnlyNode(p, n, s), s.granted = proc[p].granted, s.known = proc[p].known,
           UNCHANGED dir, proc[p].phase[n] \notin {"failed", "inventory", "record"},
           proc[p].phase[n] # "waiting" \/ proc[p].pc = "graph",
           s.phase[n] \notin {"inventory", "record"},
           s.phase[n] = "save" => s.attempt[n] < Attempts /\ Run(p).ops[<<n, s.attempt[n]>>] = "completed"
    PROVE  Accounted'
<1>1. ~AtRest(p) \/ proc[p].pc = "graph"
  BY DEF AtRest
<1>2. proc'[p] = s /\ Run(p)' = Run(p)
  BY BecomeFrame DEF Run, OnlyNode
<1>3. Consistent(p) => Consistent(p)'
  BY <1>2, ConsistentStays
<1>4. OnNode(p, n, s, Run(p))
  BY <1>1 DEF OnNode
<1>. QED BY <1>3, <1>4, NodeAccounted

LEMMA AccountedVisit ==
    ASSUME Typed, Locked, Accounted, NEW p \in Runners, NEW n \in Nodes,
           Visit(p, n) \/ CallAdapter(p, n) \/ AdapterThrows(p, n)
    PROVE  Accounted'
<1>1. proc[p] \in Process
  BY GoodNow DEF Good
<1>2. CASE Visit(p, n)
  <2>1. PICK s : s = [proc[p] EXCEPT !.phase[n] = "try", !.attempt[n] = 0]
    OBVIOUS
  <2>2. /\ OnlyNode(p, n, s) /\ s.phase[n] = "try" /\ s.granted = proc[p].granted
        /\ s.known = proc[p].known
    BY <1>1, <2>1 DEF OnlyNode, Process
  <2>3. Become(p, s) /\ UNCHANGED dir /\ proc[p].phase[n] = "waiting" /\ proc[p].pc = "graph" /\ Alive(p)
    BY <1>2, <2>1 DEF Visit, At, Alive
  <2>. QED BY <2>2, <2>3, AsideAccounted
<1>3. CASE CallAdapter(p, n)
  <2>1. PICK s : s = [proc[p] EXCEPT !.phase[n] = "running"]
    OBVIOUS
  <2>2. OnlyPhase(p, n, s, "running") /\ s.granted = proc[p].granted /\ s.known = proc[p].known
    BY <1>1, <2>1 DEF OnlyPhase, OnlyNode, Process
  <2>3. Become(p, s) /\ UNCHANGED dir /\ proc[p].phase[n] = "call" /\ Alive(p)
    BY <1>3, <2>1 DEF CallAdapter, Step
  <2>. QED BY <2>2, <2>3, AsideAccounted DEF OnlyPhase
<1>4. CASE AdapterThrows(p, n)
  <2>1. PICK flag : Become(p, [proc[p] EXCEPT !.phase[n] = "failed", !.unsettled = flag])
    BY <1>4 DEF AdapterThrows
  <2>2. PICK s : s = [proc[p] EXCEPT !.phase[n] = "failed", !.unsettled = flag]
    OBVIOUS
  <2>3. OnlyPhase(p, n, s, "failed") /\ s.granted = proc[p].granted /\ s.known = proc[p].known
    BY <1>1, <2>2 DEF OnlyPhase, OnlyNode, Process
  <2>4. Become(p, s) /\ UNCHANGED dir /\ proc[p].phase[n] = "running" /\ Alive(p)
    BY <1>4, <2>1, <2>2 DEF AdapterThrows
  <2>. QED BY <2>3, <2>4, AsideAccounted DEF OnlyPhase
<1>. QED BY <1>2, <1>3, <1>4

LEMMA AccountedConsider ==
    ASSUME Typed, Locked, Accounted, NEW p \in Runners, NEW n \in Nodes, Consider(p, n)
    PROVE  Accounted'
<1>1. proc[p] \in Process /\ proc[p].phase[n] = "result" /\ Alive(p) /\ UNCHANGED dir
  BY GoodNow DEF Good, Consider
<1>2. CASE Run(p).ops[Op(p, n)] = "completed" /\ Step(p, n, "save")
  <2>1. PICK s : s = [proc[p] EXCEPT !.phase[n] = "save"]
    OBVIOUS
  <2>2. OnlyPhase(p, n, s, "save") /\ s.granted = proc[p].granted /\ s.known = proc[p].known
    BY <1>1, <2>1 DEF OnlyPhase, OnlyNode, Process
  <2>3. Become(p, s) /\ s.attempt[n] < Attempts /\ Run(p).ops[<<n, s.attempt[n]>>] = "completed"
    BY <1>1, <1>2, <2>1, <2>2 DEF Step, OnlyPhase, Op, Typed, Placed, Dispatching
  <2>. QED BY <1>1, <2>2, <2>3, AsideAccounted DEF OnlyPhase
<1>3. CASE Become(p, [proc[p] EXCEPT !.phase[n] = "try", !.attempt[n] = @ + 1])
  <2>1. PICK s : s = [proc[p] EXCEPT !.phase[n] = "try", !.attempt[n] = @ + 1]
    OBVIOUS
  <2>2. /\ OnlyNode(p, n, s) /\ s.phase[n] = "try" /\ s.granted = proc[p].granted
        /\ s.known = proc[p].known
    BY <1>1, <2>1 DEF OnlyNode, Process
  <2>3. Become(p, s)
    BY <1>3, <2>1
  <2>. QED BY <1>1, <2>2, <2>3, AsideAccounted
<1>4. CASE Step(p, n, "failed")
  <2>1. PICK s : s = [proc[p] EXCEPT !.phase[n] = "failed"]
    OBVIOUS
  <2>2. OnlyPhase(p, n, s, "failed") /\ s.granted = proc[p].granted /\ s.known = proc[p].known
    BY <1>1, <2>1 DEF OnlyPhase, OnlyNode, Process
  <2>3. Become(p, s)
    BY <1>4, <2>1 DEF Step
  <2>. QED BY <1>1, <2>2, <2>3, AsideAccounted DEF OnlyPhase
<1>. QED BY <1>2, <1>3, <1>4 DEF Consider

LEMMA AccountedTry ==
    ASSUME Typed, Locked, Accounted, NEW p \in Runners, NEW n \in Nodes, Try(p, n)
    PROVE  Accounted'
<1>1. /\ proc[p] \in Process /\ proc[p].phase[n] = "try" /\ Alive(p) /\ UNCHANGED dir
      /\ proc[p].run \in Runs /\ ~AtRest(p)
  BY GoodNow DEF Good, Try, AtRest
<1>2. ASSUME NEW phase \in {"result", "failed"}, NEW flag,
             \/ Become(p, [proc[p] EXCEPT !.phase[n] = phase])
             \/ Become(p, [proc[p] EXCEPT !.phase[n] = phase, !.aborted = flag])
      PROVE  Accounted'
  <2>1. PICK s : Become(p, s) /\ (\/ s = [proc[p] EXCEPT !.phase[n] = phase]
                                  \/ s = [proc[p] EXCEPT !.phase[n] = phase, !.aborted = flag])
    BY <1>2
  <2>2. OnlyPhase(p, n, s, phase) /\ s.granted = proc[p].granted /\ s.known = proc[p].known
    <3>1. CASE s = [proc[p] EXCEPT !.phase[n] = phase]
      BY <1>1, <3>1 DEF OnlyPhase, OnlyNode, Process
    <3>2. CASE s = [proc[p] EXCEPT !.phase[n] = phase, !.aborted = flag]
      BY <1>1, <3>2 DEF OnlyPhase, OnlyNode, Process
    <3>. QED BY <2>1, <3>1, <3>2
  <2>. QED BY <1>1, <2>1, <2>2, AsideAccounted DEF OnlyPhase
<1>3. CASE /\ Op(p, n) \notin proc[p].known
           /\ Become(p, [proc[p] EXCEPT !.phase[n] = "inventory", !.known = @ \cup {Op(p, n)}])
  <2>1. PICK s : s = [proc[p] EXCEPT !.phase[n] = "inventory", !.known = @ \cup {Op(p, n)}]
    OBVIOUS
  <2>2. OnlyPhase(p, n, s, "inventory") /\ s.granted = proc[p].granted /\ s.known = proc[p].known \cup {Op(p, n)}
    BY <1>1, <2>1 DEF OnlyPhase, OnlyNode, Process
  <2>3. Become(p, s) /\ proc'[p] = s /\ OnlyNode(p, n, proc'[p]) /\ Op(p, n)' = Op(p, n)
        /\ Run(p)' = Run(p)
    <3>1. Become(p, s)
      BY <1>3, <2>1
    <3>2. proc'[p] = s
      BY <3>1, BecomeFrame
    <3>. QED BY <1>1, <2>2, <3>1, <3>2 DEF OnlyPhase, OnlyNode, Op, Run
  <2>4. ASSUME Consistent(p) PROVE Consistent(p)'
    <3>1. ASSUME NEW o
          PROVE  /\ Queued(p, o, {"inventory", "record"})'
                       <=> (Queued(p, o, {"inventory", "record"}) \/ o = Op(p, n))
                 /\ Queued(p, o, {"inventory"})' <=> (Queued(p, o, {"inventory"}) \/ o = Op(p, n))
      <4>1. Queued(p, o, {"inventory", "record"})'
               <=> (Queued(p, o, {"inventory", "record"}) \/ o = Op(p, n))
        BY <1>1, <2>2, <2>3, QueueFrame DEF OnlyPhase
      <4>2. Queued(p, o, {"inventory"})' <=> (Queued(p, o, {"inventory"}) \/ o = Op(p, n))
        BY <1>1, <2>2, <2>3, QueueFrame DEF OnlyPhase
      <4>. QED BY <4>1, <4>2
    <3>. QED BY <2>2, <2>3, <2>4, <3>1 DEF Consistent
  <2>5. OnNode(p, n, s, Run(p))
    BY <1>1, <2>2 DEF OnNode, OnlyPhase
  <2>. QED BY <1>1, <2>3, <2>4, <2>5, NodeAccounted
<1>. QED BY <1>2, <1>3 DEF Try, Step

LEMMA AccountedInventory ==
    ASSUME Typed, Locked, Accounted, NEW p \in Runners, NEW n \in Nodes, WriteInventory(p, n)
    PROVE  Accounted'
<1>1. /\ proc[p] \in Process /\ proc[p].phase[n] = "inventory" /\ Alive(p)
      /\ proc[p].run \in Runs /\ Run(p) \in Directory /\ ~AtRest(p) /\ proc[p].pc \in InsidePlaces
  BY BusyTyped, RunTyped DEF WriteInventory, AtRest, Alive
<1>2. CASE Step(p, n, "failed") /\ UNCHANGED dir
  <2>1. PICK s : s = [proc[p] EXCEPT !.phase[n] = "failed"]
    OBVIOUS
  <2>2. OnlyPhase(p, n, s, "failed") /\ s.granted = proc[p].granted
    BY <1>1, <2>1 DEF OnlyPhase, OnlyNode, Process
  <2>3. Become(p, s)
    BY <1>2, <2>1 DEF Step
  <2>4. OnNode(p, n, s, Run(p)) /\ s.phase[n] = "failed"
    BY <1>1, <2>2 DEF OnNode, OnlyPhase
  <2>. QED BY <1>1, <1>2, <2>3, <2>4, NodeAccounted
<1>3. CASE Step(p, n, "record") /\ Store(p, [Run(p) EXCEPT !.inventory = proc[p].known])
  <2>1. PICK s, e : s = [proc[p] EXCEPT !.phase[n] = "record"] /\ e = [Run(p) EXCEPT !.inventory = proc[p].known]
    OBVIOUS
  <2>2. OnlyPhase(p, n, s, "record") /\ s.granted = proc[p].granted /\ s.known = proc[p].known
    BY <1>1, <2>1 DEF OnlyPhase, OnlyNode, Process
  <2>3. /\ e.run = Run(p).run /\ e.status = Run(p).status /\ e.approved = Run(p).approved
        /\ e.done = Run(p).done /\ e.ops = Run(p).ops /\ e.inventory = proc[p].known
    BY <1>1, <2>1 DEF Directory
  <2>4. Become(p, s) /\ Store(p, e)
    BY <1>3, <2>1 DEF Step
  <2>5. proc'[p] = s /\ OnlyNode(p, n, proc'[p]) /\ Op(p, n)' = Op(p, n) /\ Run(p)' = e
    BY <1>1, <2>2, <2>4, Stored DEF OnlyPhase, OnlyNode, Op, Run
  <2>6. ASSUME Consistent(p) PROVE Consistent(p)'
    <3>1. ASSUME NEW o
          PROVE  Queued(p, o, {"inventory", "record"})' <=> Queued(p, o, {"inventory", "record"})
      BY <1>1, <2>2, <2>5, QueueFrame DEF OnlyPhase
    <3>2. e.inventory # None
      BY <1>1, <2>3, WorkflowAssumption DEF Process
    <3>. QED BY <2>2, <2>3, <2>5, <2>6, <3>1, <3>2 DEF Consistent
  <2>7. OnNode(p, n, s, e)
    BY <1>1, <2>2, <2>3 DEF OnNode, OnlyPhase
  <2>. QED BY <1>1, <2>4, <2>6, <2>7, NodeAccounted
<1>. QED BY <1>2, <1>3 DEF WriteInventory

LEMMA AccountedRecord ==
    ASSUME Typed, Locked, Accounted, NEW p \in Runners, NEW n \in Nodes, WriteRecord(p, n)
    PROVE  Accounted'
<1>1. /\ proc[p] \in Process /\ proc[p].phase[n] = "record" /\ Alive(p) /\ Op(p, n) \in Operations
      /\ proc[p].run \in Runs /\ Run(p) \in Directory /\ ~AtRest(p) /\ proc[p].pc \in InsidePlaces
  BY BusyTyped, RunTyped, OpTyped DEF WriteRecord, AtRest, Alive, Typed, Placed, Dispatching
<1>2. CASE Become(p, [proc[p] EXCEPT !.phase[n] = "failed", !.jammed = TRUE]) /\ UNCHANGED dir
  <2>1. PICK s : s = [proc[p] EXCEPT !.phase[n] = "failed", !.jammed = TRUE]
    OBVIOUS
  <2>2. OnlyPhase(p, n, s, "failed") /\ s.granted = proc[p].granted
    BY <1>1, <2>1 DEF OnlyPhase, OnlyNode, Process
  <2>3. Become(p, s)
    BY <1>2, <2>1
  <2>4. OnNode(p, n, s, Run(p)) /\ s.phase[n] = "failed"
    BY <1>1, <2>2 DEF OnNode, OnlyPhase
  <2>. QED BY <1>1, <1>2, <2>3, <2>4, NodeAccounted
<1>3. CASE /\ Run(p).ops[Op(p, n)] = "none" /\ Step(p, n, "call")
           /\ Store(p, [Run(p) EXCEPT !.ops[Op(p, n)] = "intent"])
  <2>0. PICK op : op = Op(p, n)
    OBVIOUS
  <2>1. PICK s, e : s = [proc[p] EXCEPT !.phase[n] = "call"] /\ e = [Run(p) EXCEPT !.ops[op] = "intent"]
    OBVIOUS
  <2>2. OnlyPhase(p, n, s, "call") /\ s.granted = proc[p].granted /\ s.known = proc[p].known
    BY <1>1, <2>1 DEF OnlyPhase, OnlyNode, Process
  <2>3. /\ e.run = Run(p).run /\ e.status = Run(p).status /\ e.approved = Run(p).approved
        /\ e.done = Run(p).done /\ e.inventory = Run(p).inventory
        /\ \A o \in Operations : e.ops[o] = IF o = op THEN "intent" ELSE Run(p).ops[o]
    BY <1>1, <2>1 DEF Directory
  <2>4. Become(p, s) /\ Store(p, e)
    BY <1>3, <2>0, <2>1 DEF Step
  <2>5. proc'[p] = s /\ OnlyNode(p, n, proc'[p]) /\ Op(p, n)' = Op(p, n) /\ Run(p)' = e
    BY <1>1, <2>2, <2>4, Stored DEF OnlyPhase, OnlyNode, Op, Run
  <2>6. ASSUME Consistent(p) PROVE Consistent(p)'
    <3>1. ASSUME NEW o
          PROVE  /\ Queued(p, o, {"inventory", "record"})
                       => (Queued(p, o, {"inventory", "record"})' \/ o = op)
                 /\ Queued(p, o, {"inventory", "record"})' => Queued(p, o, {"inventory", "record"})
                 /\ Queued(p, op, {"inventory", "record"})
                 /\ Queued(p, o, {"inventory"})' <=> Queued(p, o, {"inventory"})
      <4>1. /\ Queued(p, o, {"inventory", "record"}) => (Queued(p, o, {"inventory", "record"})' \/ o = op)
            /\ Queued(p, o, {"inventory", "record"})' => Queued(p, o, {"inventory", "record"})
        BY <1>1, <2>0, <2>2, <2>5, QueueFrame DEF OnlyPhase
      <4>2. Queued(p, o, {"inventory"})' <=> Queued(p, o, {"inventory"})
        BY <1>1, <2>2, <2>5, QueueFrame DEF OnlyPhase
      <4>3. Queued(p, op, {"inventory", "record"})
        BY <1>1, <2>0 DEF Queued
      <4>. QED BY <4>1, <4>2, <4>3
    <3>. QED BY <2>2, <2>3, <2>5, <2>6, <3>1 DEF Consistent
  <2>7. OnNode(p, n, s, e)
    BY <1>1, <1>3, <2>0, <2>2, <2>3 DEF OnNode, OnlyPhase
  <2>. QED BY <1>1, <2>4, <2>6, <2>7, NodeAccounted
<1>. QED BY <1>2, <1>3 DEF WriteRecord

LEMMA AccountedAnswer ==
    ASSUME Typed, Locked, Journaled, Accounted, NEW p \in Runners, NEW n \in Nodes,
           NEW result \in Answers, Answer(p, n, result)
    PROVE  Accounted'
<1>1. /\ proc[p] \in Process /\ proc[p].phase[n] = "running" /\ Alive(p) /\ Op(p, n) \in Operations
      /\ proc[p].run \in Runs /\ Run(p) \in Directory /\ ~AtRest(p) /\ proc[p].pc \in InsidePlaces
  BY BusyTyped, RunTyped, OpTyped DEF Answer, AtRest, Alive, Typed, Placed, Dispatching
<1>2. Run(p).ops[Op(p, n)] = "intent" /\ result # "none"
  BY <1>1, WorkflowAssumption DEF Journaled, Out, Run, Results
<1>3. PICK op : op = Op(p, n)
  OBVIOUS
<1>4. PICK s, e : s = [proc[p] EXCEPT !.phase[n] = "result"] /\ e = [Run(p) EXCEPT !.ops[op] = result]
  OBVIOUS
<1>5. OnlyPhase(p, n, s, "result") /\ s.granted = proc[p].granted /\ s.known = proc[p].known
  BY <1>1, <1>4 DEF OnlyPhase, OnlyNode, Process
<1>6. /\ e.run = Run(p).run /\ e.status = Run(p).status /\ e.approved = Run(p).approved
      /\ e.done = Run(p).done /\ e.inventory = Run(p).inventory
      /\ \A o \in Operations : e.ops[o] = IF o = op THEN result ELSE Run(p).ops[o]
  BY <1>1, <1>4 DEF Directory
<1>7. Become(p, s) /\ Store(p, e)
  BY <1>3, <1>4 DEF Step, Answer
<1>8. proc'[p] = s /\ OnlyNode(p, n, proc'[p]) /\ Run(p)' = e
  BY <1>1, <1>5, <1>7, Stored DEF OnlyPhase, OnlyNode, Run
<1>9. ASSUME Consistent(p) PROVE Consistent(p)'
  <2>1. \A o \in Operations : Run(p)'.ops[o] = "none" <=> Run(p).ops[o] = "none"
    BY <1>2, <1>3, <1>6, <1>8
  <2>2. /\ proc[p].phase[n] \notin {"inventory", "record"} /\ proc'[p].phase[n] \notin {"inventory", "record"}
        /\ proc'[p].known = proc[p].known /\ Run(p)'.inventory = Run(p).inventory
    BY <1>1, <1>5, <1>6, <1>8 DEF OnlyPhase
  <2>. QED BY <1>8, <1>9, <2>1, <2>2, ConsistentStays
<1>10. OnNode(p, n, s, e)
  BY <1>1, <1>2, <1>3, <1>5, <1>6 DEF OnNode, OnlyPhase
<1>. QED BY <1>1, <1>7, <1>9, <1>10, NodeAccounted

LEMMA AccountedSave ==
    ASSUME Typed, Locked, Accounted, NEW p \in Runners, NEW n \in Nodes, Save(p, n)
    PROVE  Accounted'
<1>1. /\ proc[p] \in Process /\ proc[p].phase[n] = "save" /\ Alive(p)
      /\ proc[p].run \in Runs /\ Run(p) \in Directory /\ ~AtRest(p) /\ proc[p].pc \in InsidePlaces
  BY BusyTyped, RunTyped DEF Save, AtRest, Alive
<1>2. PICK s : s = [proc[p] EXCEPT !.phase[n] = "waiting"]
  OBVIOUS
<1>3. OnlyPhase(p, n, s, "waiting") /\ s.granted = proc[p].granted /\ s.known = proc[p].known
  BY <1>1, <1>2 DEF OnlyPhase, OnlyNode, Process
<1>4. Become(p, s)
  BY <1>2 DEF Save, Step
<1>5. CASE UNCHANGED dir
  BY <1>1, <1>3, <1>4, <1>5, AsideAccounted DEF OnlyPhase
<1>6. CASE Store(p, [Run(p) EXCEPT !.done = @ \cup {n}])
  <2>1. PICK e : e = [Run(p) EXCEPT !.done = @ \cup {n}]
    OBVIOUS
  <2>2. /\ e.run = Run(p).run /\ e.status = Run(p).status /\ e.approved = Run(p).approved
        /\ e.done = Run(p).done \cup {n} /\ e.inventory = Run(p).inventory /\ e.ops = Run(p).ops
    BY <1>1, <2>1 DEF Directory
  <2>3. Store(p, e)
    BY <1>6, <2>1
  <2>4. proc'[p] = s /\ OnlyNode(p, n, proc'[p]) /\ Run(p)' = e
    BY <1>1, <1>3, <1>4, <2>3, Stored DEF OnlyPhase, OnlyNode, Run
  <2>5. ASSUME Consistent(p) PROVE Consistent(p)'
    <3>1. \A o \in Operations : Run(p)'.ops[o] = "none" <=> Run(p).ops[o] = "none"
      BY <2>2, <2>4
    <3>2. /\ proc[p].phase[n] \notin {"inventory", "record"} /\ proc'[p].phase[n] \notin {"inventory", "record"}
          /\ proc'[p].known = proc[p].known /\ Run(p)'.inventory = Run(p).inventory
      BY <1>1, <1>3, <2>2, <2>4 DEF OnlyPhase
    <3>. QED BY <2>4, <2>5, <3>1, <3>2, ConsistentStays
  <2>6. \E k \in 0..Attempts - 1 : e.ops[<<n, k>>] = "completed"
    <3>1. proc[p].attempt[n] < Attempts /\ Run(p).ops[Op(p, n)] = "completed"
      BY <1>1 DEF Accounted, Books
    <3>2. proc[p].attempt[n] \in 0..Attempts - 1
      <4>1. proc[p].attempt[n] \in 0..Attempts /\ Attempts \in Nat
        BY <1>1, WorkflowAssumption DEF Process
      <4>. QED BY <3>1, <4>1
    <3>. QED BY <2>2, <3>1, <3>2 DEF Op
  <2>7. OnNode(p, n, s, e)
    BY <1>1, <1>3, <2>2, <2>6 DEF OnNode, OnlyPhase
  <2>. QED BY <1>1, <1>4, <2>3, <2>5, <2>7, NodeAccounted
<1>. QED BY <1>5, <1>6 DEF Save

\* Steps that lead nowhere the books are kept, and change no more than locks and requests.
LEMMA AccountedElsewhere ==
    ASSUME Typed, Locked, Accounted, NEW p \in Runners, \A q \in Runners : q # p => proc'[q] = proc[q],
           \A r \in Runs : SameContents(dir'[r], dir[r]),
           proc'[p].pc \in {"idle", "bind", "lock", "open", "unlock", "unlink", "recover", "dead"},
           \A n \in Nodes : proc'[p].phase[n] # "save"
    PROVE  Accounted'
<1>1. OwnRun(p) /\ Stage(p)' /\ Books(p)'
  BY DEF OwnRun, Stage, Books
<1>2. proc[p].pc \in InsidePlaces => RunOK(dir'[proc[p].run])
  BY RunTyped, RunOKStays DEF InsidePlaces, Accounted
<1>. QED BY <1>1, <1>2, AccountedStep

LEMMA LockContents ==
    ASSUME Typed, NEW p \in Runners, proc[p].run \in Runs, NEW lock,
           Store(p, [Run(p) EXCEPT !.lock = lock]) \/ UNCHANGED dir
    PROVE  \A r \in Runs : SameContents(dir'[r], dir[r])
<1>1. CASE UNCHANGED dir
  BY <1>1 DEF SameContents
<1>2. CASE Store(p, [Run(p) EXCEPT !.lock = lock])
  <2>1. PICK e : e = [Run(p) EXCEPT !.lock = lock]
    OBVIOUS
  <2>2. SameContents(e, Run(p))
    BY <2>1 DEF Typed, TypeOK, Directory, Run, SameContents
  <2>3. dir'[proc[p].run] = e /\ \A r \in Runs : r # proc[p].run => dir'[r] = dir[r]
    BY <1>2, <2>1, StoreFrame
  <2>. QED BY <2>2, <2>3 DEF SameContents, Run
<1>. QED BY <1>1, <1>2

LEMMA AccountedStart ==
    ASSUME Typed, Locked, Clear, Accounted, NEW p \in Runners,
           \/ Bind(p) \/ Lock(p) \/ CompareToken(p) \/ Unlink(p) \/ RemoveLock(p) \/ Die(p)
           \/ \E r \in Runs : Execute(p, r) \/ Recover(p, r)
    PROVE  Accounted'
<1>1. \A q \in Runners : q # p => proc'[q] = proc[q]
  BY PhaseFrame, RestSteps DEF OwnJournal
<1>2. \A r \in Runs : SameContents(dir'[r], dir[r])
  <2>1. CASE Lock(p) \/ Unlink(p) \/ RemoveLock(p)
    <3>1. proc[p].run \in Runs
      BY <2>1, RunTyped DEF Lock, Unlink, RemoveLock, At
    <3>. QED BY <2>1, <3>1, LockContents DEF Lock, Unlink, RemoveLock
  <2>2. CASE ~(Lock(p) \/ Unlink(p) \/ RemoveLock(p))
    BY <2>2 DEF Bind, CompareToken, Die, Execute, Recover, SameContents
  <2>. QED BY <2>1, <2>2
<1>3. CASE Die(p) \/ \E r \in Runs : Execute(p, r) \/ Recover(p, r)
  BY <1>1, <1>2, <1>3, RestSteps, AccountedElsewhere
<1>4. CASE Bind(p) \/ Lock(p) \/ CompareToken(p) \/ Unlink(p) \/ RemoveLock(p)
  <2>1. proc[p] \in Process /\ proc[p].pc \in {"bind", "lock", "unlock", "unlink", "recover"}
    BY <1>4, GoodNow DEF Bind, Lock, CompareToken, Unlink, RemoveLock, At, Good
  <2>2. \A n \in Nodes : proc[p].phase[n] # "save"
    BY <2>1 DEF Typed, Placed, Alive
  <2>3. \A n \in Nodes : proc'[p].phase[n] # "save"
    BY <1>4, <2>2, PhaseFrame, RestedClear DEF AsBefore
  <2>4. \E s : Become(p, s) /\ s.pc \in {"idle", "lock", "open", "unlink"}
    <3>1. /\ \A place : [proc[p] EXCEPT !.pc = place].pc = place
          /\ \A fresh : [proc[p] EXCEPT !.pc = "lock", !.fresh = fresh].pc = "lock"
          /\ Rested.pc = "idle"
      BY <2>1 DEF Process, Rested
    <3>2. CASE Bind(p)
      BY <3>1, <3>2 DEF Bind, Goto
    <3>3. CASE Lock(p) \/ CompareToken(p) \/ Unlink(p) \/ RemoveLock(p)
      BY <3>1, <3>3 DEF Lock, CompareToken, Unlink, RemoveLock, Goto
    <3>. QED BY <1>4, <3>2, <3>3
  <2>5. proc'[p].pc \in {"idle", "lock", "open", "unlink"}
    BY <2>4, BecomeFrame
  <2>. QED BY <1>1, <1>2, <2>3, <2>5, AccountedElsewhere
<1>. QED BY <1>3, <1>4

LEMMA AccountedCancel ==
    ASSUME Typed, Accounted, (\E r \in Runs : RequestCancel(r)) \/ Lapse \/ UNCHANGED vars
    PROVE  Accounted'
<1>1. proc' = proc /\ \A s \in Runs : SameContents(dir'[s], dir[s])
  <2>1. CASE Lapse \/ UNCHANGED vars
    BY <2>1 DEF Lapse, vars, SameContents
  <2>2. ASSUME NEW r \in Runs, RequestCancel(r) PROVE \A s \in Runs : SameContents(dir'[s], dir[s])
    <3>1. PICK e : e = [dir[r] EXCEPT !.cancel = TRUE]
      OBVIOUS
    <3>2. SameContents(e, dir[r])
      BY <3>1 DEF Typed, TypeOK, Directory, SameContents
    <3>3. dir' = [dir EXCEPT ![r] = e]
      BY <2>2, <3>1 DEF RequestCancel
    <3>. QED BY <3>2, <3>3 DEF Typed, TypeOK, SameContents
  <2>3. proc' = proc
    BY DEF RequestCancel, Lapse, vars
  <2>. QED BY <2>1, <2>2, <2>3
<1>2. ASSUME NEW q \in Runners PROVE (Stage(q) /\ Books(q))'
  <2>1. proc[q].pc \in InsidePlaces => proc[q].run \in Runs
    BY RunTyped DEF InsidePlaces
  <2>. QED BY <1>1, <2>1, BooksStay
<1>3. ASSUME NEW s \in Runs PROVE RunOK(dir'[s])
  BY <1>1, RunOKStays DEF Accounted
<1>. QED BY <1>2, <1>3 DEF Accounted

LEMMA AccountedNext == Typed /\ Locked /\ Journaled /\ Clear /\ Accounted /\ [Next]_vars => Accounted'
<1>. SUFFICES ASSUME Typed, Locked, Journaled, Clear, Accounted, [Next]_vars PROVE Accounted'
  OBVIOUS
<1>1. ASSUME NEW p \in Runners, RunnerStep(p) PROVE Accounted'
  <2>1. ASSUME NodeStep(p) PROVE Accounted'
    BY <2>1, AccountedVisit, AccountedTry, AccountedInventory, AccountedRecord, AccountedConsider,
       AccountedSave DEF NodeStep
  <2>2. ASSUME ~NodeStep(p) PROVE Accounted'
    BY <1>1, <2>2, AccountedStart, AccountedOpen, AccountedJournal, AccountedDatabase, AccountedAdmit,
       AccountedGate, AccountedEnd, AccountedClosing DEF RunnerStep
  <2>. QED BY <2>1, <2>2
<1>2. ASSUME NEW p \in Runners, AdapterStep(p) PROVE Accounted'
  BY <1>2, AccountedVisit, AccountedAnswer DEF AdapterStep
<1>3. ASSUME NEW p \in Runners, Die(p) \/ \E r \in Runs : Execute(p, r) \/ Recover(p, r)
      PROVE  Accounted'
  BY <1>3, AccountedStart
<1>4. CASE (\E r \in Runs : RequestCancel(r)) \/ Lapse \/ UNCHANGED vars
  BY <1>4, AccountedCancel
<1>. QED BY <1>1, <1>2, <1>3, <1>4 DEF Next

LEMMA AccountedAlways ==
    ASSUME SoleRecoverer
    PROVE  Spec => [](Typed /\ Locked /\ Accounted)
<1>1. Init => Journaled /\ Clear
  BY DEF Init, Journaled, Clear, Committed, Alive, Early, Rested, Out
<1>2. Init => Accounted
  <2>. SUFFICES ASSUME Init PROVE Accounted
    OBVIOUS
  <2>1. ASSUME NEW p \in Runners PROVE Stage(p) /\ Books(p)
    BY DEF Init, Stage, Books, Rested
  <2>2. ASSUME NEW r \in Runs PROVE RunOK(dir[r])
    BY DEF Init, RunOK, NoRun, Finished
  <2>. QED BY <2>1, <2>2 DEF Accounted
<1>. QED BY LockedAlways, <1>1, <1>2, JournaledNext, ClearNext, AccountedNext, PTL DEF Spec

\* A run that is marked completed is complete: the engine stops when no node is left to visit, which in a
\* graph without loops means that all ended, each with a completed operation, each gate with an approval,
\* and the journal is by then exactly what the runner knows; as long as one operator recovers locks.
THEOREM CompletedIsCompleteHolds ==
    ASSUME SoleRecoverer
    PROVE  Spec => []CompletedIsComplete
<1>1. Accounted => CompletedIsComplete
  BY DEF Accounted, CompletedIsComplete, RunOK, Complete
<1>. QED BY AccountedAlways, <1>1, PTL

\* Which directory a runner writes into.
LEMMA Writes ==
    ASSUME Typed, NEW p \in Runners, RunnerStep(p) \/ AdapterStep(p)
    PROVE  dir' = dir \/ \A r \in Runs : r # proc[p].run => dir'[r] = dir[r]
<1>1. ASSUME NEW e, Store(p, e) PROVE \A r \in Runs : r # proc[p].run => dir'[r] = dir[r]
  BY <1>1 DEF Store, Typed, TypeOK
<1>2. CASE NodeStep(p) \/ AdapterStep(p)
  BY <1>1, <1>2 DEF NodeStep, AdapterStep, Visit, Try, WriteInventory, WriteRecord, CallAdapter, Consider,
     Save, AdapterThrows, Answer
<1>3. CASE \/ Bind(p) \/ Lock(p) \/ Open(p) \/ CreateInventory(p) \/ OpenDatabase(p) \/ Refuse(p)
           \/ AdmitNothing(p) \/ ReadJournal(p)
  BY <1>1, <1>3 DEF Bind, Lock, Open, CreateInventory, OpenDatabase, Refuse, AdmitNothing, ReadJournal, Block
<1>4. CASE \/ \E g \in Gates : VisitGate(p, g)
           \/ Abort(p) \/ GraphFails(p) \/ GraphEnds(p) \/ Retain(p) \/ Settle(p)
           \/ CompareToken(p) \/ Unlink(p) \/ RemoveLock(p)
  BY <1>1, <1>4 DEF VisitGate, Abort, GraphFails, GraphEnds, Retain, Settle, CompareToken, Unlink, RemoveLock
<1>5. CASE Admit(p)
  <2>1. \E e : Store(p, e)
    BY <1>5 DEF Admit
  <2>. QED BY <1>1, <2>1
<1>. QED BY <1>2, <1>3, <1>4, <1>5 DEF RunnerStep

\* What may still change of a finished run.
LEMMA LockAndCancel ==
    ASSUME NEW d \in Directory, NEW e,
           e = d \/ (\E lock : e = [d EXCEPT !.lock = lock]) \/ e = [d EXCEPT !.cancel = TRUE]
    PROVE  e = [d EXCEPT !.lock = e.lock, !.cancel = e.cancel]
<1>1. CASE e = d
  BY <1>1 DEF Directory
<1>2. ASSUME NEW lock, e = [d EXCEPT !.lock = lock] PROVE e = [d EXCEPT !.lock = e.lock, !.cancel = e.cancel]
  BY <1>2 DEF Directory
<1>3. CASE e = [d EXCEPT !.cancel = TRUE]
  BY <1>3 DEF Directory
<1>. QED BY <1>1, <1>2, <1>3

\* A finished run without a live runner stays as it is, but for its lock and a cancel request: whoever takes
\* it up again finds it finished before the journal; as long as one operator recovers locks.
THEOREM FinishedIsOverAlways ==
    ASSUME SoleRecoverer
    PROVE  Spec => FinishedIsOver
<1>. DEFINE Over == \A r \in Runs :
                       dir[r].status \in Finished /\ (\A p \in Runners : proc[p].run = r => ~Alive(p)) =>
                           /\ dir'[r] = [dir[r] EXCEPT !.lock = dir'[r].lock, !.cancel = dir'[r].cancel]
                           /\ calls'[r] = calls[r]
<1>1. Typed /\ Accounted /\ [Next]_vars => Over
  <2>. SUFFICES ASSUME Typed, Accounted, [Next]_vars, NEW r \in Runs, dir[r].status \in Finished,
                       \A p \in Runners : proc[p].run = r => ~Alive(p)
                PROVE  /\ dir'[r] = [dir[r] EXCEPT !.lock = dir'[r].lock, !.cancel = dir'[r].cancel]
                       /\ calls'[r] = calls[r]
    OBVIOUS
  <2>1. dir[r] \in Directory /\ RunOK(dir[r])
    BY DEF Typed, TypeOK, Accounted
  <2>2. calls'[r] = calls[r]
    <3>1. ASSUME NEW p \in Runners, NEW n \in Nodes, CallAdapter(p, n) PROVE calls'[r] = calls[r]
      <4>1. proc[p].run # r
        BY <3>1 DEF CallAdapter
      <4>. QED BY <3>1, <4>1 DEF CallAdapter, Typed, TypeOK
    <3>2. ASSUME NEW p \in Runners, RunnerStep(p) \/ AdapterStep(p) PROVE calls'[r] = calls[r]
      BY <3>1, <3>2 DEF RunnerStep, AdapterStep, NodeStep, Bind, Lock, Open, CreateInventory, ReadJournal,
         OpenDatabase, Refuse, Admit, AdmitNothing, VisitGate, Abort, GraphFails, GraphEnds, Retain, Settle,
         CompareToken, Unlink, RemoveLock, Visit, Try, WriteInventory, WriteRecord, Consider, Save,
         AdapterThrows, Answer
    <3>. QED BY <3>2 DEF Next, vars, Die, Execute, Recover, RequestCancel, Lapse
  <2>3. dir'[r] = dir[r] \/ (\E lock : dir'[r] = [dir[r] EXCEPT !.lock = lock])
        \/ dir'[r] = [dir[r] EXCEPT !.cancel = TRUE]
    <3>1. ASSUME NEW p \in Runners, RunnerStep(p) \/ AdapterStep(p), proc[p].run # r PROVE dir'[r] = dir[r]
      BY <3>1, Writes
    <3>2. ASSUME NEW p \in Runners, RunnerStep(p) \/ AdapterStep(p), proc[p].run = r
          PROVE  dir'[r] = dir[r] \/ \E lock : dir'[r] = [dir[r] EXCEPT !.lock = lock]
      <4>1. ~Alive(p) /\ Stage(p) /\ Run(p) = dir[r]
        BY <3>2 DEF Accounted, Run
      <4>2. proc[p].pc \notin {"inventory", "journal", "database", "admit", "graph", "closing", "retained"}
        BY <4>1 DEF Stage, Alive
      <4>3. \A n \in Nodes : ~AnyNodeStep(p, n)
        BY <4>1 DEF AnyNodeStep, Visit, Try, WriteInventory, WriteRecord, CallAdapter, Consider, Save,
           AdapterThrows, Answer, Alive, At
      <4>4. Bind(p) \/ Lock(p) \/ Open(p) \/ CompareToken(p) \/ Unlink(p) \/ RemoveLock(p)
        BY <3>2, <4>2, <4>3 DEF RunnerStep, AdapterStep, NodeStep, AnyNodeStep, CreateInventory, ReadJournal,
           OpenDatabase, Refuse, Admit, AdmitNothing, VisitGate, Abort, GraphFails, GraphEnds, Retain, Settle, At
      <4>5. CASE Open(p)
        <5>1. Run(p).run
          BY <2>1, <4>1 DEF RunOK
        <5>. QED BY <4>5, <5>1 DEF Open
      <4>6. CASE Lock(p) \/ Unlink(p) \/ RemoveLock(p)
        <5>1. dir' = dir \/ \E lock : Store(p, [dir[r] EXCEPT !.lock = lock])
          BY <4>1, <4>6 DEF Lock, Unlink, RemoveLock
        <5>. QED BY <3>2, <5>1 DEF Store, Typed, TypeOK
      <4>. QED BY <4>4, <4>5, <4>6 DEF Bind, CompareToken
    <3>3. ASSUME NEW s \in Runs, RequestCancel(s)
          PROVE  dir'[r] = dir[r] \/ dir'[r] = [dir[r] EXCEPT !.cancel = TRUE]
      BY <3>3 DEF RequestCancel, Typed, TypeOK
    <3>. QED BY <3>1, <3>2, <3>3 DEF Next, vars, Die, Execute, Recover, Lapse
  <2>4. PICK d, e : d = dir[r] /\ e = dir'[r]
    OBVIOUS
  <2>5. e = [d EXCEPT !.lock = e.lock, !.cancel = e.cancel]
    BY <2>1, <2>3, <2>4, LockAndCancel
  <2>. QED BY <2>2, <2>4, <2>5
<1>2. Typed /\ Accounted /\ [Next]_vars => [Over]_vars
  BY <1>1
<1>. QED BY AccountedAlways, <1>2, PTL DEF Spec, FinishedIsOver
=============================================================================
