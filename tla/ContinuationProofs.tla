-------------------------- MODULE ContinuationProofs --------------------------
(***************************************************************************)
(* Proofs about Continuation, for any runs, processes, task policies,      *)
(* contracts and bounds.                                                   *)
(*                                                                         *)
(* Two facts carry them.  Claims are numbered by the versions of the task, *)
(* and the history of the task keeps every operation: once the release of  *)
(* a continuation is in it, the claim of the source is older than the task *)
(* and stands never again.  And where recoveries do not overlap, whoever   *)
(* works in a run, or continues it, holds its lock, so what a process saw  *)
(* of a run stays so for as long as it is at work (Locked, Guided); all    *)
(* else that a run keeps is written once (Fixed).  That builders stay      *)
(* apart rests on the first fact alone (Typed), whoever recovers.          *)
(***************************************************************************)
EXTENDS Continuation, TaskLifecycleProofs

Entry == {"open", "completed", "interrupted"}
RunDir == [status : {"absent", "empty", "running", "blocked"} \cup Ended,
           lock : Procs \cup {None, Gone}, claim : Nat \cup {None}, journal : Seq(Entry),
           settlement : Seq(Entry) \cup {None}, successor : Intent \cup {None}]

Inside == {"open", "graph", "dispatch", "call", "settle", "unlock"}
Continuing == {"intent", "record", "release", "claim", "inspect", "load"}
Recovering == {"examine", "remove"}
Places == {"idle", "leave", "bind", "lock"} \cup Inside \cup Continuing \cup Recovering
Place == [at : Places, run : Runs \cup {None}, claim : Nat \cup {None},
          source : Runs \cup {None}, fresh : BOOLEAN]

\* The operations on the task so far, and how many there were.
Applied == OperationsOf(items[Job])
Version == items[Job].version

\* Recoveries come one after the other.
SoleRecoverer == \A p, q \in Recoverers : p = q

\* What a process has in hand.
Handy(p) ==
    LET at == proc[p].at
    IN  /\ at \in {"bind", "lock"} \cup Inside \cup Continuing \cup Recovering => proc[p].run \in Runs
        /\ at \in {"leave"} \cup Continuing => proc[p].source \in Runs
        /\ at \in {"bind", "lock", "open"} => proc[p].claim \in Nat

\* Which locks are its own, and what it knows while it holds them.
Locked(p) ==
    LET at == proc[p].at
        run == proc[p].run
        source == proc[p].source
    IN  /\ Handy(p)
        /\ at \in Inside => runs[run].lock = p
        /\ source # None => runs[source].lock = p /\ run # source
        /\ at \in {"bind", "lock", "open"} => proc[p].claim <= Version
        /\ at \in {"graph", "dispatch", "call"} => runs[run].claim = proc[p].claim
        /\ at \in {"dispatch", "call"} => <<run, 1>> \notin Applied
        /\ at \in Recovering => p \in Recoverers
        /\ at = "remove" => runs[run].lock = Gone

\* How far a continuation has come with its source.
Guided(p) ==
    LET at == proc[p].at
        source == proc[p].source
        d == runs[source]
    IN  /\ at = "record" => d.successor = None /\ d.claim # None
        /\ source # None =>
              /\ at \in {"release", "claim", "inspect", "load", "bind", "lock", "open"} =>
                    d.successor # None /\ d.successor.run = proc[p].run
              /\ at \in {"claim", "inspect", "load", "bind", "lock", "open"} =>
                    <<source, 1>> \in Applied
              /\ at \in {"load", "bind", "lock", "open"} =>
                    d.settlement # None /\ d.settlement = d.journal

\* What is on record of a run.
OnRecord(r) ==
    LET d == runs[r]
    IN  /\ d.claim # None => d.claim <= Version
        /\ d.successor # None => d.claim # None
        /\ d.settlement # None => Answered(d.settlement) /\ Interrupted(d.settlement)
        /\ <<r, 1>> \in Applied => d.successor # None /\ d.claim < Version

\* A run that was continued: its claim is given up, its receipt is about its journal.
Rests(s, r) ==
    LET d == runs[s]
    IN  /\ d.successor # None /\ d.successor.run = r
        /\ <<s, 1>> \in Applied
        /\ d.settlement # None /\ d.settlement = d.journal

Shaped == runs \in [Runs -> RunDir] /\ proc \in [Procs -> Place] /\ begun \subseteq Runs \X Runs

Orderly ==
    /\ Shaped
    /\ \A p \in Procs : Locked(p) /\ Guided(p)
    /\ \A r \in Runs : OnRecord(r)
    /\ \A s, r \in Runs : <<s, r>> \in begun => Rests(s, r)

\* The invariant, with what holds of the task's record, where recoveries do not overlap.
Continued == SoleRecoverer /\ IndInv /\ HistoryOK /\ Orderly

-----------------------------------------------------------------------------
(* What a step may do to the runs: nothing to one that somebody else has     *)
(* locked, and nothing a second time.                                        *)

Untouched(r) ==
    /\ runs'[r].lock = runs[r].lock /\ runs'[r].claim = runs[r].claim
    /\ runs'[r].journal = runs[r].journal /\ runs'[r].settlement = runs[r].settlement
    /\ runs'[r].successor = runs[r].successor

\* A lock that names nobody is there until it is recovered.
Free(r, p) == runs[r].lock \in {None, p} \/ (proc[p].at = "remove" /\ runs[r].lock = Gone)
Touches(p) == \A r \in Runs : Untouched(r) \/ Free(r, p)

Fixed(r) ==
    /\ runs[r].claim # None => runs'[r].claim = runs[r].claim
    /\ runs[r].successor # None => runs'[r].successor = runs[r].successor
    /\ runs[r].settlement # None => runs'[r].settlement = runs[r].settlement
    /\ <<r, 1>> \in Applied => runs'[r].journal = runs[r].journal

Grows == Applied \subseteq Applied' /\ Version <= Version'

\* No run is given up under a call.
CallsSpared(p) ==
    \A q \in Procs \ {p} : proc[q].at \in {"dispatch", "call"} /\ <<proc[q].run, 1>> \in Applied' =>
        <<proc[q].run, 1>> \in Applied

LEMMA VersionIsNat ==
    ASSUME IndInv PROVE Version \in Nat
BY ContinuationAssumption DEF IndInv, ItemsOK, Item, NoItem, Version

LEMMA OthersStay ==
    ASSUME SoleRecoverer, Orderly, Version \in Nat, Version' \in Nat, Grows, NEW p \in Procs,
           NEW q \in Procs \ {p}, proc'[q] = proc[q], Touches(p), CallsSpared(p)
    PROVE  Locked(q)' /\ Guided(q)'
<1>1. /\ Locked(q) /\ Guided(q) /\ proc[q] \in Place /\ Locked(p)
      /\ None \notin Runs /\ None \notin Procs /\ Gone \notin Procs
  BY ContinuationAssumption DEF Orderly, Shaped
<1>2. ASSUME NEW r \in Runs, runs[r].lock = q PROVE Untouched(r)
  <2>1. ~Free(r, p)
    BY <1>1, <1>2 DEF Free
  <2>. QED BY <2>1 DEF Touches
<1>3. proc[q].source # None => proc[q].source \in Runs /\ Untouched(proc[q].source)
  BY <1>1, <1>2 DEF Locked, Handy, Place
<1>4. proc[q].at \in Inside => proc[q].run \in Runs /\ Untouched(proc[q].run)
  BY <1>1, <1>2 DEF Locked, Handy
<1>5. Locked(q)'
  <2>1. ASSUME proc[q].at \in {"bind", "lock", "open"} PROVE proc[q].claim \in Nat /\ proc[q].claim <= Version'
    BY <1>1, <2>1 DEF Locked, Handy, Grows
  <2>2. ASSUME proc[q].at \in {"dispatch", "call"} PROVE <<proc[q].run, 1>> \notin Applied'
    BY <1>1, <2>2 DEF Locked, Handy, CallsSpared
  <2>3. proc[q].at \in {"graph", "dispatch", "call"} => runs'[proc[q].run].claim = proc[q].claim
    BY <1>1, <1>4 DEF Locked, Handy, Untouched, Inside
  <2>4. proc[q].at \in Inside => runs'[proc[q].run].lock = q
    BY <1>1, <1>4 DEF Locked, Handy, Untouched
  <2>5. proc[q].source # None => runs'[proc[q].source].lock = q
    BY <1>1, <1>3 DEF Locked, Handy, Untouched
  <2>6. ASSUME proc[q].at = "remove" PROVE runs'[proc[q].run].lock = Gone
    <3>1. proc[q].run \in Runs /\ runs[proc[q].run].lock = Gone /\ q \in Recoverers
      BY <1>1, <2>6 DEF Locked, Handy, Recovering
    <3>2. proc[p].at # "remove"
      BY <1>1, <3>1 DEF Locked, Recovering, SoleRecoverer
    <3>3. ~Free(proc[q].run, p)
      BY <1>1, <3>1, <3>2, ContinuationAssumption DEF Free
    <3>. QED BY <3>1, <3>3 DEF Touches, Untouched
  <2>7. Handy(q)'
    BY <1>1 DEF Locked, Handy
  <2>. QED BY <1>1, <2>1, <2>2, <2>3, <2>4, <2>5, <2>6, <2>7 DEF Locked
<1>6. Guided(q)'
  <2>1. proc[q].at = "record" => proc[q].source # None
    BY <1>1 DEF Locked, Handy, Continuing, Recovering
  <2>. QED BY <1>1, <1>3, <2>1 DEF Guided, Untouched, Grows
<1>. QED BY <1>5, <1>6

\* A step of one process.
LEMMA Advance ==
    ASSUME SoleRecoverer, Orderly, Version \in Nat, Version' \in Nat, Grows, NEW p \in Procs,
           Shaped', \A q \in Procs \ {p} : proc'[q] = proc[q],
           Touches(p), CallsSpared(p), Locked(p)', Guided(p)',
           \A r \in Runs : Fixed(r) /\ OnRecord(r)',
           \A s, r \in Runs : <<s, r>> \in begun' \ begun => Rests(s, r)'
    PROVE  Orderly'
<1>1. \A q \in Procs : (Locked(q) /\ Guided(q))'
  BY OthersStay
<1>2. ASSUME NEW s \in Runs, NEW r \in Runs, <<s, r>> \in begun' PROVE Rests(s, r)'
  <2>1. CASE <<s, r>> \in begun
    <3>1. Rests(s, r) /\ Fixed(s)
      BY <2>1 DEF Orderly
    <3>. QED BY <3>1 DEF Rests, Fixed, Grows
  <2>. QED BY <1>2, <2>1
<1>. QED BY <1>1, <1>2 DEF Orderly

\* Every change of a run is one that Fixed allows.
Steady == \A r \in Runs : Fixed(r)

\* One process moves, and no other.
Moved(p) == proc' \in [Procs -> Place] /\ \A q \in Procs \ {p} : proc'[q] = proc[q]

\* Runs that begin as continuations rest.
BegunRest ==
    /\ begun' \subseteq Runs \X Runs
    /\ \A s, r \in Runs : <<s, r>> \in begun' \ begun => Rests(s, r)'

\* A step of a process that leaves the records of the tasks alone ...
LEMMA StepInRun ==
    ASSUME Continued, items' = items, NEW p \in Procs, Moved(p), Locked(p)', Guided(p)', BegunRest,
           NEW r \in Runs, NEW d \in RunDir, Store(r, d),
           Untouched(r) \/ Free(r, p), Fixed(r), OnRecord(r)'
    PROVE  Orderly' /\ Steady
<1>1. Version \in Nat /\ Version' = Version /\ Applied' = Applied
  BY VersionIsNat DEF Continued, Version, Applied
<1>2. runs \in [Runs -> RunDir] /\ runs'[r] = d /\ \A s \in Runs \ {r} : runs'[s] = runs[s]
  BY DEF Continued, Orderly, Shaped, Store
<1>3. Shaped'
  BY <1>2 DEF Shaped, Store, Moved, BegunRest
<1>4. ASSUME NEW s \in Runs \ {r} PROVE Fixed(s) /\ OnRecord(s)' /\ Untouched(s)
  BY <1>1, <1>2 DEF Continued, Orderly, Fixed, OnRecord, Untouched
<1>5. Touches(p)
  BY <1>4 DEF Touches
<1>6. Grows /\ CallsSpared(p)
  BY <1>1 DEF Grows, CallsSpared
<1>7. \A s \in Runs : Fixed(s) /\ OnRecord(s)'
  BY <1>4
<1>8. Orderly'
  BY <1>1, <1>3, <1>5, <1>6, <1>7, Advance DEF Moved, BegunRest, Continued
<1>. QED BY <1>7, <1>8 DEF Steady

\* ... and one that leaves the runs alone as well.
LEMMA StepAlone ==
    ASSUME Continued, items' = items, NEW p \in Procs, Moved(p), Locked(p)', Guided(p)',
           UNCHANGED <<runs, begun>>
    PROVE  Orderly' /\ Steady
<1>1. Version \in Nat /\ Version' = Version /\ Applied' = Applied
  BY VersionIsNat DEF Continued, Version, Applied
<1>2. \A s \in Runs : Fixed(s) /\ OnRecord(s)' /\ Untouched(s)
  BY <1>1 DEF Continued, Orderly, Fixed, OnRecord, Untouched
<1>3. Shaped' /\ Touches(p) /\ Grows /\ CallsSpared(p)
  BY <1>1, <1>2 DEF Continued, Orderly, Shaped, Moved, Touches, Grows, CallsSpared
<1>4. Orderly'
  BY <1>1, <1>2, <1>3, Advance DEF Moved, Continued
<1>. QED BY <1>2, <1>4 DEF Steady

-----------------------------------------------------------------------------
(* The places of a process.                                                  *)

\* What the invariant says of one process and its runs.
LEMMA Here ==
    ASSUME Continued, NEW p \in Procs
    PROVE  /\ Locked(p) /\ Guided(p) /\ proc[p] \in Place
           /\ \A r \in Runs : runs[r] \in RunDir /\ OnRecord(r)
           /\ None \notin Runs /\ None \notin Procs /\ Gone \notin Procs
           /\ None \notin Nat /\ None \notin Intent
BY ContinuationAssumption DEF Continued, Orderly, Shaped

LEMMA Becomes ==
    ASSUME Continued, NEW p \in Procs, NEW state \in Place, Become(p, state)
    PROVE  Moved(p) /\ proc'[p] = state
BY DEF Continued, Orderly, Shaped, Moved, Become

LEMMA Goes ==
    ASSUME Continued, NEW p \in Procs, NEW place \in Places, Goto(p, place)
    PROVE  /\ Moved(p) /\ proc'[p].at = place /\ proc'[p].run = proc[p].run
           /\ proc'[p].claim = proc[p].claim /\ proc'[p].source = proc[p].source
<1>1. PICK state : state = [proc[p] EXCEPT !.at = place]
  OBVIOUS
<1>2. proc[p] \in Place
  BY Here
<1>3. /\ state \in Place /\ state.at = place /\ state.run = proc[p].run
      /\ state.claim = proc[p].claim /\ state.source = proc[p].source
  BY <1>1, <1>2 DEF Place
<1>. QED BY <1>1, <1>3, Becomes DEF Goto

LEMMA OpensTo ==
    ASSUME Continued, NEW p \in Procs, NEW place \in Places, Opened(p, place)
    PROVE  /\ Moved(p) /\ proc'[p].at = place /\ proc'[p].run = proc[p].run
           /\ proc'[p].claim = proc[p].claim /\ proc'[p].source = proc[p].source
<1>1. PICK state : state = [proc[p] EXCEPT !.at = place, !.fresh = FALSE]
  OBVIOUS
<1>2. proc[p] \in Place
  BY Here
<1>3. /\ state \in Place /\ state.at = place /\ state.run = proc[p].run
      /\ state.claim = proc[p].claim /\ state.source = proc[p].source
  BY <1>1, <1>2 DEF Place
<1>. QED BY <1>1, <1>3, Becomes DEF Opened

\* Whoever leaves holds nothing but the lock of its source.
LEMMA Leaves ==
    ASSUME Continued, NEW p \in Procs, Leave(p),
           proc[p].source # None => runs'[proc[p].source].lock = runs[proc[p].source].lock
    PROVE  Moved(p) /\ Locked(p)' /\ Guided(p)'
<1>1. Locked(p) /\ proc[p] \in Place /\ None \notin Runs
  BY Here
<1>2. CASE proc[p].source = None
  <2>1. Become(p, Idle) /\ Idle \in Place
    BY <1>2 DEF Leave, Idle, Place, Places
  <2>2. Moved(p) /\ proc'[p] = Idle
    BY <2>1, Becomes
  <2>. QED BY <2>2 DEF Idle, Locked, Handy, Guided, Inside, Continuing, Recovering
<1>3. CASE proc[p].source # None
  <2>1. PICK state : state = [Idle EXCEPT !.at = "leave", !.source = proc[p].source]
    OBVIOUS
  <2>2. /\ state \in Place /\ state.at = "leave" /\ state.source = proc[p].source
        /\ state.run = None
    BY <1>1, <2>1 DEF Idle, Place, Places
  <2>3. Moved(p) /\ proc'[p] = state
    BY <1>3, <2>1, <2>2, Becomes DEF Leave
  <2>4. runs'[proc[p].source].lock = p /\ proc[p].source \in Runs
    BY <1>1, <1>3 DEF Locked, Handy, Place
  <2>. QED BY <1>1, <2>2, <2>3, <2>4 DEF Locked, Handy, Guided, Inside, Continuing, Recovering
<1>. QED BY <1>2, <1>3

\* A claim that stands is the latest version of its task: nothing happened since.
LEMMA StandingIsLast ==
    ASSUME Continued, NEW c, Standing(c)
    PROVE  c = Version
BY ContinuationAssumption DEF Continued, HistoryOK, Trail, Standing, Version

-----------------------------------------------------------------------------
(* executeWorkflow                                                           *)

LEMMA ExecuteKeeps ==
    ASSUME Continued, NEW p \in Procs, NEW r \in Runs, NEW c \in 1 .. Version, Execute(p, r, c)
    PROVE  Orderly' /\ Steady
<1>1. PICK state : state = [Idle EXCEPT !.at = "bind", !.run = r, !.claim = c]
  OBVIOUS
<1>2. c \in Nat /\ c <= Version /\ Version \in Nat
  BY VersionIsNat DEF Continued
<1>3. /\ state \in Place /\ state.at = "bind" /\ state.run = r /\ state.claim = c
      /\ state.source = None
  BY <1>1, <1>2 DEF Idle, Place, Places
<1>4. Moved(p) /\ proc'[p] = state
  BY <1>1, <1>3, Becomes DEF Execute
<1>5. items' = items /\ UNCHANGED <<runs, begun>>
  BY DEF Execute, Unmoved, vars, lifecycleVars
<1>6. Locked(p)' /\ Guided(p)'
  BY <1>2, <1>3, <1>4, <1>5 DEF Locked, Handy, Guided, Inside, Continuing, Recovering, Version
<1>. QED BY <1>4, <1>5, <1>6, StepAlone

LEMMA BindKeeps ==
    ASSUME Continued, NEW p \in Procs, Bind(p)
    PROVE  Orderly' /\ Steady
<1>0. PICK r : r = proc[p].run
  OBVIOUS
<1>1. /\ Locked(p) /\ Guided(p) /\ proc[p] \in Place /\ proc[p].at = "bind" /\ r \in Runs
      /\ runs[r] \in RunDir /\ OnRecord(r) /\ None \notin Runs
  BY <1>0, Here DEF Bind, Locked, Handy
<1>2. PICK d : d = [runs[r] EXCEPT !.status = IF @ = "absent" THEN "empty" ELSE @]
  OBVIOUS
<1>3. /\ d \in RunDir /\ d.lock = runs[r].lock /\ d.claim = runs[r].claim
      /\ d.journal = runs[r].journal /\ d.settlement = runs[r].settlement
      /\ d.successor = runs[r].successor
  BY <1>1, <1>2 DEF RunDir
<1>4. runs' = [runs EXCEPT ![r] = d]
  BY <1>0, <1>1, <1>2 DEF Bind, Continued, Orderly, Shaped
<1>5. runs'[r] = d /\ \A s \in Runs \ {r} : runs'[s] = runs[s]
  BY <1>1, <1>4 DEF Continued, Orderly, Shaped
<1>6. items' = items /\ begun' = begun
  BY DEF Bind, vars, lifecycleVars
<1>7. Untouched(r) /\ Fixed(r) /\ OnRecord(r)'
  BY <1>1, <1>3, <1>5, <1>6 DEF Untouched, Fixed, OnRecord, Applied, Version
<1>8. proc[p].source # None => proc[p].source \in Runs \ {r} /\ runs'[proc[p].source] = runs[proc[p].source]
  BY <1>0, <1>1, <1>5 DEF Locked, Handy, Place
<1>9. Moved(p) /\ Locked(p)' /\ Guided(p)'
  <2>1. CASE Leave(p)
    BY <1>8, <2>1, Leaves
  <2>2. CASE ~Leave(p)
    <3>1. PICK state : state = [proc[p] EXCEPT !.at = "lock", !.fresh = (binding[proc[p].claim] = None)]
      OBVIOUS
    <3>2. /\ state \in Place /\ state.at = "lock" /\ state.run = r
          /\ state.claim = proc[p].claim /\ state.source = proc[p].source
      BY <1>0, <1>1, <3>1 DEF Place, Places
    <3>3. Moved(p) /\ proc'[p] = state
      BY <2>2, <3>1, <3>2, Becomes DEF Bind
    <3>4. Locked(p)'
      BY <1>0, <1>1, <1>6, <1>8, <3>2, <3>3 DEF Locked, Handy, Inside, Continuing, Recovering, Version
    <3>5. Guided(p)'
      BY <1>0, <1>1, <1>6, <1>8, <3>2, <3>3 DEF Guided, Applied
    <3>. QED BY <3>3, <3>4, <3>5
  <2>. QED BY <2>1, <2>2
<1>10. BegunRest
  BY <1>6 DEF BegunRest, Continued, Orderly, Shaped
<1>. QED BY <1>1, <1>3, <1>4, <1>6, <1>7, <1>9, <1>10, StepInRun DEF Store

\* What a step at work in a run needs: its lock, and that the source is another run.
LEMMA AtWork ==
    ASSUME Continued, NEW p \in Procs, proc[p].at \in Inside \cup {"lock"}
    PROVE  /\ proc[p].run \in Runs /\ runs[proc[p].run] \in RunDir /\ OnRecord(proc[p].run)
           /\ proc[p].at \in Inside => runs[proc[p].run].lock = p
           /\ proc[p].source # None => proc[p].source \in Runs /\ proc[p].source # proc[p].run
                                       /\ runs[proc[p].source].lock = p
BY Here DEF Locked, Handy, Place

\* A step at work that stores the contents d in the run, and goes on at another place.
LEMMA WorkKeeps ==
    ASSUME Continued, NEW p \in Procs, proc[p].at \in Inside \cup {"lock"},
           NEW r, r = proc[p].run, proc[p].at = "lock" => runs[r].lock = None,
           NEW d \in RunDir, Store(r, d), items' = items, begun' = begun,
           Moved(p), Locked(p)', Guided(p)', Fixed(r), OnRecord(r)'
    PROVE  Orderly' /\ Steady
<1>1. r \in Runs /\ Free(r, p)
  BY AtWork, Here DEF Free
<1>2. BegunRest
  BY DEF BegunRest, Continued, Orderly, Shaped
<1>. QED BY <1>1, <1>2, StepInRun

\* The source of a process at work in a run is as it was.
LEMMA SourceStays ==
    ASSUME Continued, NEW p \in Procs, proc[p].at \in Inside \cup {"lock"},
           NEW r, r = proc[p].run, NEW d, Store(r, d)
    PROVE  /\ runs'[r] = d
           /\ proc[p].source # None => runs'[proc[p].source] = runs[proc[p].source]
BY AtWork DEF Store, Continued, Orderly, Shaped

LEMMA LockRunKeeps ==
    ASSUME Continued, NEW p \in Procs, LockRun(p)
    PROVE  Orderly' /\ Steady
<1>0. PICK r : r = proc[p].run
  OBVIOUS
<1>1. /\ Locked(p) /\ Guided(p) /\ proc[p] \in Place /\ proc[p].at = "lock"
      /\ r \in Runs /\ runs[r] \in RunDir /\ OnRecord(r)
  BY <1>0, Here DEF LockRun, Locked, Handy
<1>2. items' = items /\ begun' = begun
  BY DEF LockRun, Unmoved, vars, lifecycleVars
<1>3. CASE runs[r].lock = None
  <2>1. PICK d : d = [runs[r] EXCEPT !.lock = p]
    OBVIOUS
  <2>2. /\ d \in RunDir /\ d.lock = p /\ d.claim = runs[r].claim
        /\ d.journal = runs[r].journal /\ d.settlement = runs[r].settlement
        /\ d.successor = runs[r].successor
    BY <1>1, <2>1 DEF RunDir
  <2>3. Store(r, d) /\ Goto(p, "open")
    BY <1>0, <1>3, <2>1 DEF LockRun, Run
  <2>4. runs'[r] = d /\ (proc[p].source # None => runs'[proc[p].source] = runs[proc[p].source])
    BY <1>0, <1>1, <2>3, SourceStays
  <2>5. /\ Moved(p) /\ proc'[p].at = "open" /\ proc'[p].run = r
        /\ proc'[p].claim = proc[p].claim /\ proc'[p].source = proc[p].source
    BY <1>0, <2>3, Goes DEF Places, Inside
  <2>6. Locked(p)'
    BY <1>0, <1>1, <1>2, <2>2, <2>4, <2>5 DEF Locked, Handy, Inside, Continuing, Recovering, Version
  <2>7. Guided(p)'
    BY <1>0, <1>1, <1>2, <2>4, <2>5 DEF Guided, Applied
  <2>8. Fixed(r) /\ OnRecord(r)'
    BY <1>1, <1>2, <2>2, <2>4 DEF Fixed, OnRecord, Applied, Version
  <2>. QED BY <1>0, <1>1, <1>2, <1>3, <2>2, <2>3, <2>5, <2>6, <2>7, <2>8, WorkKeeps
<1>4. CASE runs[r].lock # None
  <2>1. UNCHANGED <<runs, begun>> /\ Leave(p)
    BY <1>0, <1>2, <1>4 DEF LockRun, Run
  <2>. QED BY <1>2, <2>1, Leaves, StepAlone
<1>. QED BY <1>3, <1>4

LEMMA SameBegun ==
    ASSUME Continued, begun' = begun PROVE BegunRest
BY DEF BegunRest, Continued, Orderly, Shaped

\* A step at work that keeps the lock: what it stores, and where it goes on.
LEMMA WorksOn ==
    ASSUME Continued, NEW p \in Procs, proc[p].at \in Inside, NEW r, r = proc[p].run,
           NEW d \in RunDir, Store(r, d), items' = items, BegunRest,
           NEW place \in Inside \ {"open", "dispatch"}, Moved(p), proc'[p].at = place, proc'[p].run = r,
           proc'[p].claim = proc[p].claim, proc'[p].source = proc[p].source,
           d.lock = p, place \in {"graph", "call"} => d.claim = proc[p].claim,
           place = "call" => <<r, 1>> \notin Applied,
           Fixed(r), OnRecord(r)'
    PROVE  Orderly' /\ Steady
<1>1. /\ Locked(p) /\ proc[p] \in Place /\ r \in Runs /\ runs[r].lock = p
      /\ None \notin Runs
  BY Here, AtWork
<1>2. runs'[r] = d /\ (proc[p].source # None => runs'[proc[p].source] = runs[proc[p].source])
  BY SourceStays
<1>3. Applied' = Applied
  BY DEF Applied
<1>4. Locked(p)'
  BY <1>1, <1>2, <1>3 DEF Locked, Handy, Inside, Continuing, Recovering
<1>5. Guided(p)'
  BY DEF Guided, Inside
<1>6. Free(r, p)
  BY <1>1 DEF Free
<1>. QED BY <1>1, <1>4, <1>5, <1>6, StepInRun

LEMMA OpenKeeps ==
    ASSUME Continued, NEW p \in Procs, Open(p)
    PROVE  Orderly' /\ Steady
<1>0. PICK r : r = proc[p].run
  OBVIOUS
<1>1. /\ Locked(p) /\ Guided(p) /\ proc[p] \in Place /\ proc[p].at = "open" /\ None \notin Nat
      /\ r \in Runs /\ runs[r] \in RunDir /\ OnRecord(r) /\ runs[r].lock = p
      /\ proc[p].source # None => proc[p].source \in Runs
      /\ proc[p].claim \in Nat /\ proc[p].claim <= Version
  BY <1>0, Here DEF Open, Locked, Handy, Inside, Place
<1>2. items' = items /\ Version' = Version /\ Applied' = Applied
  BY DEF Open, vars, lifecycleVars, Version, Applied
<1>3. {"graph", "settle", "unlock"} \subseteq Inside \ {"open", "dispatch"} /\ Inside \subseteq Places
  BY DEF Inside, Places
<1>4. CASE /\ runs[r].claim = None
           /\ Store(r, [runs[r] EXCEPT !.claim = proc[p].claim, !.status = "running"])
           /\ Opened(p, "graph")
           /\ begun' = IF proc[p].source = None THEN begun
                       ELSE begun \cup {<<proc[p].source, r>>}
  <2>1. PICK d : d = [runs[r] EXCEPT !.claim = proc[p].claim, !.status = "running"]
    OBVIOUS
  <2>2. /\ d \in RunDir /\ d.lock = p /\ d.claim = proc[p].claim
        /\ d.journal = runs[r].journal /\ d.settlement = runs[r].settlement
        /\ d.successor = runs[r].successor
    BY <1>1, <2>1 DEF RunDir
  <2>3. /\ Moved(p) /\ proc'[p].at = "graph" /\ proc'[p].run = r
        /\ proc'[p].claim = proc[p].claim /\ proc'[p].source = proc[p].source
    BY <1>0, <1>3, <1>4, OpensTo
  <2>4. /\ runs'[r] = d
        /\ proc[p].source # None => runs'[proc[p].source] = runs[proc[p].source]
    BY <1>0, <1>1, <1>4, <2>1, SourceStays DEF Inside
  <2>5. BegunRest
    <3>1. CASE proc[p].source = None
      BY <1>4, <3>1, SameBegun
    <3>2. CASE proc[p].source # None
      <4>1. begun' \subseteq Runs \X Runs
        BY <1>1, <1>4, <3>2 DEF Continued, Orderly, Shaped
      <4>2. Rests(proc[p].source, r)
        BY <1>0, <1>1, <3>2 DEF Rests, Guided
      <4>3. ASSUME NEW s \in Runs, s = proc[p].source PROVE Rests(s, r)'
        BY <1>2, <2>4, <3>2, <4>2, <4>3 DEF Rests
      <4>4. \A s, x \in Runs : <<s, x>> \in begun' \ begun => s = proc[p].source /\ x = r
        BY <1>4, <3>2
      <4>. QED BY <4>1, <4>3, <4>4 DEF BegunRest
    <3>. QED BY <3>1, <3>2
  <2>6. Fixed(r) /\ OnRecord(r)'
    BY <1>1, <1>2, <1>4, <2>2, <2>4 DEF Fixed, OnRecord
  <2>7. Store(r, d)
    BY <1>4, <2>1
  <2>. QED BY <1>0, <1>1, <1>2, <1>3, <2>2, <2>3, <2>5, <2>6, <2>7, WorksOn DEF Inside
<1>5. ASSUME NEW status \in {"running", "blocked"}, NEW place \in {"graph", "settle"},
             runs[r].claim = proc[p].claim,
             Store(r, [runs[r] EXCEPT !.status = status]), Opened(p, place), begun' = begun
      PROVE  Orderly' /\ Steady
  <2>1. PICK d : d = [runs[r] EXCEPT !.status = status]
    OBVIOUS
  <2>2. /\ d \in RunDir /\ d.lock = p /\ d.claim = runs[r].claim
        /\ d.journal = runs[r].journal /\ d.settlement = runs[r].settlement
        /\ d.successor = runs[r].successor
    BY <1>1, <2>1 DEF RunDir
  <2>3. /\ Moved(p) /\ proc'[p].at = place /\ proc'[p].run = r
        /\ proc'[p].claim = proc[p].claim /\ proc'[p].source = proc[p].source
    BY <1>0, <1>3, <1>5, OpensTo
  <2>4. Store(r, d)
    BY <1>5, <2>1
  <2>5. runs'[r] = d
    BY <1>0, <1>1, <2>4, SourceStays DEF Inside
  <2>6. Fixed(r) /\ OnRecord(r)'
    BY <1>1, <1>2, <2>2, <2>5 DEF Fixed, OnRecord
  <2>7. BegunRest
    BY <1>5, SameBegun
  <2>. QED BY <1>0, <1>1, <1>2, <1>3, <1>5, <2>2, <2>3, <2>4, <2>6, <2>7, WorksOn DEF Inside
<1>6. CASE Opened(p, "unlock") /\ UNCHANGED <<runs, begun>>
  <2>1. /\ Moved(p) /\ proc'[p].at = "unlock" /\ proc'[p].run = r
        /\ proc'[p].claim = proc[p].claim /\ proc'[p].source = proc[p].source
    BY <1>0, <1>3, <1>6, OpensTo
  <2>2. Locked(p)'
    BY <1>0, <1>1, <1>6, <2>1 DEF Locked, Handy, Inside, Continuing, Recovering
  <2>3. Guided(p)'
    BY <2>1 DEF Guided
  <2>. QED BY <1>2, <1>6, <2>1, <2>2, <2>3, StepAlone
<1>. QED BY <1>0, <1>4, <1>5, <1>6 DEF Open, Run

\* The context a dispatch has checked is that of the latest version, so nobody gave it up.
LEMMA DispatchKeeps ==
    ASSUME Continued, NEW p \in Procs, Dispatch(p)
    PROVE  Orderly' /\ Steady
<1>0. PICK r : r = proc[p].run
  OBVIOUS
<1>1. /\ Locked(p) /\ proc[p].at = "graph" /\ r \in Runs /\ runs[r] \in RunDir /\ OnRecord(r)
      /\ runs[r].lock = p /\ runs[r].claim = proc[p].claim
  BY <1>0, Here DEF Dispatch, Locked, Handy, Inside
<1>2. items' = items /\ UNCHANGED <<runs, begun>> /\ Applied' = Applied
  BY DEF Dispatch, Unmoved, vars, lifecycleVars, Applied
<1>3. <<r, 1>> \notin Applied
  <2>1. proc[p].claim = Version
    BY StandingIsLast DEF Dispatch
  <2>. QED BY <1>1, <2>1, VersionIsNat DEF OnRecord, Continued
<1>4. /\ Moved(p) /\ proc'[p].at = "dispatch" /\ proc'[p].run = r
      /\ proc'[p].claim = proc[p].claim /\ proc'[p].source = proc[p].source
  BY <1>0, Goes DEF Dispatch, Places, Inside
<1>5. Locked(p)'
  BY <1>0, <1>1, <1>2, <1>3, <1>4 DEF Locked, Handy, Inside, Continuing, Recovering
<1>6. Guided(p)'
  BY <1>4 DEF Guided
<1>. QED BY <1>2, <1>4, <1>5, <1>6, StepAlone

LEMMA RecordDispatchKeeps ==
    ASSUME Continued, NEW p \in Procs, RecordDispatch(p)
    PROVE  Orderly' /\ Steady
<1>0. PICK r : r = proc[p].run
  OBVIOUS
<1>1. /\ Locked(p) /\ proc[p].at = "dispatch" /\ r \in Runs /\ runs[r] \in RunDir /\ OnRecord(r)
      /\ runs[r].lock = p /\ runs[r].claim = proc[p].claim
  BY <1>0, Here DEF RecordDispatch, Locked, Handy, Inside
<1>2. items' = items /\ begun' = begun /\ Version' = Version /\ Applied' = Applied
  BY DEF RecordDispatch, Unmoved, vars, lifecycleVars, Version, Applied
<1>3. <<r, 1>> \notin Applied
  BY <1>0, <1>1 DEF Locked
<1>4. PICK d : d = [runs[r] EXCEPT !.journal = Append(@, "open")]
  OBVIOUS
<1>5. /\ d \in RunDir /\ d.lock = p /\ d.claim = runs[r].claim
      /\ d.settlement = runs[r].settlement /\ d.successor = runs[r].successor
  <2>1. Append(runs[r].journal, "open") \in Seq(Entry)
    BY <1>1 DEF RunDir, Entry
  <2>. QED BY <1>1, <1>4, <2>1 DEF RunDir
<1>6. Store(r, d) /\ Goto(p, "call")
  BY <1>0, <1>4 DEF RecordDispatch, Run
<1>7. /\ Moved(p) /\ proc'[p].at = "call" /\ proc'[p].run = r
      /\ proc'[p].claim = proc[p].claim /\ proc'[p].source = proc[p].source
  BY <1>0, <1>6, Goes DEF Places, Inside
<1>8. runs'[r] = d
  <2>1. proc[p].at \in Inside
    BY <1>1 DEF Inside
  <2>2. Store(r, d)
    BY <1>6
  <2>. QED BY <1>0, <2>1, <2>2, SourceStays
<1>9. Fixed(r) /\ OnRecord(r)'
  BY <1>1, <1>2, <1>3, <1>5, <1>8 DEF Fixed, OnRecord
<1>. QED BY <1>0, <1>1, <1>2, <1>3, <1>5, <1>6, <1>7, <1>9, SameBegun, WorksOn DEF Inside

LEMMA AnswerKeeps ==
    ASSUME Continued, NEW p \in Procs, NEW answer \in {"completed", "interrupted"}, Answer(p, answer)
    PROVE  Orderly' /\ Steady
<1>0. PICK r : r = proc[p].run
  OBVIOUS
<1>1. /\ Locked(p) /\ proc[p].at = "call" /\ r \in Runs /\ runs[r] \in RunDir /\ OnRecord(r)
      /\ runs[r].lock = p /\ runs[r].claim = proc[p].claim /\ <<r, 1>> \notin Applied
  BY <1>0, Here DEF Answer, Locked, Handy, Inside
<1>2. items' = items /\ begun' = begun /\ Version' = Version /\ Applied' = Applied
  BY DEF Answer, Unmoved, vars, lifecycleVars, Version, Applied
<1>3. PICK d : d = [runs[r] EXCEPT !.journal[Len(runs[r].journal)] = answer]
  OBVIOUS
<1>4. /\ d \in RunDir /\ d.lock = p /\ d.claim = runs[r].claim
      /\ d.settlement = runs[r].settlement /\ d.successor = runs[r].successor
  <2>1. PICK n \in Nat : runs[r].journal \in [1 .. n -> Entry]
    BY <1>1 DEF RunDir
  <2>2. PICK journal : journal = [runs[r].journal EXCEPT ![Len(runs[r].journal)] = answer]
    OBVIOUS
  <2>3. journal \in [1 .. n -> Entry]
    BY <2>1, <2>2 DEF Entry
  <2>4. journal \in Seq(Entry)
    BY <2>3
  <2>5. d = [runs[r] EXCEPT !.journal = journal]
    BY <1>3, <2>2
  <2>. QED BY <1>1, <2>4, <2>5 DEF RunDir
<1>5. Store(r, d) /\ Goto(p, "graph")
  BY <1>0, <1>3 DEF Answer, Run
<1>6. /\ Moved(p) /\ proc'[p].at = "graph" /\ proc'[p].run = r
      /\ proc'[p].claim = proc[p].claim /\ proc'[p].source = proc[p].source
  <2>1. "graph" \in Places
    BY DEF Places, Inside
  <2>. QED BY <1>0, <1>5, <2>1, Goes
<1>7. runs'[r] = d
  <2>1. proc[p].at \in Inside
    BY <1>1 DEF Inside
  <2>2. Store(r, d)
    BY <1>5
  <2>. QED BY <1>0, <2>1, <2>2, SourceStays
<1>8. Fixed(r) /\ OnRecord(r)'
  BY <1>1, <1>2, <1>4, <1>7 DEF Fixed, OnRecord
<1>. QED BY <1>0, <1>1, <1>2, <1>4, <1>5, <1>6, <1>8, SameBegun, WorksOn DEF Inside

\* A run that is closed: its status, and a receipt for a journal that is answered.
LEMMA CloseRunKeeps ==
    ASSUME Continued, NEW p \in Procs, Stop(p) \/ Complete(p)
    PROVE  Orderly' /\ Steady
<1>0. PICK r : r = proc[p].run
  OBVIOUS
<1>1. /\ Locked(p) /\ proc[p].at \in {"graph", "dispatch", "call"} /\ r \in Runs /\ runs[r] \in RunDir
      /\ OnRecord(r) /\ runs[r].lock = p
  BY <1>0, Here DEF Stop, Complete, Locked, Handy, Inside
<1>2. items' = items /\ begun' = begun /\ Version' = Version /\ Applied' = Applied
  BY DEF Stop, Complete, Unmoved, vars, lifecycleVars, Version, Applied
<1>3. PICK status \in Stopped \cup Ended : Store(r, [runs[r] EXCEPT !.status = status])
  BY <1>0 DEF Stop, Complete, Run, Ended
<1>4. PICK d : d = [runs[r] EXCEPT !.status = status]
  OBVIOUS
<1>5. /\ d \in RunDir /\ d.lock = p /\ d.claim = runs[r].claim /\ d.journal = runs[r].journal
      /\ d.settlement = runs[r].settlement /\ d.successor = runs[r].successor
  BY <1>1, <1>4 DEF RunDir, Stopped, Ended
<1>6. /\ Moved(p) /\ proc'[p].at = "settle" /\ proc'[p].run = r
      /\ proc'[p].claim = proc[p].claim /\ proc'[p].source = proc[p].source
  BY <1>0, Goes DEF Places, Inside, Stop, Complete
<1>7. Store(r, d) /\ runs'[r] = d
  <2>1. proc[p].at \in Inside
    BY <1>1 DEF Inside
  <2>2. Store(r, d)
    BY <1>3, <1>4
  <2>. QED BY <1>0, <2>1, <2>2, SourceStays
<1>8. Fixed(r) /\ OnRecord(r)'
  BY <1>1, <1>2, <1>5, <1>7 DEF Fixed, OnRecord
<1>. QED BY <1>0, <1>1, <1>2, <1>5, <1>6, <1>7, <1>8, SameBegun, WorksOn DEF Inside

LEMMA SettleKeeps ==
    ASSUME Continued, NEW p \in Procs, Settle(p)
    PROVE  Orderly' /\ Steady
<1>0. PICK r : r = proc[p].run
  OBVIOUS
<1>1. /\ Locked(p) /\ proc[p].at = "settle" /\ r \in Runs /\ runs[r] \in RunDir
      /\ OnRecord(r) /\ runs[r].lock = p
  BY <1>0, Here DEF Settle, Locked, Handy, Inside
<1>2. items' = items /\ begun' = begun /\ Version' = Version /\ Applied' = Applied
  BY DEF Settle, Unmoved, vars, lifecycleVars, Version, Applied
<1>3. PICK d : d = IF /\ runs[r].settlement = None
                      /\ Interrupted(runs[r].journal) /\ Answered(runs[r].journal)
                   THEN [runs[r] EXCEPT !.settlement = runs[r].journal] ELSE runs[r]
  OBVIOUS
<1>4. /\ d \in RunDir /\ d.lock = p /\ d.claim = runs[r].claim /\ d.journal = runs[r].journal
      /\ d.successor = runs[r].successor
      /\ \/ d.settlement = runs[r].settlement
         \/ /\ runs[r].settlement = None /\ d.settlement = runs[r].journal
            /\ Interrupted(runs[r].journal) /\ Answered(runs[r].journal)
  BY <1>1, <1>3 DEF RunDir
<1>5. Store(r, d) /\ Goto(p, "unlock")
  BY <1>0, <1>3 DEF Settle, Run
<1>6. /\ Moved(p) /\ proc'[p].at = "unlock" /\ proc'[p].run = r
      /\ proc'[p].claim = proc[p].claim /\ proc'[p].source = proc[p].source
  BY <1>0, <1>5, Goes DEF Places, Inside
<1>7. runs'[r] = d
  BY <1>0, <1>1, <1>5, SourceStays DEF Inside
<1>8. Fixed(r) /\ OnRecord(r)'
  BY <1>1, <1>2, <1>4, <1>7 DEF Fixed, OnRecord
<1>. QED BY <1>0, <1>1, <1>2, <1>4, <1>5, <1>6, <1>7, <1>8, SameBegun, WorksOn DEF Inside

\* A run that is left, with its lock or without.
LEMMA LeaveRunKeeps ==
    ASSUME Continued, NEW p \in Procs, Retain(p) \/ UnlockRun(p)
    PROVE  Orderly' /\ Steady
<1>0. PICK r : r = proc[p].run
  OBVIOUS
<1>1. /\ Locked(p) /\ proc[p].at \in {"call", "unlock"} /\ r \in Runs /\ runs[r] \in RunDir
      /\ OnRecord(r) /\ runs[r].lock = p
  BY <1>0, Here DEF Retain, UnlockRun, Locked, Handy, Inside
<1>2. items' = items /\ begun' = begun /\ Version' = Version /\ Applied' = Applied /\ Leave(p)
  BY DEF Retain, UnlockRun, Unmoved, vars, lifecycleVars, Version, Applied
<1>3. PICK d : d = IF proc[p].at = "call" THEN [runs[r] EXCEPT !.status = "blocked", !.lock = IF @ = p THEN Gone ELSE @]
                   ELSE [runs[r] EXCEPT !.lock = IF @ = p THEN None ELSE @]
  OBVIOUS
<1>4. /\ d \in RunDir /\ d.claim = runs[r].claim /\ d.journal = runs[r].journal
      /\ d.settlement = runs[r].settlement /\ d.successor = runs[r].successor
  BY <1>1, <1>3 DEF RunDir
<1>5. Store(r, d)
  BY <1>0, <1>3 DEF Retain, UnlockRun, Unlocked, Run
<1>6. runs'[r] = d /\ (proc[p].source # None => runs'[proc[p].source] = runs[proc[p].source])
  BY <1>0, <1>1, <1>5, SourceStays DEF Inside
<1>7. Moved(p) /\ Locked(p)' /\ Guided(p)'
  BY <1>2, <1>6, Leaves
<1>8. Fixed(r) /\ OnRecord(r)'
  BY <1>1, <1>2, <1>4, <1>6 DEF Fixed, OnRecord
<1>. QED BY <1>0, <1>1, <1>2, <1>4, <1>5, <1>7, <1>8, WorkKeeps DEF Inside

-----------------------------------------------------------------------------
(* continueWorkflow                                                          *)

LEMMA UnlockSourceKeeps ==
    ASSUME Continued, NEW p \in Procs, UnlockSource(p)
    PROVE  Orderly' /\ Steady
<1>0. PICK s : s = proc[p].source
  OBVIOUS
<1>1. s \in Runs /\ runs[s] \in RunDir /\ OnRecord(s) /\ runs[s].lock = p /\ None \notin Runs
  BY <1>0, Here DEF UnlockSource, Locked, Handy
<1>2. items' = items /\ begun' = begun /\ Version' = Version /\ Applied' = Applied
  BY DEF UnlockSource, Unmoved, vars, lifecycleVars, Version, Applied
<1>3. PICK d : d = [runs[s] EXCEPT !.lock = IF @ = p THEN None ELSE @]
  OBVIOUS
<1>4. /\ d \in RunDir /\ d.claim = runs[s].claim /\ d.journal = runs[s].journal
      /\ d.settlement = runs[s].settlement /\ d.successor = runs[s].successor
  BY <1>1, <1>3 DEF RunDir
<1>5. Store(s, d) /\ Become(p, Idle) /\ Idle \in Place
  BY <1>0, <1>3 DEF UnlockSource, Unlocked, Source, Idle, Place, Places
<1>6. Moved(p) /\ proc'[p] = Idle
  BY <1>5, Becomes
<1>7. Locked(p)' /\ Guided(p)'
  BY <1>6 DEF Idle, Locked, Handy, Guided, Inside, Continuing, Recovering
<1>8. runs'[s] = d
  BY <1>1, <1>5 DEF Store, Continued, Orderly, Shaped
<1>9. Fixed(s) /\ OnRecord(s)'
  BY <1>1, <1>2, <1>4, <1>8 DEF Fixed, OnRecord
<1>10. Free(s, p)
  BY <1>1 DEF Free
<1>. QED BY <1>1, <1>2, <1>4, <1>5, <1>6, <1>7, <1>9, <1>10, SameBegun, StepInRun

LEMMA ContinueWorkflowKeeps ==
    ASSUME Continued, NEW p \in Procs, NEW s \in Runs, NEW r \in Runs, ContinueWorkflow(p, s, r)
    PROVE  Orderly' /\ Steady
<1>1. runs[s] \in RunDir /\ OnRecord(s) /\ runs[s].lock = None /\ s # r
      /\ None \notin Runs /\ None \notin Procs
  BY Here DEF ContinueWorkflow
<1>2. items' = items /\ begun' = begun /\ Version' = Version /\ Applied' = Applied
  BY DEF ContinueWorkflow, Unmoved, vars, lifecycleVars, Version, Applied
<1>3. PICK d : d = [runs[s] EXCEPT !.lock = p]
  OBVIOUS
<1>4. /\ d \in RunDir /\ d.claim = runs[s].claim /\ d.journal = runs[s].journal /\ d.lock = p
      /\ d.settlement = runs[s].settlement /\ d.successor = runs[s].successor
  BY <1>1, <1>3 DEF RunDir
<1>5. PICK state : state = [Idle EXCEPT !.at = "intent", !.run = r, !.source = s]
  OBVIOUS
<1>6. state \in Place /\ state.at = "intent" /\ state.run = r /\ state.source = s
  BY <1>5 DEF Idle, Place, Places, Continuing
<1>7. Store(s, d) /\ Become(p, state)
  BY <1>3, <1>5 DEF ContinueWorkflow
<1>8. Moved(p) /\ proc'[p] = state
  BY <1>6, <1>7, Becomes
<1>9. runs'[s] = d
  BY <1>7 DEF Store, Continued, Orderly, Shaped
<1>10. Locked(p)' /\ Guided(p)'
  BY <1>1, <1>4, <1>6, <1>8, <1>9 DEF Locked, Handy, Guided, Inside, Continuing, Recovering
<1>11. Fixed(s) /\ OnRecord(s)'
  BY <1>1, <1>2, <1>4, <1>9 DEF Fixed, OnRecord
<1>12. Free(s, p)
  BY <1>1 DEF Free
<1>. QED BY <1>2, <1>4, <1>7, <1>8, <1>10, <1>11, <1>12, SameBegun, StepInRun

\* A continuation at work: it holds its source, which is another run than its own.
LEMMA AtContinuation ==
    ASSUME Continued, NEW p \in Procs, proc[p].at \in Continuing
    PROVE  /\ proc[p].run \in Runs /\ proc[p].source \in Runs /\ proc[p].source # None
           /\ proc[p].source # proc[p].run /\ runs[proc[p].source].lock = p
           /\ runs[proc[p].source] \in RunDir /\ OnRecord(proc[p].source)
BY Here DEF Locked, Handy

\* It leaves, and has changed nothing.
LEMMA WalksOut ==
    ASSUME Continued, NEW p \in Procs, Leave(p), items' = items, UNCHANGED <<runs, begun>>
    PROVE  Orderly' /\ Steady
BY Leaves, StepAlone

\* It goes on, and has changed nothing.
LEMMA GoesOn ==
    ASSUME Continued, NEW p \in Procs, proc[p].at \in Continuing, NEW place \in Continuing,
           Goto(p, place), items' = items, UNCHANGED <<runs, begun>>, Guided(p)'
    PROVE  Orderly' /\ Steady
<1>1. Moved(p) /\ proc'[p].at = place /\ proc'[p].run = proc[p].run /\ proc'[p].source = proc[p].source
  BY Goes DEF Places
<1>2. Locked(p)'
  BY <1>1, AtContinuation DEF Locked, Handy, Inside, Continuing, Recovering
<1>. QED BY <1>1, <1>2, StepAlone

LEMMA ReadIntentKeeps ==
    ASSUME Continued, NEW p \in Procs, ReadIntent(p)
    PROVE  Orderly' /\ Steady
<1>1. proc[p].at \in Continuing /\ {"release", "record"} \subseteq Continuing /\ Continuing \subseteq Places
  BY DEF ReadIntent, Continuing, Places
<1>2. UNCHANGED <<runs, begun>> /\ items' = items
  BY DEF ReadIntent, Unmoved, vars, lifecycleVars
<1>3. CASE Source(p).successor # None /\ Source(p).successor.run = proc[p].run /\ Goto(p, "release")
  <2>1. proc'[p].at = "release" /\ proc'[p].run = proc[p].run /\ proc'[p].source = proc[p].source
    BY <1>1, <1>3, Goes
  <2>2. Guided(p)'
    BY <1>2, <1>3, <2>1 DEF Guided, Source
  <2>. QED BY <1>1, <1>2, <1>3, <2>2, GoesOn
<1>4. CASE Source(p).successor = None /\ Inspected(proc[p].source, proc[p].run, FALSE) /\ Goto(p, "record")
  <2>1. proc'[p].at = "record" /\ proc'[p].run = proc[p].run /\ proc'[p].source = proc[p].source
    BY <1>1, <1>4, Goes
  <2>2. Guided(p)'
    BY <1>2, <1>4, <2>1 DEF Guided, Source, Inspected
  <2>. QED BY <1>1, <1>2, <1>4, <2>2, GoesOn
<1>5. CASE Leave(p)
  BY <1>2, <1>5, WalksOut
<1>. QED BY <1>3, <1>4, <1>5 DEF ReadIntent

\* The intent is written once: the lock of the source keeps others from it.
LEMMA RecordIntentKeeps ==
    ASSUME Continued, NEW p \in Procs, RecordIntent(p)
    PROVE  Orderly' /\ Steady
<1>0. PICK s : s = proc[p].source
  OBVIOUS
<1>1. /\ proc[p].at = "record" /\ s \in Runs /\ s # None /\ runs[s] \in RunDir /\ OnRecord(s)
      /\ runs[s].lock = p /\ runs[s].successor = None /\ runs[s].claim # None
      /\ proc[p].run \in Runs /\ s # proc[p].run /\ None \notin Intent
  BY <1>0, Here, AtContinuation DEF RecordIntent, Guided, Continuing
<1>2. items' = items /\ begun' = begun /\ Version' = Version /\ Applied' = Applied
  BY DEF RecordIntent, Unmoved, vars, lifecycleVars, Version, Applied
<1>3. CASE items[Job].claim = None
  BY <1>2, <1>3, WalksOut DEF RecordIntent
<1>4. CASE items[Job].claim # None
  <2>1. PICK intent : intent = [run |-> proc[p].run, version |-> items[Job].version,
                                claim |-> items[Job].claim.id, base |-> head]
    OBVIOUS
  <2>2. intent \in Intent /\ intent.run = proc[p].run
    <3>1. items[Job].version \in Nat /\ items[Job].claim \in Claimed
      BY <1>4, ContinuationAssumption DEF Continued, IndInv, ItemsOK, Item, NoItem
    <3>2. head \in Revisions
      BY CheckoutAssumption DEF Continued, IndInv, CheckoutTypeOK, Revisions
    <3>. QED BY <1>1, <2>1, <3>1, <3>2 DEF Intent, Claimed
  <2>3. PICK d : d = [runs[s] EXCEPT !.successor = intent]
    OBVIOUS
  <2>4. /\ d \in RunDir /\ d.claim = runs[s].claim /\ d.journal = runs[s].journal /\ d.lock = p
        /\ d.settlement = runs[s].settlement /\ d.successor = intent
    BY <1>1, <2>2, <2>3 DEF RunDir
  <2>5. Store(s, d) /\ Goto(p, "release")
    BY <1>0, <1>1, <1>4, <2>1, <2>3 DEF RecordIntent, Source
  <2>6. /\ Moved(p) /\ proc'[p].at = "release" /\ proc'[p].run = proc[p].run
        /\ proc'[p].source = s
    BY <1>0, <2>5, Goes DEF Places, Continuing
  <2>7. runs'[s] = d
    BY <1>1, <2>5 DEF Store, Continued, Orderly, Shaped
  <2>8. Locked(p)'
    BY <1>1, <2>4, <2>6, <2>7 DEF Locked, Handy, Inside, Continuing, Recovering
  <2>9. Guided(p)'
    BY <1>1, <2>2, <2>4, <2>6, <2>7 DEF Guided
  <2>10. Fixed(s) /\ OnRecord(s)'
    BY <1>1, <1>2, <2>2, <2>4, <2>7 DEF Fixed, OnRecord
  <2>11. Free(s, p)
    BY <1>1 DEF Free
  <2>. QED BY <1>1, <1>2, <2>4, <2>5, <2>6, <2>8, <2>9, <2>10, <2>11, SameBegun, StepInRun
<1>. QED BY <1>3, <1>4

\* What is inspected again holds as long as the lock of the source is kept.
LEMMA InspectAgainKeeps ==
    ASSUME Continued, NEW p \in Procs, InspectAgain(p)
    PROVE  Orderly' /\ Steady
<1>1. proc[p].at \in Continuing /\ proc[p].at = "inspect" /\ "load" \in Continuing /\ "load" \in Places
  BY DEF InspectAgain, Continuing, Places
<1>2. UNCHANGED <<runs, begun>> /\ items' = items
  BY DEF InspectAgain, Unmoved, vars, lifecycleVars
<1>3. CASE Inspected(proc[p].source, proc[p].run, TRUE) /\ Goto(p, "load")
  <2>1. proc'[p].at = "load" /\ proc'[p].run = proc[p].run /\ proc'[p].source = proc[p].source
    BY <1>1, <1>3, Goes
  <2>2. Guided(p) /\ proc[p].source # None
    BY <1>1, Here, AtContinuation
  <2>3. Guided(p)'
    BY <1>1, <1>2, <1>3, <2>1, <2>2 DEF Guided, Inspected, Applied
  <2>. QED BY <1>1, <1>2, <1>3, <2>3, GoesOn
<1>4. CASE Leave(p)
  BY <1>2, <1>4, WalksOut
<1>. QED BY <1>3, <1>4 DEF InspectAgain

LEMMA LoadKeeps ==
    ASSUME Continued, NEW p \in Procs, Load(p)
    PROVE  Orderly' /\ Steady
<1>1. proc[p].at \in Continuing /\ proc[p].at = "load" /\ "bind" \in Places
  BY DEF Load, Continuing, Places
<1>2. UNCHANGED <<runs, begun>> /\ items' = items /\ Version' = Version /\ Applied' = Applied
  BY DEF Load, Unmoved, vars, lifecycleVars, Version, Applied
<1>3. CASE Standing(proc[p].claim) /\ Goto(p, "bind")
  <2>1. /\ Moved(p) /\ proc'[p].at = "bind" /\ proc'[p].run = proc[p].run
        /\ proc'[p].source = proc[p].source /\ proc'[p].claim = proc[p].claim
    BY <1>1, <1>3, Goes
  <2>2. proc[p].claim = Version /\ Version \in Nat
    BY <1>3, StandingIsLast, VersionIsNat DEF Continued
  <2>3. Locked(p)'
    BY <1>1, <1>2, <2>1, <2>2, AtContinuation DEF Locked, Handy, Inside, Continuing, Recovering
  <2>4. Guided(p)'
    BY <1>1, <1>2, <2>1, Here DEF Guided
  <2>. QED BY <1>2, <2>1, <2>3, <2>4, StepAlone
<1>4. CASE Leave(p)
  BY <1>2, <1>4, WalksOut
<1>. QED BY <1>3, <1>4 DEF Load

LEMMA RefusedKeeps ==
    ASSUME Continued, NEW p \in Procs, Refused(p)
    PROVE  Orderly' /\ Steady
BY WalksOut DEF Refused, Unmoved, vars, lifecycleVars

-----------------------------------------------------------------------------
(* Deaths and recoveries.                                                    *)

LEMMA CrashKeeps ==
    ASSUME Continued, NEW p \in Procs, Crash(p)
    PROVE  Orderly' /\ Steady
<1>1. /\ items' = items /\ begun' = begun /\ Version' = Version /\ Applied' = Applied
      /\ Version \in Nat
  BY VersionIsNat DEF Crash, Unmoved, vars, lifecycleVars, Version, Applied, Continued
<1>2. Become(p, Idle) /\ Idle \in Place
  BY DEF Crash, Idle, Place, Places
<1>3. Moved(p) /\ proc'[p] = Idle
  BY <1>2, Becomes
<1>4. Locked(p)' /\ Guided(p)'
  BY <1>3 DEF Idle, Locked, Handy, Guided, Inside, Continuing, Recovering
<1>5. ASSUME NEW r \in Runs
      PROVE  /\ runs'[r] \in RunDir
             /\ Untouched(r) \/ Free(r, p)
             /\ Fixed(r) /\ OnRecord(r)'
  <2>1. runs[r] \in RunDir /\ OnRecord(r)
    BY Here
  <2>2. PICK d : d = [runs[r] EXCEPT !.lock = IF @ = p THEN Gone ELSE @]
    OBVIOUS
  <2>3. /\ d \in RunDir /\ d.claim = runs[r].claim /\ d.journal = runs[r].journal
        /\ d.settlement = runs[r].settlement /\ d.successor = runs[r].successor
        /\ runs[r].lock # p => d.lock = runs[r].lock
    BY <2>1, <2>2 DEF RunDir
  <2>4. runs'[r] = d
    BY <2>2 DEF Crash
  <2>. QED BY <1>1, <2>1, <2>3, <2>4 DEF Untouched, Free, Fixed, OnRecord
<1>6. runs' \in [Runs -> RunDir]
  <2>1. runs' = [r \in Runs |-> runs'[r]]
    BY DEF Crash
  <2>. QED BY <1>5, <2>1
<1>7. Shaped' /\ Touches(p) /\ Grows /\ CallsSpared(p)
  BY <1>1, <1>3, <1>5, <1>6 DEF Shaped, Moved, Touches, Grows, CallsSpared, Continued, Orderly
<1>8. \A r \in Runs : Fixed(r) /\ OnRecord(r)'
  BY <1>5
<1>9. Orderly'
  BY <1>1, <1>3, <1>4, <1>7, <1>8, Advance DEF Continued, Moved
<1>. QED BY <1>8, <1>9 DEF Steady

LEMMA RecoverKeeps ==
    ASSUME Continued, NEW p \in Procs, NEW r \in Runs, Recover(p, r)
    PROVE  Orderly' /\ Steady
<1>1. PICK state : state = [Idle EXCEPT !.at = "examine", !.run = r]
  OBVIOUS
<1>2. state \in Place /\ state.at = "examine" /\ state.run = r /\ state.source = None
  BY <1>1 DEF Idle, Place, Places, Recovering
<1>3. Moved(p) /\ proc'[p] = state
  BY <1>1, <1>2, Becomes DEF Recover
<1>4. items' = items /\ UNCHANGED <<runs, begun>> /\ p \in Recoverers
  BY DEF Recover, Unmoved, vars, lifecycleVars
<1>5. Locked(p)' /\ Guided(p)'
  BY <1>2, <1>3, <1>4 DEF Locked, Handy, Guided, Inside, Continuing, Recovering
<1>. QED BY <1>3, <1>4, <1>5, StepAlone

LEMMA ExamineLockKeeps ==
    ASSUME Continued, NEW p \in Procs, ExamineLock(p)
    PROVE  Orderly' /\ Steady
<1>1. items' = items /\ UNCHANGED <<runs, begun>>
  BY DEF ExamineLock, Unmoved, vars, lifecycleVars
<1>2. CASE Leave(p)
  BY <1>1, <1>2, WalksOut
<1>3. CASE Run(p).lock = Gone /\ Goto(p, "remove")
  <2>1. /\ Moved(p) /\ proc'[p].at = "remove" /\ proc'[p].run = proc[p].run
        /\ proc'[p].source = proc[p].source
    BY <1>3, Goes DEF Places, Recovering
  <2>2. Locked(p) /\ proc[p].at = "examine"
    BY Here DEF ExamineLock
  <2>3. Locked(p)'
    BY <1>1, <1>3, <2>1, <2>2 DEF Locked, Handy, Run, Inside, Continuing, Recovering
  <2>4. Guided(p)'
    BY <1>1, <2>1, <2>2 DEF Guided
  <2>. QED BY <1>1, <2>1, <2>3, <2>4, StepAlone
<1>. QED BY <1>2, <1>3 DEF ExamineLock

\* The lock that is unlinked is still the one that was examined: only a recovery takes such a lock away.
LEMMA RemoveLockKeeps ==
    ASSUME Continued, NEW p \in Procs, RemoveLock(p)
    PROVE  Orderly' /\ Steady
<1>0. PICK r : r = proc[p].run
  OBVIOUS
<1>1. /\ proc[p].at = "remove" /\ Locked(p) /\ r \in Runs /\ runs[r] \in RunDir /\ OnRecord(r)
      /\ runs[r].lock = Gone /\ Gone \notin Procs /\ proc[p] \in Place
  BY <1>0, Here DEF RemoveLock, Locked, Handy, Recovering
<1>2. items' = items /\ begun' = begun /\ Version' = Version /\ Applied' = Applied /\ Leave(p)
  BY DEF RemoveLock, Unmoved, vars, lifecycleVars, Version, Applied
<1>3. PICK d : d = [runs[r] EXCEPT !.lock = None]
  OBVIOUS
<1>4. /\ d \in RunDir /\ d.claim = runs[r].claim /\ d.journal = runs[r].journal
      /\ d.settlement = runs[r].settlement /\ d.successor = runs[r].successor
  BY <1>1, <1>3 DEF RunDir
<1>5. Store(r, d)
  BY <1>0, <1>3 DEF RemoveLock, Run
<1>6. /\ runs'[r] = d
      /\ proc[p].source # None => runs'[proc[p].source] = runs[proc[p].source]
  BY <1>1, <1>5 DEF Store, Locked, Place, Continued, Orderly, Shaped
<1>7. Moved(p) /\ Locked(p)' /\ Guided(p)'
  BY <1>2, <1>6, Leaves
<1>8. Fixed(r) /\ OnRecord(r)' /\ Free(r, p)
  BY <1>1, <1>2, <1>4, <1>6 DEF Fixed, OnRecord, Free
<1>. QED BY <1>1, <1>2, <1>4, <1>5, <1>7, <1>8, SameBegun, StepInRun

\* A step of nobody's: the records of tasks grow.
LEMMA NobodysStep ==
    ASSUME Continued, Version' \in Nat, Grows, UNCHANGED <<runs, proc, begun>>,
           \A r \in Runs : Fixed(r) /\ OnRecord(r)',
           \A r \in Runs : <<r, 1>> \in Applied' => <<r, 1>> \in Applied
    PROVE  Orderly' /\ Steady
<1>1. Version \in Nat
  BY VersionIsNat DEF Continued
<1>2. Shaped'
  BY DEF Shaped, Continued, Orderly
<1>3. ASSUME NEW q \in Procs PROVE (Locked(q) /\ Guided(q))'
  <2>1. Locked(q) /\ Guided(q)
    BY Here
  <2>2. Locked(q)'
    BY <1>1, <2>1 DEF Locked, Handy, Grows, Inside
  <2>3. Guided(q)'
    BY <2>1 DEF Guided, Grows
  <2>. QED BY <2>2, <2>3
<1>4. ASSUME NEW s \in Runs, NEW r \in Runs, <<s, r>> \in begun' PROVE Rests(s, r)'
  <2>1. Rests(s, r) /\ Fixed(s)
    BY <1>4 DEF Continued, Orderly
  <2>. QED BY <2>1 DEF Rests, Fixed, Grows
<1>. QED BY <1>2, <1>3, <1>4 DEF Orderly, Steady

-----------------------------------------------------------------------------
(* The operations on tasks.                                                  *)

\* The operations that occur here.
Changes(t, req) ==
    \/ \E contract \in Contract : Create(t, contract, req)
    \/ Claim(t, req) \/ Release(t, req) \/ Handoff(t, req)

LEMMA ExtendedOperations ==
    ASSUME NEW old, NEW new, NEW action, NEW req, Extended(new, old, action, req),
           old.history \in Seq(Event), new.history \in Seq(Event)
    PROVE  OperationsOf(new) = OperationsOf(old) \cup {req.op}
<1> DEFINE n == Len(old.history)
<1>1. n \in Nat /\ DOMAIN old.history = 1 .. n /\ DOMAIN new.history = 1 .. n + 1
  BY DEF Extended
<1>2. \A i \in 1 .. n : new.history[i].request.op = old.history[i].request.op
  BY DEF Extended
<1>3. new.history[n + 1].request.op = req.op
  BY DEF Extended
<1>4. ASSUME NEW x \in OperationsOf(new) PROVE x \in OperationsOf(old) \cup {req.op}
  <2>1. PICK i \in 1 .. n + 1 : x = new.history[i].request.op
    BY <1>1, <1>4 DEF OperationsOf
  <2>2. i \in 1 .. n \/ i = n + 1
    BY <1>1, <2>1
  <2>. QED BY <1>1, <1>2, <1>3, <2>1, <2>2 DEF OperationsOf
<1>5. ASSUME NEW x \in OperationsOf(old) PROVE x \in OperationsOf(new)
  <2>1. PICK i \in 1 .. n : x = old.history[i].request.op
    BY <1>1, <1>5 DEF OperationsOf
  <2>. QED BY <1>1, <1>2, <2>1 DEF OperationsOf
<1>6. req.op \in OperationsOf(new)
  BY <1>1, <1>3 DEF OperationsOf
<1>. QED BY <1>4, <1>5, <1>6

\* An operation keeps the invariants of the tasks, and is the next one of its task.
LEMMA ChangeKeeps ==
    ASSUME IndInv, HistoryOK, NEW t \in Tasks, NEW req \in Request, Changes(t, req)
    PROVE  /\ IndInv' /\ HistoryOK'
           /\ \A u \in Tasks \ {t} : items'[u] = items[u]
           /\ items'[t].version = items[t].version + 1
           /\ OperationsOf(items'[t]) = OperationsOf(items[t]) \cup {req.op}
<1>1. Operation(t, req)
  BY DEF Operation, Changes
<1>2. ItemsOK /\ policy \in Policies /\ tip \in Revisions /\ BuildersDisjoint
  BY DEF IndInv, FilesOK, CheckoutTypeOK
<1>3. \A u \in Tasks \ {t} : items'[u] = items[u]
  BY <1>1, OperationFrame
<1>4. ItemsOK' /\ BuildersDisjoint'
  BY <1>2, CreateKeeps, ClaimKeeps, ReleaseKeeps, HandoffKeeps DEF Changes
<1>5. FilesOK' /\ CheckoutTypeOK'
  <2>1. policy' = policy /\ expired' = expired /\ altered' \subseteq altered
    BY DEF Changes, Create, Claim, Release, Handoff
  <2>2. UNCHANGED checkoutVars
    BY <1>1, OperationFrame
  <2>. QED BY <2>1, <2>2 DEF IndInv, FilesOK, CheckoutTypeOK, checkoutVars
<1>6. HistoryOK'
  <2>1. (Kept(items[t]) /\ Trail(items[t]))'
    BY <1>1, OperationKeepsHistory
  <2>. QED BY <1>3, <2>1 DEF HistoryOK
<1>7. \A u \in Tasks : items[u].history \in Seq(Event) /\ items'[u].history \in Seq(Event)
  <2>1. NoItem.history \in Seq(Event)
    BY DEF NoItem
  <2>. QED BY <1>2, <1>4, <2>1 DEF ItemsOK, Item
<1>8. CASE Claim(t, req) \/ Release(t, req) \/ Handoff(t, req)
  <2>1. PICK action \in {"claim", "release", "handoff"} : Extended(items'[t], items[t], action, req)
    BY <1>2, <1>8, ClaimDoes, ReleaseDoes, HandoffDoes
  <2>2. OperationsOf(items'[t]) = OperationsOf(items[t]) \cup {req.op}
    BY <1>7, <2>1, ExtendedOperations
  <2>3. items'[t].version = items[t].version + 1
    BY <2>1 DEF Extended
  <2>. QED BY <1>3, <1>4, <1>5, <1>6, <2>2, <2>3 DEF IndInv
<1>9. ASSUME NEW contract \in Contract, Create(t, contract, req)
      PROVE  /\ items'[t].version = items[t].version + 1
             /\ OperationsOf(items'[t]) = OperationsOf(items[t]) \cup {req.op}
  <2>1. items[t] = NoItem /\ items'[t].version = 1
    BY <1>2, <1>9, CreateDoes
  <2>2. PICK item : item = [NoItem EXCEPT !.state = "intake", !.contract = contract, !.policy = policy]
    OBVIOUS
  <2>3. item \in Item /\ item.history = <<>>
    <3>1. <<>> \in Seq(Attempt) /\ <<>> \in Seq(Event)
      OBVIOUS
    <3>. QED BY <1>2, <2>2, <3>1 DEF NoItem, Item, States
  <2>4. Save(t, "create", req, item)
    BY <1>9, <2>2 DEF Create
  <2>5. Extended(items'[t], item, "create", req)
    BY <1>2, <2>3, <2>4, SaveExtends
  <2>6. OperationsOf(items'[t]) = OperationsOf(item) \cup {req.op}
    BY <1>7, <2>3, <2>5, ExtendedOperations DEF Item
  <2>7. OperationsOf(item) = OperationsOf(items[t])
    BY <2>1, <2>3 DEF OperationsOf, NoItem
  <2>. QED BY <2>1, <2>6, <2>7 DEF NoItem
<1>. QED BY <1>3, <1>4, <1>5, <1>6, <1>8, <1>9 DEF IndInv, Changes

\* The request an admitted operation carries is well formed: its number is one of the versions.
LEMMA RequestTyped ==
    ASSUME IndInv, NEW t \in Tasks, NEW x \in Runs \cup {None}, NEW k \in 1 .. MaxVersion,
           NEW expected \in Nat, NEW actor \in Actor, NEW claim \in Nat \cup {None},
           NEW revision \in Revisions \cup {None}
    PROVE  Ask(<<x, k>>, expected, actor, claim, revision, None) \in Request
<1>1. <<x, k>> \in Derived
  BY ContinuationAssumption
<1>. QED BY <1>1 DEF Ask, Request

\* So are those an intent derives, and those by hand.
LEMMA ReleaseAsked ==
    ASSUME IndInv, NEW s \in Runs, runs[s].successor \in Intent, Release(Job, ReleaseRequest(s))
    PROVE  ReleaseRequest(s) \in Request
<1>1. runs[s].successor.version \in Nat /\ runs[s].successor.claim \in Nat
  BY DEF Intent
<1>2. RecordOK(items[Job]) /\ items[Job].version \in Nat /\ items[Job].version < MaxVersion
  BY FoundRecord, VersionIsNat, ContinuationAssumption DEF Release, Admits, IndInv, Version
<1>3. items[Job].contract.actor \in Actor
  BY <1>2 DEF RecordOK, Item, Contract
<1>4. 1 \in 1 .. MaxVersion
  BY <1>2, LifecycleAssumption
<1>. QED BY <1>1, <1>3, <1>4, RequestTyped, ContinuationAssumption DEF ReleaseRequest

LEMMA ClaimAsked ==
    ASSUME IndInv, NEW s \in Runs, runs[s].successor \in Intent, Claim(Job, ClaimRequest(s))
    PROVE  ClaimRequest(s) \in Request
<1>1. runs[s].successor.version \in Nat /\ runs[s].successor.base \in Revisions
  BY DEF Intent
<1>2. /\ RecordOK(items[Job]) /\ items[Job].version < MaxVersion
      /\ items[Job].version = runs[s].successor.version + 1
  BY FoundRecord, ContinuationAssumption DEF Claim, Admits, ClaimRequest, Ask, IndInv
<1>3. items[Job].contract.actor \in Actor
  BY <1>2 DEF RecordOK, Item, Contract
<1>4. 2 \in 1 .. MaxVersion /\ runs[s].successor.version + 1 \in Nat
  BY <1>1, <1>2, LifecycleAssumption
<1>. QED BY <1>1, <1>3, <1>4, RequestTyped, ContinuationAssumption DEF ClaimRequest

LEMMA HandAsked ==
    ASSUME IndInv, NEW t \in Tasks, ByHand(t)
    PROVE  \E req \in Request : Changes(t, req) /\ \E k \in 1 .. MaxVersion : req.op = <<None, k>>
<1> DEFINE v == items[t].version
<1>1. v \in Nat /\ head \in Revisions /\ ClaimIds(t) \subseteq Nat /\ KnownActors \subseteq Actor
      /\ 0 \in Nat
  <2>1. v \in Nat
    BY DEF IndInv, ItemsOK, Item, NoItem
  <2>2. head \in Revisions
    BY CheckoutAssumption DEF IndInv, CheckoutTypeOK, Revisions
  <2>. QED BY <2>1, <2>2, LifecycleAssumption DEF ClaimIds, KnownActors, Policy
<1>2. PICK actor \in KnownActors :
       \/ \E c \in Contracts[t] : Create(t, c, Ask(<<None, 1>>, 0, actor, None, None, None))
       \/ Claim(t, Ask(<<None, v + 1>>, v, actor, None, head, None))
       \/ \E id \in ClaimIds(t) :
            \/ Release(t, Ask(<<None, v + 1>>, v, actor, id, None, None))
            \/ Handoff(t, Ask(<<None, v + 1>>, v, actor, id, head, None))
  BY DEF ByHand
<1>3. ASSUME NEW c \in Contracts[t], Create(t, c, Ask(<<None, 1>>, 0, actor, None, None, None))
      PROVE  \E req \in Request : Changes(t, req) /\ \E k \in 1 .. MaxVersion : req.op = <<None, k>>
  <2>1. PICK req : req = Ask(<<None, 1>>, 0, actor, None, None, None)
    OBVIOUS
  <2>2. 1 \in 1 .. MaxVersion /\ c \in Contract
    BY <1>3, LifecycleAssumption DEF Create
  <2>3. req \in Request /\ req.op = <<None, 1>>
    BY <1>1, <2>1, <2>2, RequestTyped DEF Ask
  <2>4. Changes(t, req)
    BY <1>3, <2>1, <2>2 DEF Changes
  <2>. QED BY <2>2, <2>3, <2>4
<1>4. ASSUME NEW id \in Nat \cup {None}, NEW r \in Revisions \cup {None},
             NEW req, req = Ask(<<None, v + 1>>, v, actor, id, r, None),
             Claim(t, req) \/ Release(t, req) \/ Handoff(t, req)
      PROVE  \E x \in Request : Changes(t, x) /\ \E k \in 1 .. MaxVersion : x.op = <<None, k>>
  <2>1. v < MaxVersion
    BY <1>4 DEF Claim, Release, Handoff, Admits
  <2>2. v + 1 \in 1 .. MaxVersion
    BY <1>1, <2>1, LifecycleAssumption
  <2>3. req \in Request /\ req.op = <<None, v + 1>>
    BY <1>1, <1>4, <2>2, RequestTyped DEF Ask
  <2>. QED BY <1>4, <2>2, <2>3 DEF Changes
<1>. QED BY <1>1, <1>2, <1>3, <1>4

\* What an operation on some task means for the runs.
LEMMA ChangeGrows ==
    ASSUME Continued, NEW t \in Tasks, NEW req \in Request, Changes(t, req)
    PROVE  /\ IndInv' /\ HistoryOK' /\ Version \in Nat /\ Version' \in Nat /\ Grows
           /\ t = Job => Version' = Version + 1 /\ Applied' = Applied \cup {req.op}
           /\ t # Job => Applied' = Applied
<1>1. IndInv' /\ HistoryOK'
  BY ChangeKeeps DEF Continued
<1>2. Version \in Nat /\ Version' \in Nat
  BY <1>1, VersionIsNat, ContinuationAssumption DEF Continued, IndInv, Version, ItemsOK, Item, NoItem
<1>3. CASE t = Job
  BY <1>1, <1>2, <1>3, ChangeKeeps DEF Continued, Version, Applied, Grows
<1>4. CASE t # Job
  <2>1. items'[Job] = items[Job]
    BY <1>4, ChangeKeeps, ContinuationAssumption DEF Continued
  <2>. QED BY <1>1, <1>2, <1>4, <2>1 DEF Version, Applied, Grows
<1>. QED BY <1>1, <1>2, <1>3, <1>4

\* The release: its claim was the latest version of the task, and is no longer.
LEMMA ReleaseClaimKeeps ==
    ASSUME Continued, NEW p \in Procs, ReleaseClaim(p)
    PROVE  IndInv' /\ HistoryOK' /\ Orderly' /\ Steady
<1>0. PICK s : s = proc[p].source
  OBVIOUS
<1>1. /\ proc[p].at = "release" /\ proc[p].at \in Continuing /\ s \in Runs /\ s # None
      /\ runs[s] \in RunDir /\ OnRecord(s) /\ runs[s].lock = p /\ runs[s].successor # None
      /\ Guided(p) /\ proc[p].run \in Runs /\ proc[p].run # s
      /\ None \notin Runs
  BY <1>0, Here, AtContinuation DEF ReleaseClaim, Guided, Continuing
<1>2. UNCHANGED <<runs, begun>> /\ Goto(p, "claim")
  BY DEF ReleaseClaim
<1>3. /\ Moved(p) /\ proc'[p].at = "claim" /\ proc'[p].run = proc[p].run
      /\ proc'[p].source = s
  BY <1>0, <1>2, Goes DEF Places, Continuing
<1>4. ReleaseRequest(s).op = <<s, 1>>
  BY DEF ReleaseRequest, Ask
<1>5. CASE Replayed(ReleaseRequest(s))
  <2>1. UNCHANGED vars
    BY <1>0, <1>5 DEF ReleaseClaim
  <2>2. <<s, 1>> \in Applied' /\ items' = items
    BY <1>4, <1>5, <2>1 DEF Replayed, Applied, vars, lifecycleVars
  <2>3. Guided(p)'
    BY <1>0, <1>1, <1>2, <1>3, <2>2 DEF Guided
  <2>4. IndInv' /\ HistoryOK'
    <3>1. [Next]_vars
      BY <2>1
    <3>. QED BY <3>1, StepKeeps, HistoryKeeps DEF Continued
  <2>. QED BY <1>1, <1>2, <2>2, <2>3, <2>4, GoesOn DEF Continuing
<1>6. CASE ~Replayed(ReleaseRequest(s))
  <2>1. Release(Job, ReleaseRequest(s)) /\ Job \in Tasks
    BY <1>0, <1>6, ContinuationAssumption DEF ReleaseClaim
  <2>2. ReleaseRequest(s) \in Request
    BY <1>1, <2>1, ReleaseAsked DEF RunDir, Continued
  <2>3. /\ IndInv' /\ HistoryOK' /\ Version \in Nat /\ Version' \in Nat /\ Grows
        /\ Version' = Version + 1 /\ Applied' = Applied \cup {<<s, 1>>}
    BY <1>4, <2>1, <2>2, ChangeGrows DEF Changes
  <2>4. Shaped' /\ Touches(p)
    BY <1>2, <1>3 DEF Shaped, Continued, Orderly, Moved, Touches, Untouched
  <2>5. CallsSpared(p)
    <3>1. ASSUME NEW q \in Procs \ {p}, proc[q].at \in {"dispatch", "call"}, proc[q].run = s PROVE FALSE
      BY <1>1, <3>1, Here DEF Locked, Handy, Inside
    <3>. QED BY <2>3, <3>1 DEF CallsSpared
  <2>6. Locked(p)'
    BY <1>1, <1>2, <1>3 DEF Locked, Handy, Inside, Continuing, Recovering
  <2>7. Guided(p)'
    BY <1>0, <1>1, <1>2, <1>3, <2>3 DEF Guided
  <2>8. ASSUME NEW r \in Runs PROVE Fixed(r) /\ OnRecord(r)'
    <3>1. OnRecord(r) /\ runs[r] \in RunDir
      BY Here
    <3>2. CASE r = s
      BY <1>1, <1>2, <2>3, <3>1, <3>2 DEF Fixed, OnRecord, RunDir
    <3>3. CASE r # s
      <4>1. <<r, 1>> \in Applied' => <<r, 1>> \in Applied
        BY <2>3, <3>3
      <4>. QED BY <1>2, <2>3, <3>1, <4>1 DEF Fixed, OnRecord, RunDir
    <3>. QED BY <3>2, <3>3
  <2>9. Orderly'
    BY <1>2, <1>3, <2>3, <2>4, <2>5, <2>6, <2>7, <2>8, Advance DEF Continued, Moved
  <2>. QED BY <2>3, <2>8, <2>9 DEF Steady
<1>. QED BY <1>5, <1>6

\* Another claim: nobody's release is part of it.
LEMMA ClaimAgainKeeps ==
    ASSUME Continued, NEW p \in Procs, ClaimAgain(p)
    PROVE  IndInv' /\ HistoryOK' /\ Orderly' /\ Steady
<1>0. PICK s : s = proc[p].source
  OBVIOUS
<1>1. /\ proc[p].at = "claim" /\ proc[p].at \in Continuing /\ s \in Runs /\ s # None
      /\ runs[s] \in RunDir /\ runs[s].lock = p /\ runs[s].successor # None
      /\ Guided(p) /\ proc[p].run \in Runs /\ proc[p].run # s /\ proc[p] \in Place
      /\ None \notin Runs
  BY <1>0, Here, AtContinuation DEF ClaimAgain, Guided, Continuing
<1>2. UNCHANGED <<runs, begun>>
  BY DEF ClaimAgain
<1>3. ClaimRequest(s).op = <<s, 2>>
  BY DEF ClaimRequest, Ask
<1>4. /\ IndInv' /\ HistoryOK' /\ Version \in Nat /\ Version' \in Nat /\ Grows
      /\ Applied' \subseteq Applied \cup {<<s, 2>>}
  <2>1. CASE Replayed(ClaimRequest(s))
    <3>1. UNCHANGED vars
      BY <1>0, <2>1 DEF ClaimAgain
    <3>2. [Next]_vars /\ items' = items
      BY <3>1 DEF vars, lifecycleVars
    <3>. QED BY <3>2, StepKeeps, HistoryKeeps, VersionIsNat DEF Continued, Grows, Version, Applied
  <2>2. CASE ~Replayed(ClaimRequest(s))
    <3>1. Claim(Job, ClaimRequest(s)) /\ Job \in Tasks
      BY <1>0, <2>2, ContinuationAssumption DEF ClaimAgain
    <3>2. ClaimRequest(s) \in Request
      BY <1>1, <3>1, ClaimAsked DEF RunDir, Continued
    <3>. QED BY <1>3, <3>1, <3>2, ChangeGrows DEF Changes
  <2>. QED BY <2>1, <2>2
<1>5. PICK state : state = [proc[p] EXCEPT !.at = "inspect",
                  !.claim = IF items'[Job].claim = None THEN None ELSE items'[Job].claim.id]
  OBVIOUS
<1>6. state \in Place /\ state.at = "inspect" /\ state.run = proc[p].run /\ state.source = s
  <2>1. items'[Job].claim = None \/ items'[Job].claim.id \in Nat
    BY <1>4, ContinuationAssumption DEF IndInv, ItemsOK, Item, NoItem, Claimed
  <2>. QED BY <1>0, <1>1, <1>5, <2>1 DEF Place, Places, Continuing
<1>7. Moved(p) /\ proc'[p] = state
  BY <1>5, <1>6, Becomes DEF ClaimAgain
<1>8. \A r \in Runs : <<r, 1>> \in Applied' => <<r, 1>> \in Applied
  BY <1>4
<1>9. Shaped' /\ Touches(p) /\ CallsSpared(p)
  <2>1. \A q \in Procs : proc[q].at \in {"dispatch", "call"} => proc[q].run \in Runs
    BY Here DEF Locked, Handy, Inside
  <2>. QED BY <1>2, <1>7, <1>8, <2>1 DEF Shaped, Continued, Orderly, Moved, Touches, Untouched, CallsSpared
<1>10. Locked(p)'
  BY <1>1, <1>2, <1>6, <1>7 DEF Locked, Handy, Inside, Continuing, Recovering
<1>11. Guided(p)'
  BY <1>0, <1>1, <1>2, <1>4, <1>6, <1>7 DEF Guided, Grows
<1>12. ASSUME NEW r \in Runs PROVE Fixed(r) /\ OnRecord(r)'
  <2>1. OnRecord(r) /\ runs[r] \in RunDir
    BY Here
  <2>. QED BY <1>2, <1>4, <1>8, <2>1 DEF Fixed, OnRecord, RunDir, Grows
<1>13. Orderly'
  BY <1>2, <1>4, <1>7, <1>9, <1>10, <1>11, <1>12, Advance DEF Continued, Moved
<1>. QED BY <1>4, <1>12, <1>13 DEF Steady

LEMMA ByHandKeeps ==
    ASSUME Continued, AroundTheRuns
    PROVE  IndInv' /\ HistoryOK' /\ Orderly' /\ Steady
<1>1. PICK t \in Tasks : ByHand(t)
  BY DEF AroundTheRuns
<1>2. PICK req \in Request : Changes(t, req) /\ \E k \in 1 .. MaxVersion : req.op = <<None, k>>
  BY <1>1, HandAsked DEF Continued
<1>3. UNCHANGED runVars
  BY DEF AroundTheRuns
<1>4. /\ IndInv' /\ HistoryOK' /\ Version \in Nat /\ Version' \in Nat /\ Grows
      /\ Applied' \subseteq Applied \cup {req.op}
  BY <1>2, ChangeGrows
<1>5. \A r \in Runs : <<r, 1>> \in Applied' => <<r, 1>> \in Applied
  BY <1>2, <1>4, ContinuationAssumption
<1>6. ASSUME NEW r \in Runs PROVE Fixed(r) /\ OnRecord(r)' /\ Untouched(r)
  <2>1. OnRecord(r) /\ runs[r] \in RunDir
    BY DEF Continued, Orderly, Shaped
  <2>2. runs' = runs
    BY <1>3 DEF runVars
  <2>. QED BY <1>4, <1>5, <2>1, <2>2 DEF Fixed, OnRecord, RunDir, Grows, Untouched
<1>7. Orderly' /\ Steady
  <2>1. UNCHANGED <<runs, proc, begun>>
    BY <1>3 DEF runVars
  <2>. QED BY <1>4, <1>5, <1>6, <2>1, NobodysStep
<1>. QED BY <1>4, <1>7

-----------------------------------------------------------------------------
(* What holds however recoveries overlap.                                    *)

\* Whoever is about to operate on the task has an intent to operate by.
Intends(p) == proc[p].at \in {"release", "claim"} => runs[proc[p].source].successor # None

Typed ==
    /\ IndInv /\ HistoryOK
    /\ runs \in [Runs -> RunDir] /\ proc \in [Procs -> Place]
    /\ \A p \in Procs : Handy(p) /\ Intends(p)

\* An intent stays on record.
IntentsStay ==
    /\ runs' \in [Runs -> RunDir]
    /\ \A r \in Runs : runs[r].successor # None => runs'[r].successor # None

Ready(p) == Moved(p) /\ Handy(p)' /\ Intends(p)'

LEMMA Found ==
    ASSUME Typed, NEW p \in Procs
    PROVE  /\ Handy(p) /\ Intends(p) /\ proc[p] \in Place
           /\ \A r \in Runs : runs[r] \in RunDir
           /\ None \notin Runs /\ None \notin Nat /\ None \notin Procs
BY ContinuationAssumption DEF Typed

LEMMA StepIsTyped ==
    ASSUME Typed, IndInv', HistoryOK', NEW p \in Procs, Ready(p), IntentsStay
    PROVE  Typed'
<1>1. ASSUME NEW q \in Procs \ {p} PROVE Handy(q)' /\ Intends(q)'
  <2>1. Handy(q) /\ Intends(q) /\ proc'[q] = proc[q]
    BY Found DEF Ready, Moved
  <2>2. Handy(q)'
    BY <2>1 DEF Handy
  <2>3. Intends(q)'
    BY <2>1 DEF Handy, Intends, IntentsStay, Continuing
  <2>. QED BY <2>2, <2>3
<1>. QED BY <1>1 DEF Typed, Ready, Moved, IntentsStay

\* A step of one process that leaves the records of the tasks alone.
LEMMA QuietStep ==
    ASSUME Typed, UNCHANGED vars, NEW p \in Procs, Ready(p), IntentsStay
    PROVE  Typed'
<1>1. [Next]_vars
  OBVIOUS
<1>2. IndInv' /\ HistoryOK'
  BY <1>1, StepKeeps, HistoryKeeps DEF Typed
<1>. QED BY <1>2, StepIsTyped

LEMMA RunsStay ==
    ASSUME Typed, UNCHANGED runs PROVE IntentsStay
BY DEF Typed, IntentsStay

LEMMA StoreStays ==
    ASSUME Typed, NEW r \in Runs, NEW d \in RunDir, Store(r, d),
           runs[r].successor # None => d.successor # None
    PROVE  IntentsStay
BY DEF Typed, IntentsStay, Store

LEMMA TurnsTo ==
    ASSUME Typed, NEW p \in Procs, NEW state \in Place, Become(p, state)
    PROVE  Moved(p) /\ proc'[p] = state
BY DEF Typed, Moved, Become

LEMMA Departs ==
    ASSUME Typed, NEW p \in Procs, Leave(p) PROVE Ready(p)
<1>1. proc[p] \in Place /\ None \notin Runs
  BY Found
<1>2. PICK state : state = IF proc[p].source = None THEN Idle
                           ELSE [Idle EXCEPT !.at = "leave", !.source = proc[p].source]
  OBVIOUS
<1>3. /\ state \in Place
      /\ \/ state.at = "idle"
         \/ state.at = "leave" /\ state.source \in Runs
  BY <1>1, <1>2 DEF Idle, Place, Places
<1>4. Moved(p) /\ proc'[p] = state
  BY <1>2, <1>3, TurnsTo DEF Leave
<1>. QED BY <1>3, <1>4 DEF Ready, Handy, Intends, Inside, Continuing, Recovering

\* On the way through a run, nothing more is needed in hand.
LEMMA Proceeds ==
    ASSUME Typed, NEW p \in Procs, proc[p].at # "idle", proc[p].at # "leave",
           NEW place \in {"open", "remove"} \cup Inside, Goto(p, place) \/ Opened(p, place),
           place = "open" => proc[p].at = "lock"
    PROVE  Ready(p)
<1>1. proc[p] \in Place /\ Handy(p)
  BY Found
<1>2. PICK state : Become(p, state) /\ (\/ state = [proc[p] EXCEPT !.at = place]
                                        \/ state = [proc[p] EXCEPT !.at = place, !.fresh = FALSE])
  BY DEF Goto, Opened
<1>3. state \in Place /\ state.at = place /\ state.run = proc[p].run /\ state.claim = proc[p].claim
  BY <1>1, <1>2 DEF Place, Places, Inside, Recovering
<1>4. proc[p].run \in Runs /\ (place = "open" => proc[p].claim \in Nat)
  BY <1>1 DEF Handy, Place, Places
<1>5. place \notin {"release", "claim", "leave", "bind", "lock"} \cup Continuing
  BY DEF Inside, Continuing
<1>6. Moved(p) /\ proc'[p] = state
  BY <1>2, <1>3, TurnsTo
<1>. QED BY <1>3, <1>4, <1>5, <1>6 DEF Ready, Handy, Intends

\* On the way through a continuation.
LEMMA Continues ==
    ASSUME Typed, NEW p \in Procs, proc[p].at \in Continuing,
           NEW place \in {"bind"} \cup Continuing, Goto(p, place),
           place = "bind" => proc[p].claim \in Nat,
           place \in {"release", "claim"} => runs'[proc[p].source].successor # None
    PROVE  Ready(p)
<1>1. proc[p] \in Place /\ proc[p].run \in Runs /\ proc[p].source \in Runs
  BY Found DEF Handy
<1>2. PICK state : state = [proc[p] EXCEPT !.at = place]
  OBVIOUS
<1>3. /\ state \in Place /\ state.at = place /\ state.run = proc[p].run
      /\ state.source = proc[p].source /\ state.claim = proc[p].claim
  BY <1>1, <1>2 DEF Place, Places
<1>4. Moved(p) /\ proc'[p] = state
  BY <1>2, <1>3, TurnsTo DEF Goto
<1>. QED BY <1>1, <1>3, <1>4 DEF Ready, Handy, Intends, Continuing, Inside

\* What is written to a run leaves its intent, but for RecordIntent.
LEMMA JournalsAreTyped ==
    ASSUME NEW d \in RunDir, NEW e,
           \/ e = [d EXCEPT !.journal = Append(@, "open")]
           \/ \E answer \in {"completed", "interrupted"} : e = [d EXCEPT !.journal[Len(d.journal)] = answer]
    PROVE  e \in RunDir /\ e.successor = d.successor
<1>1. PICK n \in Nat : d.journal \in [1 .. n -> Entry]
  BY DEF RunDir
<1>2. PICK journal : /\ e = [d EXCEPT !.journal = journal]
                     /\ \/ journal = Append(d.journal, "open")
                        \/ \E answer \in {"completed", "interrupted"} :
                              journal = [d.journal EXCEPT ![Len(d.journal)] = answer]
  OBVIOUS
<1>3. journal \in Seq(Entry)
  <2>1. CASE journal = Append(d.journal, "open")
    BY <2>1 DEF RunDir, Entry
  <2>2. ASSUME NEW answer \in {"completed", "interrupted"},
               journal = [d.journal EXCEPT ![Len(d.journal)] = answer]
        PROVE  journal \in Seq(Entry)
    <3>1. journal \in [1 .. n -> Entry]
      BY <1>1, <2>2 DEF Entry
    <3>. QED BY <3>1
  <2>. QED BY <1>2, <2>1, <2>2
<1>. QED BY <1>2, <1>3 DEF RunDir

LEMMA WorkIsTyped ==
    ASSUME Typed, NEW p \in Procs,
           \/ LockRun(p) \/ Open(p) \/ Dispatch(p) \/ RecordDispatch(p) \/ Stop(p) \/ Retain(p)
           \/ \E answer \in {"completed", "interrupted"} : Answer(p, answer)
           \/ Complete(p) \/ Settle(p) \/ UnlockRun(p) \/ ExamineLock(p) \/ RemoveLock(p)
    PROVE  Typed'
<1>0. PICK r : r = proc[p].run
  OBVIOUS
<1>1. /\ proc[p].at \in {"lock"} \cup Inside \cup Recovering
      /\ proc[p].at # "idle" /\ proc[p].at # "leave" /\ UNCHANGED vars
  BY DEF LockRun, Open, Dispatch, RecordDispatch, Stop, Retain, Answer, Complete, Settle, UnlockRun,
         ExamineLock, RemoveLock, Inside, Recovering, Unmoved
<1>2. /\ proc[p] \in Place /\ Handy(p) /\ r \in Runs /\ runs[r] \in RunDir
  BY <1>0, <1>1, Found DEF Handy
<1>3. Ready(p)
  <2>1. CASE Leave(p)
    BY <2>1, Departs
  <2>2. ASSUME NEW place \in {"open", "remove"} \cup Inside, Goto(p, place) \/ Opened(p, place),
               place = "open" => proc[p].at = "lock"
        PROVE  Ready(p)
    BY <1>1, <2>2, Proceeds
  <2>. QED BY <2>1, <2>2 DEF LockRun, Open, Dispatch, RecordDispatch, Stop, Retain, Answer, Complete, Settle,
              UnlockRun, ExamineLock, RemoveLock, Inside
<1>4. IntentsStay
  <2>1. CASE UNCHANGED runs
    BY <2>1, RunsStay
  <2>2. ASSUME NEW d \in RunDir, Store(r, d), d.successor = runs[r].successor PROVE IntentsStay
    BY <1>2, <2>2, StoreStays
  <2>3. CASE RecordDispatch(p) \/ \E answer \in {"completed", "interrupted"} : Answer(p, answer)
    <3>1. PICK d : /\ Store(r, d)
                   /\ \/ d = [runs[r] EXCEPT !.journal = Append(@, "open")]
                      \/ \E answer \in {"completed", "interrupted"} :
                            d = [runs[r] EXCEPT !.journal[Len(runs[r].journal)] = answer]
      BY <1>0, <2>3 DEF RecordDispatch, Answer, Run
    <3>. QED BY <1>2, <2>2, <3>1, JournalsAreTyped
  <2>4. CASE LockRun(p) \/ Retain(p) \/ UnlockRun(p) \/ RemoveLock(p)
    <3>1. CASE UNCHANGED runs
      BY <2>1, <3>1
    <3>2. CASE ~UNCHANGED runs
      <4>1. PICK d : /\ Store(r, d)
                     /\ \E x \in Procs \cup {None, Gone} :
                          \/ d = [runs[r] EXCEPT !.lock = x]
                          \/ d = [runs[r] EXCEPT !.status = "blocked", !.lock = x]
        BY <1>0, <1>2, <2>4, <3>2 DEF LockRun, Retain, UnlockRun, RemoveLock, Unlocked, Run, RunDir
      <4>2. d \in RunDir /\ d.successor = runs[r].successor
        BY <1>2, <4>1 DEF RunDir
      <4>. QED BY <2>2, <4>1, <4>2
    <3>. QED BY <3>1, <3>2
  <2>5. CASE Stop(p) \/ Complete(p)
    <3>1. PICK d : Store(r, d) /\ \E status \in Stopped \cup Ended : d = [runs[r] EXCEPT !.status = status]
      BY <1>0, <2>5 DEF Stop, Complete, Run, Ended
    <3>2. d \in RunDir /\ d.successor = runs[r].successor
      BY <1>2, <3>1 DEF RunDir, Stopped, Ended
    <3>. QED BY <2>2, <3>1, <3>2
  <2>6. CASE Open(p)
    <3>1. CASE UNCHANGED runs
      BY <2>1, <3>1
    <3>2. CASE ~UNCHANGED runs
      <4>1. proc[p].claim \in Nat
        BY <1>2, <2>6 DEF Open, Handy
      <4>2. PICK d : /\ Store(r, d)
                     /\ \/ d = [runs[r] EXCEPT !.claim = proc[p].claim, !.status = "running"]
                        \/ \E status \in {"running", "blocked"} : d = [runs[r] EXCEPT !.status = status]
        BY <1>0, <2>6, <3>2 DEF Open, Run
      <4>3. d \in RunDir /\ d.successor = runs[r].successor
        BY <1>2, <4>1, <4>2 DEF RunDir
      <4>. QED BY <2>2, <4>2, <4>3
    <3>. QED BY <3>1, <3>2
  <2>7. CASE Settle(p)
    <3>1. PICK d : Store(r, d) /\ (d = runs[r] \/ d = [runs[r] EXCEPT !.settlement = runs[r].journal])
      BY <1>0, <2>7 DEF Settle, Run
    <3>2. d \in RunDir /\ d.successor = runs[r].successor
      BY <1>2, <3>1 DEF RunDir
    <3>. QED BY <2>2, <3>1, <3>2
  <2>8. CASE Dispatch(p) \/ ExamineLock(p)
    BY <2>1, <2>8 DEF Dispatch, ExamineLock
  <2>. QED BY <2>3, <2>4, <2>5, <2>6, <2>7, <2>8
<1>. QED BY <1>1, <1>3, <1>4, QuietStep

LEMMA BindIsTyped ==
    ASSUME Typed, NEW p \in Procs, Bind(p) PROVE Typed'
<1>0. PICK r : r = proc[p].run
  OBVIOUS
<1>1. /\ proc[p] \in Place /\ Handy(p) /\ r \in Runs /\ runs[r] \in RunDir /\ proc[p].claim \in Nat
      /\ UNCHANGED vars
  BY <1>0, Found DEF Bind, Handy
<1>2. IntentsStay
  <2>1. PICK d : d = [runs[r] EXCEPT !.status = IF @ = "absent" THEN "empty" ELSE @]
    OBVIOUS
  <2>2. d \in RunDir /\ d.successor = runs[r].successor
    BY <1>1, <2>1 DEF RunDir
  <2>3. Store(r, d)
    BY <1>0, <1>1, <2>1 DEF Bind, Store, Typed
  <2>. QED BY <1>1, <2>2, <2>3, StoreStays
<1>3. Ready(p)
  <2>1. CASE Leave(p)
    BY <2>1, Departs
  <2>2. CASE ~Leave(p)
    <3>1. PICK state : state = [proc[p] EXCEPT !.at = "lock", !.fresh = (binding[proc[p].claim] = None)]
      OBVIOUS
    <3>2. state \in Place /\ state.at = "lock" /\ state.run = r /\ state.claim = proc[p].claim
      BY <1>0, <1>1, <3>1 DEF Place, Places
    <3>3. Moved(p) /\ proc'[p] = state
      BY <2>2, <3>1, <3>2, TurnsTo DEF Bind
    <3>. QED BY <1>1, <3>2, <3>3 DEF Ready, Handy, Intends, Continuing
  <2>. QED BY <2>1, <2>2
<1>. QED BY <1>1, <1>2, <1>3, QuietStep

\* The steps of a continuation that operate on no task.
LEMMA ContinuingIsTyped ==
    ASSUME Typed, NEW p \in Procs,
           ReadIntent(p) \/ RecordIntent(p) \/ InspectAgain(p) \/ Load(p) \/ Refused(p)
    PROVE  Typed'
<1>0. PICK s : s = proc[p].source
  OBVIOUS
<1>1. proc[p].at \in Continuing /\ UNCHANGED vars
  BY DEF ReadIntent, RecordIntent, InspectAgain, Load, Refused, Unmoved, Continuing
<1>2. proc[p] \in Place /\ s \in Runs /\ runs[s] \in RunDir /\ proc[p].run \in Runs
  BY <1>0, <1>1, Found DEF Handy
<1>3. CASE UNCHANGED runs /\ (RecordIntent(p) => Leave(p))
  <2>1. ASSUME Leave(p) PROVE Ready(p)
    BY <2>1, Departs
  <2>2. ASSUME ReadIntent(p), ~Leave(p) PROVE Ready(p)
    <3>1. PICK place \in {"release", "record"} :
             Goto(p, place) /\ (place = "release" => runs'[s].successor # None)
      BY <1>0, <1>3, <2>2 DEF ReadIntent, Source
    <3>. QED BY <1>0, <1>1, <3>1, Continues DEF Continuing
  <2>3. ASSUME InspectAgain(p), ~Leave(p) PROVE Ready(p)
    BY <1>1, <2>3, Continues DEF InspectAgain, Continuing
  <2>4. ASSUME Load(p), ~Leave(p) PROVE Ready(p)
    <3>1. Standing(proc[p].claim) /\ Goto(p, "bind")
      BY <2>4 DEF Load
    <3>2. proc[p].claim \in Nat
      <4>1. items[Job].claim.id \in Nat /\ items[Job].claim.id = proc[p].claim
        BY <3>1, ContinuationAssumption DEF Standing, Typed, HistoryOK, Trail, IndInv, ItemsOK, Item, NoItem
      <4>. QED BY <4>1
    <3>. QED BY <1>1, <3>1, <3>2, Continues
  <2>5. Ready(p)
    BY <1>3, <2>1, <2>2, <2>3, <2>4 DEF ReadIntent, Refused
  <2>. QED BY <1>1, <1>3, <2>5, RunsStay, QuietStep
<1>4. CASE RecordIntent(p) /\ items[Job].claim # None /\ Source(p).successor = None
  <2>1. /\ RecordIntent(p) /\ items[Job].claim # None /\ Goto(p, "release")
        /\ Store(s, [runs[s] EXCEPT !.successor =
              [run |-> proc[p].run, version |-> items[Job].version,
               claim |-> items[Job].claim.id, base |-> head]])
    BY <1>0, <1>4 DEF RecordIntent, Source
  <2>2. PICK intent : intent = [run |-> proc[p].run, version |-> items[Job].version,
                                claim |-> items[Job].claim.id, base |-> head]
    OBVIOUS
  <2>3. intent \in Intent
    <3>1. items[Job].version \in Nat /\ items[Job].claim \in Claimed
      BY <2>1, ContinuationAssumption DEF Typed, IndInv, ItemsOK, Item, NoItem
    <3>2. head \in Revisions
      BY CheckoutAssumption DEF Typed, IndInv, CheckoutTypeOK, Revisions
    <3>. QED BY <1>2, <2>2, <3>1, <3>2 DEF Intent, Claimed
  <2>4. PICK d : d = [runs[s] EXCEPT !.successor = intent]
    OBVIOUS
  <2>5. d \in RunDir /\ d.successor = intent /\ intent # None
    BY <1>2, <2>3, <2>4, ContinuationAssumption DEF RunDir
  <2>6. Store(s, d)
    BY <2>1, <2>2, <2>4
  <2>7. IntentsStay /\ runs'[s].successor # None
    BY <1>2, <2>5, <2>6, StoreStays DEF Store, Typed
  <2>8. Ready(p)
    BY <1>0, <1>1, <2>1, <2>7, Continues DEF Continuing
  <2>. QED BY <1>1, <2>7, <2>8, QuietStep
<1>. QED BY <1>3, <1>4 DEF ReadIntent, RecordIntent, InspectAgain, Load, Refused

\* Those that do: the request follows from the intent.
LEMMA TaskStepIsTyped ==
    ASSUME Typed, NEW p \in Procs, ReleaseClaim(p) \/ ClaimAgain(p) PROVE Typed'
<1>0. PICK s : s = proc[p].source
  OBVIOUS
<1>1. /\ proc[p].at \in Continuing /\ UNCHANGED runs /\ proc[p] \in Place /\ Job \in Tasks
      /\ s \in Runs /\ runs[s] \in RunDir /\ runs[s].successor # None /\ proc[p].run \in Runs
  BY <1>0, Found, ContinuationAssumption DEF ReleaseClaim, ClaimAgain, Handy, Intends, Continuing
<1>2. IndInv' /\ HistoryOK'
  <2>1. CASE UNCHANGED vars
    <3>1. [Next]_vars
      BY <2>1
    <3>. QED BY <3>1, StepKeeps, HistoryKeeps DEF Typed
  <2>2. CASE Release(Job, ReleaseRequest(s))
    <3>1. ReleaseRequest(s) \in Request
      BY <1>1, <2>2, ReleaseAsked DEF RunDir, Typed
    <3>. QED BY <1>1, <2>2, <3>1, ChangeKeeps DEF Changes, Typed
  <2>3. CASE Claim(Job, ClaimRequest(s))
    <3>1. ClaimRequest(s) \in Request
      BY <1>1, <2>3, ClaimAsked DEF RunDir, Typed
    <3>. QED BY <1>1, <2>3, <3>1, ChangeKeeps DEF Changes, Typed
  <2>. QED BY <1>0, <2>1, <2>2, <2>3 DEF ReleaseClaim, ClaimAgain
<1>3. CASE ReleaseClaim(p)
  <2>1. Goto(p, "claim") /\ runs'[s].successor # None
    BY <1>1, <1>3 DEF ReleaseClaim
  <2>2. Ready(p)
    BY <1>0, <1>1, <2>1, Continues DEF Continuing
  <2>. QED BY <1>1, <1>2, <2>2, RunsStay, StepIsTyped
<1>4. CASE ClaimAgain(p)
  <2>1. PICK state : state = [proc[p] EXCEPT !.at = "inspect",
                    !.claim = IF items'[Job].claim = None THEN None ELSE items'[Job].claim.id]
    OBVIOUS
  <2>2. state \in Place /\ state.at = "inspect" /\ state.run = proc[p].run /\ state.source = s
    <3>1. items'[Job].claim = None \/ items'[Job].claim.id \in Nat
      BY <1>2, ContinuationAssumption DEF IndInv, ItemsOK, Item, NoItem, Claimed
    <3>. QED BY <1>0, <1>1, <2>1, <3>1 DEF Place, Places, Continuing
  <2>3. Moved(p) /\ proc'[p] = state
    BY <1>4, <2>1, <2>2, TurnsTo DEF ClaimAgain
  <2>4. Ready(p)
    BY <1>1, <2>2, <2>3 DEF Ready, Handy, Intends
  <2>. QED BY <1>1, <1>2, <2>4, RunsStay, StepIsTyped
<1>. QED BY <1>3, <1>4

LEMMA ByHandIsTyped ==
    ASSUME IndInv, HistoryOK, AroundTheRuns PROVE IndInv' /\ HistoryOK'
<1>1. PICK t \in Tasks : ByHand(t)
  BY DEF AroundTheRuns
<1>2. PICK req \in Request : Changes(t, req)
  BY <1>1, HandAsked
<1>. QED BY <1>2, ChangeKeeps

LEMMA TypedAtFirst ==
    ASSUME ContinuationInit PROVE Typed
<1>1. IndInv /\ HistoryOK
  <2>1. HistoryOK
    BY DEF ContinuationInit, Init, NoItem, HistoryOK, Kept, Trail
  <2>. QED BY <2>1, InitEstablishes DEF ContinuationInit
<1>2. NoRun \in RunDir /\ Idle \in Place
  <2>1. <<>> \in Seq(Entry)
    OBVIOUS
  <2>. QED BY <2>1 DEF NoRun, RunDir, Idle, Place, Places
<1>3. runs \in [Runs -> RunDir] /\ proc \in [Procs -> Place]
  BY <1>2 DEF ContinuationInit
<1>4. \A p \in Procs : Handy(p) /\ Intends(p)
  BY DEF ContinuationInit, Idle, Handy, Intends, Inside, Continuing, Recovering
<1>. QED BY <1>1, <1>3, <1>4 DEF Typed

\* The calls, the deaths, and the lock of the source left.
LEMMA CallIsTyped ==
    ASSUME Typed, NEW p \in Procs, NEW r \in Runs,
           \/ Recover(p, r) \/ \E c \in 1 .. items[Job].version : Execute(p, r, c)
           \/ \E s \in Runs : ContinueWorkflow(p, s, r)
    PROVE  Typed'
<1>1. UNCHANGED vars /\ Version \in Nat
  BY VersionIsNat DEF Recover, Execute, ContinueWorkflow, Unmoved, Typed
<1>2. CASE Recover(p, r)
  <2>1. PICK state : state = [Idle EXCEPT !.at = "examine", !.run = r]
    OBVIOUS
  <2>2. state \in Place /\ state.at = "examine" /\ state.run = r
    BY <2>1 DEF Idle, Place, Places, Recovering
  <2>3. Moved(p) /\ proc'[p] = state
    BY <1>2, <2>1, <2>2, TurnsTo DEF Recover
  <2>4. Ready(p) /\ UNCHANGED runs
    BY <1>2, <2>2, <2>3 DEF Ready, Handy, Intends, Continuing, Inside, Recover
  <2>. QED BY <1>1, <2>4, RunsStay, QuietStep
<1>3. ASSUME NEW c \in 1 .. items[Job].version, Execute(p, r, c) PROVE Typed'
  <2>1. PICK state : state = [Idle EXCEPT !.at = "bind", !.run = r, !.claim = c]
    OBVIOUS
  <2>2. c \in Nat
    BY <1>1 DEF Version
  <2>3. state \in Place /\ state.at = "bind" /\ state.run = r /\ state.claim = c
    BY <2>1, <2>2 DEF Idle, Place, Places
  <2>4. Moved(p) /\ proc'[p] = state
    BY <1>3, <2>1, <2>3, TurnsTo DEF Execute
  <2>5. Ready(p) /\ UNCHANGED runs
    BY <1>3, <2>2, <2>3, <2>4 DEF Ready, Handy, Intends, Continuing, Execute
  <2>. QED BY <1>1, <2>5, RunsStay, QuietStep
<1>4. ASSUME NEW s \in Runs, ContinueWorkflow(p, s, r) PROVE Typed'
  <2>1. PICK state : state = [Idle EXCEPT !.at = "intent", !.run = r, !.source = s]
    OBVIOUS
  <2>2. state \in Place /\ state.at = "intent" /\ state.run = r /\ state.source = s
    BY <2>1 DEF Idle, Place, Places, Continuing
  <2>3. Moved(p) /\ proc'[p] = state
    BY <1>4, <2>1, <2>2, TurnsTo DEF ContinueWorkflow
  <2>4. Ready(p)
    BY <2>2, <2>3 DEF Ready, Handy, Intends
  <2>5. PICK d : d = [runs[s] EXCEPT !.lock = p]
    OBVIOUS
  <2>6. runs[s] \in RunDir /\ Store(s, d)
    BY <1>4, <2>5, Found DEF ContinueWorkflow
  <2>7. d \in RunDir /\ d.successor = runs[s].successor
    BY <2>5, <2>6 DEF RunDir
  <2>8. IntentsStay
    BY <2>6, <2>7, StoreStays
  <2>. QED BY <1>1, <2>4, <2>8, QuietStep
<1>. QED BY <1>2, <1>3, <1>4

LEMMA EndIsTyped ==
    ASSUME Typed, NEW p \in Procs, Crash(p) \/ UnlockSource(p) PROVE Typed'
<1>1. UNCHANGED vars /\ Become(p, Idle) /\ Idle \in Place
  BY DEF Crash, UnlockSource, Unmoved, Idle, Place, Places
<1>2. Moved(p) /\ proc'[p] = Idle
  BY <1>1, TurnsTo
<1>3. Ready(p)
  BY <1>2 DEF Ready, Idle, Handy, Intends, Inside, Continuing, Recovering
<1>4. CASE Crash(p)
  <2>1. ASSUME NEW r \in Runs
        PROVE  runs'[r] \in RunDir /\ runs'[r].successor = runs[r].successor
    <3>1. PICK d : d = [runs[r] EXCEPT !.lock = IF @ = p THEN Gone ELSE @]
      OBVIOUS
    <3>2. runs[r] \in RunDir /\ runs'[r] = d
      BY <1>4, <3>1, Found DEF Crash
    <3>. QED BY <3>1, <3>2 DEF RunDir
  <2>2. runs' = [r \in Runs |-> runs'[r]]
    BY <1>4 DEF Crash
  <2>3. IntentsStay
    BY <2>1, <2>2 DEF IntentsStay
  <2>. QED BY <1>1, <1>3, <2>3, QuietStep
<1>5. CASE UnlockSource(p)
  <2>1. PICK s : s = proc[p].source
    OBVIOUS
  <2>2. PICK d : d = [runs[s] EXCEPT !.lock = IF @ = p THEN None ELSE @]
    OBVIOUS
  <2>3. s \in Runs /\ runs[s] \in RunDir /\ Store(s, d)
    BY <1>5, <2>1, <2>2, Found DEF UnlockSource, Unlocked, Source, Handy
  <2>4. d \in RunDir /\ d.successor = runs[s].successor
    BY <2>2, <2>3 DEF RunDir
  <2>5. IntentsStay
    BY <2>3, <2>4, StoreStays
  <2>. QED BY <1>1, <1>3, <2>5, QuietStep
<1>. QED BY <1>4, <1>5

LEMMA StepStaysTyped ==
    ASSUME Typed, [ContinuationNext]_allVars PROVE Typed'
<1>1. ASSUME NEW p \in Procs, ProcStep(p) PROVE Typed'
  BY <1>1, WorkIsTyped, BindIsTyped, ContinuingIsTyped, TaskStepIsTyped, EndIsTyped DEF ProcStep
<1>2. ASSUME NEW p \in Procs, Crash(p) PROVE Typed'
  BY <1>2, EndIsTyped
<1>3. ASSUME NEW p \in Procs, NEW r \in Runs,
             \/ Recover(p, r) \/ \E c \in 1 .. items[Job].version : Execute(p, r, c)
             \/ \E s \in Runs : ContinueWorkflow(p, s, r)
      PROVE  Typed'
  BY <1>3, CallIsTyped
<1>4. CASE AroundTheRuns
  <2>1. IndInv' /\ HistoryOK'
    BY <1>4, ByHandIsTyped DEF Typed
  <2>2. UNCHANGED <<runs, proc>>
    BY <1>4 DEF AroundTheRuns, runVars
  <2>. QED BY <2>1, <2>2 DEF Typed, Handy, Intends
<1>5. CASE UNCHANGED allVars
  <2>1. [Next]_vars /\ UNCHANGED <<runs, proc>>
    BY <1>5 DEF allVars, runVars
  <2>2. IndInv' /\ HistoryOK'
    BY <2>1, StepKeeps, HistoryKeeps DEF Typed
  <2>. QED BY <2>1, <2>2 DEF Typed, Handy, Intends
<1>. QED BY <1>1, <1>2, <1>3, <1>4, <1>5 DEF ContinuationNext

-----------------------------------------------------------------------------
(* The system.                                                               *)

LEMMA BeginsContinued ==
    ASSUME SoleRecoverer, ContinuationInit PROVE Continued
<1>1. IndInv /\ HistoryOK /\ Shaped
  BY TypedAtFirst DEF Typed, Shaped, ContinuationInit
<1>4. Applied = {}
  BY ContinuationAssumption DEF ContinuationInit, Init, NoItem, OperationsOf, Applied
<1>5. \A p \in Procs : Locked(p) /\ Guided(p)
  BY DEF ContinuationInit, Idle, Locked, Handy, Guided, Inside, Continuing, Recovering
<1>6. \A r \in Runs : OnRecord(r)
  BY <1>4 DEF ContinuationInit, NoRun, OnRecord
<1>. QED BY <1>1, <1>5, <1>6 DEF Continued, Orderly, ContinuationInit

\* A step that leaves the records of the tasks alone leaves their invariants alone.
LEMMA TasksStay ==
    ASSUME Continued, UNCHANGED vars PROVE IndInv' /\ HistoryOK'
<1>1. [Next]_vars
  OBVIOUS
<1>. QED BY <1>1, StepKeeps, HistoryKeeps DEF Continued

LEMMA ProcStepKeeps ==
    ASSUME Continued, NEW p \in Procs, ProcStep(p)
    PROVE  Continued' /\ Steady
<1>1. CASE ReleaseClaim(p)
  BY <1>1, ReleaseClaimKeeps DEF Continued
<1>2. CASE ClaimAgain(p)
  BY <1>2, ClaimAgainKeeps DEF Continued
<1>3. CASE Bind(p) \/ LockRun(p) \/ Open(p)
  <2>1. UNCHANGED vars
    BY <1>3 DEF Bind, LockRun, Open, Unmoved
  <2>. QED BY <1>3, <2>1, TasksStay, BindKeeps, LockRunKeeps, OpenKeeps DEF Continued
<1>4. CASE Dispatch(p) \/ RecordDispatch(p) \/ Stop(p) \/ Complete(p) \/ \E answer \in {"completed", "interrupted"} : Answer(p, answer)
  <2>1. UNCHANGED vars
    BY <1>4 DEF Dispatch, RecordDispatch, Stop, Complete, Answer, Unmoved
  <2>. QED BY <1>4, <2>1, TasksStay, DispatchKeeps, RecordDispatchKeeps, CloseRunKeeps, AnswerKeeps DEF Continued
<1>5. CASE Settle(p) \/ Retain(p) \/ UnlockRun(p) \/ UnlockSource(p)
  <2>1. UNCHANGED vars
    BY <1>5 DEF Settle, Retain, UnlockRun, UnlockSource, Unmoved
  <2>. QED BY <1>5, <2>1, TasksStay, SettleKeeps, LeaveRunKeeps, UnlockSourceKeeps DEF Continued
<1>6. CASE ReadIntent(p) \/ RecordIntent(p) \/ InspectAgain(p) \/ Load(p) \/ Refused(p)
  <2>1. UNCHANGED vars
    BY <1>6 DEF ReadIntent, RecordIntent, InspectAgain, Load, Refused, Unmoved
  <2>. QED BY <1>6, <2>1, TasksStay, ReadIntentKeeps, RecordIntentKeeps, InspectAgainKeeps, LoadKeeps,
              RefusedKeeps DEF Continued
<1>7. CASE ExamineLock(p) \/ RemoveLock(p)
  <2>1. UNCHANGED vars
    BY <1>7 DEF ExamineLock, RemoveLock, Unmoved
  <2>. QED BY <1>7, <2>1, TasksStay, ExamineLockKeeps, RemoveLockKeeps DEF Continued
<1>. QED BY <1>1, <1>2, <1>3, <1>4, <1>5, <1>6, <1>7 DEF ProcStep

LEMMA StepContinues ==
    ASSUME Continued, [ContinuationNext]_allVars
    PROVE  Continued' /\ Steady
<1>1. ASSUME NEW p \in Procs, ProcStep(p) PROVE Continued' /\ Steady
  BY <1>1, ProcStepKeeps
<1>2. ASSUME NEW p \in Procs, Crash(p) PROVE Continued' /\ Steady
  <2>1. UNCHANGED vars
    BY <1>2 DEF Crash, Unmoved
  <2>. QED BY <1>2, <2>1, TasksStay, CrashKeeps DEF Continued
<1>3. ASSUME NEW p \in Procs, NEW r \in Runs, NEW c \in 1 .. items[Job].version, Execute(p, r, c)
      PROVE  Continued' /\ Steady
  <2>1. UNCHANGED vars
    BY <1>3 DEF Execute, Unmoved
  <2>. QED BY <1>3, <2>1, TasksStay, ExecuteKeeps DEF Continued, Version
<1>4. ASSUME NEW p \in Procs, NEW r \in Runs, NEW s \in Runs, ContinueWorkflow(p, s, r)
      PROVE  Continued' /\ Steady
  <2>1. UNCHANGED vars
    BY <1>4 DEF ContinueWorkflow, Unmoved
  <2>. QED BY <1>4, <2>1, TasksStay, ContinueWorkflowKeeps DEF Continued
<1>5. ASSUME NEW p \in Procs, NEW r \in Runs, Recover(p, r) PROVE Continued' /\ Steady
  <2>1. UNCHANGED vars
    BY <1>5 DEF Recover, Unmoved
  <2>. QED BY <1>5, <2>1, TasksStay, RecoverKeeps DEF Continued
<1>6. CASE AroundTheRuns
  BY <1>6, ByHandKeeps DEF Continued
<1>7. CASE UNCHANGED allVars
  <2>1. UNCHANGED vars /\ UNCHANGED <<runs, proc, begun>> /\ items' = items
    BY <1>7 DEF allVars, runVars, vars, lifecycleVars
  <2>2. Applied' = Applied /\ Version' = Version /\ Version \in Nat
    BY <2>1, VersionIsNat DEF Applied, Version, Continued
  <2>3. \A r \in Runs : Fixed(r) /\ OnRecord(r)'
    BY <2>1, <2>2 DEF Fixed, OnRecord, Continued, Orderly
  <2>4. Orderly' /\ Steady
    BY <2>1, <2>2, <2>3, NobodysStep DEF Grows
  <2>. QED BY <2>1, <2>4, TasksStay DEF Continued
<1>. QED BY <1>1, <1>2, <1>3, <1>4, <1>5, <1>6, <1>7 DEF ContinuationNext

\* The release of a continuation lets no two builders into one write root, however recoveries overlap:
\* it rests on the task operations, not on the lock of the run.
THEOREM ContinuedBuildersAreDisjoint == ContinuationSpec => []BuildersDisjoint
<1>1. ContinuationInit => Typed
  BY TypedAtFirst
<1>2. Typed /\ [ContinuationNext]_allVars => Typed'
  BY StepStaysTyped
<1>3. Typed => BuildersDisjoint
  BY DEF Typed, IndInv
<1>. QED BY <1>1, <1>2, <1>3, PTL DEF ContinuationSpec

\* Where recoveries do not overlap, the invariant holds in every reachable state, whoever dies, repeats
\* a continuation or operates on the task by hand: what a process at work in a run saw of it stays so.
THEOREM ContinuationInductive ==
    ASSUME SoleRecoverer PROVE ContinuationSpec => []Continued
<1>1. ContinuationInit => Continued
  BY BeginsContinued
<1>2. Continued /\ [ContinuationNext]_allVars => Continued'
  BY StepContinues
<1>. QED BY <1>1, <1>2, PTL DEF ContinuationSpec

\* A run begins as a continuation only of one that rests: settled, answered, with a receipt about the
\* journal it still has, where recoveries do not overlap.
THEOREM ContinuesFromRest ==
    ASSUME SoleRecoverer PROVE ContinuationSpec => []ContinuedFromRest
<1>1. Continued => ContinuedFromRest
  <2>1. SUFFICES ASSUME Continued, NEW s \in Runs, NEW r \in Runs, <<s, r>> \in begun
                 PROVE  Rests(s, r) /\ OnRecord(s)
    BY DEF ContinuedFromRest, Rests, OnRecord
  <2>. QED BY <2>1 DEF Continued, Orderly
<1>. QED BY <1>1, ContinuationInductive, PTL

\* Nothing is dispatched or answered in a run once a continuation has given up its claim, where
\* recoveries do not overlap.
THEOREM SourcesStandStill ==
    ASSUME SoleRecoverer PROVE ContinuationSpec => SourceStandsStill
<1>1. ASSUME Continued, [ContinuationNext]_allVars
      PROVE  [\A s \in Runs : GivenUp(s) => runs'[s].journal = runs[s].journal]_allVars
  <2>1. Steady
    BY <1>1, StepContinues
  <2>2. ASSUME NEW s \in Runs, GivenUp(s) PROVE <<s, 1>> \in Applied
    BY <2>2 DEF GivenUp, Replayed, ReleaseRequest, Ask, Applied
  <2>. QED BY <2>1, <2>2 DEF Steady, Fixed
<1>. QED BY <1>1, ContinuationInductive, PTL DEF ContinuationSpec, SourceStandsStill
=============================================================================
