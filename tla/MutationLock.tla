---------------------------- MODULE MutationLock ----------------------------
(***************************************************************************)
(* withProjectMutationLock of src/project.mjs: one lock file per checkout, *)
(* created exclusively, taken over when its age exceeds five minutes,      *)
(* removed by name when the operation ends.  The operation is what every   *)
(* caller does with it: read a record, compute, write the record back.     *)
(*                                                                         *)
(* Time is the age of the lock file in ticks, saturated just past          *)
(* StaleAfter: nothing reads the clock but the staleness test.             *)
(***************************************************************************)
EXTENDS Naturals, FiniteSets

CONSTANTS
    Processes,     \* the command line processes working in the checkout
    StaleAfter,    \* 300 s, in ticks
    MaxAttempts,   \* 40 attempts to create the file
    MaxCrashes,    \* bound: processes that die, and lock files that cannot be written to
    SlowOperations,\* whether an operation may outlast StaleAfter
    Nobody

ASSUME LockAssumption ==
    /\ StaleAfter \in Nat /\ MaxAttempts \in Nat /\ MaxCrashes \in Nat
    /\ SlowOperations \in BOOLEAN
    /\ Nobody \notin Processes

VARIABLES
    owner,     \* who created the lock file, Nobody when there is none
    age,       \* its age
    pc,        \* where each process is in withProjectMutationLock
    attempt,   \* its loop counter
    current,   \* the processes whose read of the record is still up to date
    lost,      \* history: some write was computed from an outdated read
    grewStale, \* history: some lock file outlived StaleAfter
    crashes    \* how many of those happened

vars == <<owner, age, pc, attempt, current, lost, grewStale, crashes>>

Places == {"idle", "open", "exists", "stale", "wait", "enter", "read", "close", "denied", "dead"}

\* Between the creation of the file and its removal.
Holders == {p \in Processes : pc[p] \in {"enter", "read", "close"}}

Init ==
    /\ owner = Nobody
    /\ age = 0
    /\ pc = [p \in Processes |-> "idle"]
    /\ attempt = [p \in Processes |-> 0]
    /\ current = {}
    /\ lost = FALSE
    /\ grewStale = FALSE
    /\ crashes = 0

Goto(p, from, to) == pc[p] = from /\ pc' = [pc EXCEPT ![p] = to]

Call(p) ==
    /\ Goto(p, "idle", "open")
    /\ attempt' = [attempt EXCEPT ![p] = 0]
    /\ UNCHANGED <<owner, age, current, lost, grewStale, crashes>>

OpenAnyway(p) ==    \* mutant: the file is opened without the exclusive flag
    /\ attempt[p] < MaxAttempts
    /\ Goto(p, "open", "enter")
    /\ owner' = p /\ age' = 0
    /\ UNCHANGED <<attempt, current, lost, grewStale, crashes>>

\* fs.open(lockPath, "wx"): create it, or learn that it exists.
Open(p) ==
    /\ attempt[p] < MaxAttempts
    /\ IF owner = Nobody
       THEN /\ Goto(p, "open", "enter")
            /\ owner' = p /\ age' = 0
       ELSE /\ Goto(p, "open", "exists")
            /\ UNCHANGED <<owner, age>>
    /\ UNCHANGED <<attempt, current, lost, grewStale, crashes>>

RetryForever(p) ==    \* mutant: running out of attempts starts over
    /\ attempt[p] = MaxAttempts
    /\ pc[p] = "open"
    /\ attempt' = [attempt EXCEPT ![p] = 0]
    /\ UNCHANGED <<owner, age, pc, current, lost, grewStale, crashes>>

\* "Another Temple mutation is still active"
GiveUp(p) ==
    /\ attempt[p] = MaxAttempts
    /\ Goto(p, "open", "denied")
    /\ UNCHANGED <<owner, age, attempt, current, lost, grewStale, crashes>>

\* fs.stat: the file in question may be gone, or another one, by now.
Stat(p) ==
    /\ Goto(p, "exists", IF owner # Nobody /\ age > StaleAfter THEN "stale" ELSE "wait")
    /\ UNCHANGED <<owner, age, attempt, current, lost, grewStale, crashes>>

NextAttempt(p) == attempt' = [attempt EXCEPT ![p] = @ + 1]

\* fs.unlink of the name, whatever file now bears it.
RemoveStale(p) ==
    /\ Goto(p, "stale", "open")
    /\ owner' = Nobody /\ age' = 0
    /\ NextAttempt(p)
    /\ UNCHANGED <<current, lost, grewStale, crashes>>

Wait(p) ==
    /\ Goto(p, "wait", "open")
    /\ NextAttempt(p)
    /\ UNCHANGED <<owner, age, current, lost, grewStale, crashes>>

\* Writing the process id into the new file fails: the error leaves the
\* function ahead of its try block, and the file stays.
HeaderFails(p) ==
    /\ crashes < MaxCrashes
    /\ Goto(p, "enter", "denied")
    /\ crashes' = crashes + 1
    /\ UNCHANGED <<owner, age, attempt, current, lost, grewStale>>

\* The operation reads what it is about to change.
Read(p) ==
    /\ Goto(p, "enter", "read")
    /\ current' = current \cup {p}
    /\ UNCHANGED <<owner, age, attempt, lost, grewStale, crashes>>

\* It writes the result: every other read is outdated from here on.
Write(p) ==
    /\ Goto(p, "read", "close")
    /\ lost' = (lost \/ p \notin current)
    /\ current' = {}
    /\ UNCHANGED <<owner, age, attempt, grewStale, crashes>>

\* A guard throws, before or after the read.
Throw(p) ==
    /\ pc[p] \in {"enter", "read"} /\ Goto(p, pc[p], "close")
    /\ current' = current \ {p}
    /\ UNCHANGED <<owner, age, attempt, lost, grewStale, crashes>>

\* finally: close the handle and unlink the name, whatever file now bears it.
Close(p) ==
    /\ Goto(p, "close", "idle")
    /\ owner' = Nobody /\ age' = 0
    /\ UNCHANGED <<attempt, current, lost, grewStale, crashes>>

LeaveUnlinking(p) ==    \* mutant: a caller that was denied also removes the file
    /\ Goto(p, "denied", "idle")
    /\ owner' = Nobody /\ age' = 0
    /\ UNCHANGED <<attempt, current, lost, grewStale, crashes>>

\* The caller of a denied operation is done.
Leave(p) ==
    /\ Goto(p, "denied", "idle")
    /\ UNCHANGED <<owner, age, attempt, current, lost, grewStale, crashes>>

\* The process dies; its lock file stays.
Crash(p) ==
    /\ crashes < MaxCrashes
    /\ pc[p] \notin {"idle", "dead"} /\ Goto(p, pc[p], "dead")
    /\ crashes' = crashes + 1
    /\ current' = current \ {p}
    /\ UNCHANGED <<owner, age, attempt, lost, grewStale>>

Restart(p) ==
    /\ Goto(p, "dead", "idle")
    /\ UNCHANGED <<owner, age, attempt, current, lost, grewStale, crashes>>

\* Time passes.  Unless SlowOperations, only a dead process leaves a lock file
\* long enough to grow stale.
Tick ==
    /\ owner # Nobody /\ age <= StaleAfter
    /\ age = StaleAfter /\ ~SlowOperations => owner \notin Holders
    /\ age' = age + 1
    /\ grewStale' = (grewStale \/ age' > StaleAfter)
    /\ UNCHANGED <<owner, pc, attempt, current, lost, crashes>>

\* The steps of the loop and of the finally block, in the order of the code.
Proceed(p) ==
    \/ Open(p) \/ GiveUp(p) \/ Stat(p) \/ RemoveStale(p) \/ Wait(p)
    \/ Read(p) \/ Write(p) \/ Throw(p) \/ Close(p) \/ Leave(p)

Next ==
    \/ \E p \in Processes : Call(p) \/ Proceed(p) \/ HeaderFails(p) \/ Crash(p) \/ Restart(p)
    \/ Tick

Spec == Init /\ [][Next]_vars

\* A live process keeps executing its call: no step of it waits for another process.
FairSpec == Spec /\ \A p \in Processes : WF_vars(Proceed(p))

-----------------------------------------------------------------------------
\* The type of every variable.
TypeOK ==
    /\ owner \in Processes \cup {Nobody}
    /\ age \in 0..StaleAfter + 1
    /\ pc \in [Processes -> Places]
    /\ attempt \in [Processes -> 0..MaxAttempts]
    /\ current \subseteq Processes
    /\ lost \in BOOLEAN /\ grewStale \in BOOLEAN
    /\ crashes \in 0..MaxCrashes

AtMostOne(S) == \A p, q \in S : p = q

\* What the callers rely on, as the documentation states it: operations exclude
\* each other.  It does not hold once a lock file grows stale.
Exclusive == AtMostOne(Holders)

\* As long as no lock file outlived StaleAfter, operations exclude each other
\* and each removes only the lock file it created, through any waiting, giving
\* up, throwing and crashing of the others.
ExclusiveWhileFresh ==
    ~grewStale => AtMostOne(Holders) /\ \A p \in Holders : owner = p

\* As long as no lock file outlived StaleAfter, no operation writes a record it
\* computed from a read that another operation has overtaken.
NoLostUpdate == ~grewStale => ~lost

\* Every call ends, in its operation, a refusal or the death of its process:
\* forty attempts bound the wait even for a lock nobody will release.
EveryCallEnds ==
    \A p \in Processes : pc[p] = "open" ~> pc[p] \in {"idle", "dead"}
=============================================================================
