------------------------- MODULE MutationLockProofs -------------------------
(***************************************************************************)
(* Proofs about MutationLock, for any number of processes, attempts and    *)
(* crashes and any age limit.                                              *)
(*                                                                         *)
(* Only a stale lock file is ever taken over, so as long as none grew      *)
(* stale the file names the one process inside (Fresh); from there a       *)
(* process that read the record is the last one that did (ReadsCurrent).   *)
(***************************************************************************)
EXTENDS MutationLock, TLAPS

\* No lock file outlived StaleAfter: nobody is about to remove one, and the file
\* belongs to whoever is inside.
Fresh ==
    ~grewStale =>
        /\ age <= StaleAfter
        /\ \A p \in Processes : pc[p] # "stale"
        /\ \A p \in Holders : owner = p

\* Nor was any read overtaken by a write.
ReadsCurrent ==
    ~grewStale =>
        /\ ~lost
        /\ \A p \in Processes : pc[p] = "read" => p \in current

\* An attempt under way is one of the MaxAttempts.
Counted ==
    \A p \in Processes :
        pc[p] \in {"exists", "stale", "wait"} => attempt[p] < MaxAttempts

IndInv == TypeOK /\ Counted /\ Fresh /\ ReadsCurrent

-----------------------------------------------------------------------------
\* The initial state satisfies the invariant.
LEMMA InitEstablishes == Init => IndInv
<1> SUFFICES ASSUME Init PROVE IndInv
  OBVIOUS
<1>0. /\ 0 \in 0..StaleAfter + 1 /\ 0 \in 0..MaxAttempts /\ 0 \in 0..MaxCrashes
  BY LockAssumption
<1>1. TypeOK
  BY <1>0 DEF Init, TypeOK, Places
<1>2. Counted /\ Fresh /\ ReadsCurrent
  BY LockAssumption DEF Init, Counted, Fresh, ReadsCurrent, Holders
<1>. QED BY <1>1, <1>2 DEF IndInv

\* Every step keeps the types and the count of attempts.
LEMMA TypesKept == TypeOK /\ Counted /\ [Next]_vars => TypeOK' /\ Counted'
<1> SUFFICES ASSUME TypeOK, Counted, [Next]_vars PROVE TypeOK' /\ Counted'
  OBVIOUS
<1> USE LockAssumption DEF TypeOK, Places, Counted, Goto
<1>1. ASSUME NEW p \in Processes, Call(p) PROVE TypeOK' /\ Counted'
  BY <1>1 DEF Call
<1>2. ASSUME NEW p \in Processes, Open(p) PROVE TypeOK' /\ Counted'
  BY <1>2 DEF Open
<1>3. ASSUME NEW p \in Processes, GiveUp(p) PROVE TypeOK' /\ Counted'
  BY <1>3 DEF GiveUp
<1>4. ASSUME NEW p \in Processes, Stat(p) PROVE TypeOK' /\ Counted'
  BY <1>4 DEF Stat
<1>5. ASSUME NEW p \in Processes, RemoveStale(p) PROVE TypeOK' /\ Counted'
  BY <1>5 DEF RemoveStale, NextAttempt
<1>6. ASSUME NEW p \in Processes, Wait(p) PROVE TypeOK' /\ Counted'
  BY <1>6 DEF Wait, NextAttempt
<1>7. ASSUME NEW p \in Processes, HeaderFails(p) PROVE TypeOK' /\ Counted'
  BY <1>7 DEF HeaderFails
<1>8. ASSUME NEW p \in Processes, Read(p) \/ Write(p) \/ Throw(p) PROVE TypeOK' /\ Counted'
  BY <1>8 DEF Read, Write, Throw
<1>9. ASSUME NEW p \in Processes, Close(p) \/ Leave(p) PROVE TypeOK' /\ Counted'
  BY <1>9 DEF Close, Leave
<1>10. ASSUME NEW p \in Processes, Crash(p) PROVE TypeOK' /\ Counted'
  BY <1>10 DEF Crash
<1>11. ASSUME NEW p \in Processes, Restart(p) PROVE TypeOK' /\ Counted'
  BY <1>11 DEF Restart
<1>12. CASE Tick
  BY <1>12 DEF Tick
<1>13. CASE UNCHANGED vars
  BY <1>13 DEF vars
<1>. QED
  BY <1>1, <1>2, <1>3, <1>4, <1>5, <1>6, <1>7, <1>8, <1>9, <1>10, <1>11, <1>12, <1>13
  DEF Next, Proceed

\* While no lock file grew stale, every step leaves the file with the process
\* inside and every read up to date.
LEMMA FreshKept == IndInv /\ [Next]_vars => Fresh' /\ ReadsCurrent'
<1> SUFFICES ASSUME IndInv, [Next]_vars, ~grewStale' PROVE Fresh' /\ ReadsCurrent'
  BY DEF Fresh, ReadsCurrent
<1>0. ~grewStale
  BY DEF IndInv, TypeOK, Next, Proceed, vars, Call, Open, GiveUp, Stat, RemoveStale, Wait,
         HeaderFails, Read, Write, Throw, Close, Leave, Crash, Restart, Tick
<1> USE LockAssumption, <1>0 DEF IndInv, TypeOK, Fresh, ReadsCurrent, Holders, Goto
<1>1. ASSUME NEW p \in Processes, Call(p) PROVE Fresh' /\ ReadsCurrent'
  BY <1>1 DEF Call
<1>2. ASSUME NEW p \in Processes, Open(p) PROVE Fresh' /\ ReadsCurrent'
  \* The file is only created when there is none, so nobody is inside.
  BY <1>2 DEF Open
<1>3. ASSUME NEW p \in Processes, GiveUp(p) \/ Wait(p) PROVE Fresh' /\ ReadsCurrent'
  BY <1>3 DEF GiveUp, Wait
<1>4. ASSUME NEW p \in Processes, Stat(p) PROVE Fresh' /\ ReadsCurrent'
  BY <1>4 DEF Stat
<1>5. ASSUME NEW p \in Processes, RemoveStale(p) PROVE Fresh' /\ ReadsCurrent'
  BY <1>5 DEF RemoveStale
<1>6. ASSUME NEW p \in Processes, HeaderFails(p) PROVE Fresh' /\ ReadsCurrent'
  BY <1>6 DEF HeaderFails
<1>7. ASSUME NEW p \in Processes, Read(p) \/ Throw(p) PROVE Fresh' /\ ReadsCurrent'
  BY <1>7 DEF Read, Throw
<1>8. ASSUME NEW p \in Processes, Write(p) PROVE Fresh' /\ ReadsCurrent'
  \* The writer is the only one inside, so no other read is overtaken.
  BY <1>8 DEF Write
<1>9. ASSUME NEW p \in Processes, Close(p) PROVE Fresh' /\ ReadsCurrent'
  BY <1>9 DEF Close
<1>10. ASSUME NEW p \in Processes, Leave(p) \/ Restart(p) PROVE Fresh' /\ ReadsCurrent'
  BY <1>10 DEF Leave, Restart
<1>11. ASSUME NEW p \in Processes, Crash(p) PROVE Fresh' /\ ReadsCurrent'
  BY <1>11 DEF Crash
<1>12. CASE Tick
  <2>1. age' \in Nat /\ ~(age' > StaleAfter)
    <3>1. grewStale' = (grewStale \/ age' > StaleAfter)
      BY <1>12 DEF Tick
    <3>2. ~(age' > StaleAfter)
      BY <3>1, Zenon
    <3>. QED BY <1>12, <3>2 DEF Tick
  <2>2. age' <= StaleAfter
    BY <2>1
  <2>. QED BY <1>12, <2>2 DEF Tick
<1>13. CASE UNCHANGED vars
  BY <1>13 DEF vars
<1>. QED
  BY <1>1, <1>2, <1>3, <1>4, <1>5, <1>6, <1>7, <1>8, <1>9, <1>10, <1>11, <1>12, <1>13
  DEF Next, Proceed

\* The invariant holds in every reachable state.
THEOREM Inductive == Spec => []IndInv
<1>1. IndInv /\ [Next]_vars => IndInv'
  BY TypesKept, FreshKept DEF IndInv
<1>. QED BY <1>1, InitEstablishes, PTL DEF Spec

-----------------------------------------------------------------------------
(* The theorems. *)

\* No step leaves the types, however many attempts a process makes: the loop
\* counter never passes MaxAttempts.
THEOREM TypeCorrect == Spec => []TypeOK
<1>1. IndInv => TypeOK
  BY DEF IndInv
<1>. QED BY <1>1, Inductive, PTL

\* As long as no lock file outlived the age limit, at most one process is inside
\* an operation, and it is the one whose file stands.
THEOREM FreshLocksExclude == Spec => []ExclusiveWhileFresh
<1>1. IndInv => ExclusiveWhileFresh
  BY DEF IndInv, Fresh, ExclusiveWhileFresh, AtMostOne
<1>. QED BY <1>1, Inductive, PTL

\* Under the same condition no operation overwrites what another one wrote after
\* it had read: no update of a record is lost.
THEOREM FreshLocksLoseNothing == Spec => []NoLostUpdate
<1>1. IndInv => NoLostUpdate
  BY DEF IndInv, ReadsCurrent, NoLostUpdate
<1>. QED BY <1>1, Inductive, PTL
=============================================================================
