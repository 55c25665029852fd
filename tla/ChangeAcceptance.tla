-------------------------- MODULE ChangeAcceptance --------------------------
(***************************************************************************)
(* What the task lifecycle promises, without claims, versions, policies or *)
(* evidence: one exact candidate is offered by an author, vetted by some   *)
(* other agent and then accepted; a refused candidate is never offered     *)
(* again; an accepted or withdrawn change stays as it is.                  *)
(***************************************************************************)
CONSTANTS
    Changes,      \* the changes under discussion
    Candidates,   \* what may be offered for a change
    People,       \* who offers and who vets
    Nothing       \* no candidate, no person

VARIABLES
    phase,        \* phase[c]: how far change c has come
    candidate,    \* candidate[c]: the candidate on the table
    author,       \* author[c]: who offered it
    refused       \* refused[c]: the candidates refused so far

acceptanceVars == <<phase, candidate, author, refused>>

Phases == {"unknown", "open", "offered", "refused", "vetted", "accepted", "withdrawn"}

AcceptanceInit ==
    /\ phase = [c \in Changes |-> "unknown"]
    /\ candidate = [c \in Changes |-> Nothing]
    /\ author = [c \in Changes |-> Nothing]
    /\ refused = [c \in Changes |-> {}]

Move(c, from, to) ==
    /\ phase[c] = from
    /\ phase' = [phase EXCEPT ![c] = to]

Propose(c) ==
    /\ Move(c, "unknown", "open")
    /\ UNCHANGED <<candidate, author, refused>>

Offer(c, x, p) ==
    /\ Move(c, "open", "offered")
    /\ x \notin refused[c]
    /\ candidate' = [candidate EXCEPT ![c] = x]
    /\ author' = [author EXCEPT ![c] = p]
    /\ UNCHANGED refused

\* The person who vets or refuses is not the author.
Vet(c, p, verdict) ==
    /\ Move(c, "offered", verdict)
    /\ p # author[c]
    /\ UNCHANGED <<candidate, author, refused>>

Reopen(c) ==
    /\ Move(c, "refused", "open")
    /\ refused' = [refused EXCEPT ![c] = @ \cup {candidate[c]}]
    /\ candidate' = [candidate EXCEPT ![c] = Nothing]
    /\ author' = [author EXCEPT ![c] = Nothing]

Accept(c) ==
    /\ Move(c, "vetted", "accepted")
    /\ UNCHANGED <<candidate, author, refused>>

Withdraw(c) ==
    /\ phase[c] \in {"open", "offered", "refused", "vetted"}
    /\ Move(c, phase[c], "withdrawn")
    /\ UNCHANGED <<candidate, author, refused>>

AcceptanceNext ==
    \E c \in Changes :
        \/ Propose(c) \/ Reopen(c) \/ Accept(c) \/ Withdraw(c)
        \/ \E x \in Candidates, p \in People : Offer(c, x, p)
        \/ \E p \in People, verdict \in {"vetted", "refused"} : Vet(c, p, verdict)

AcceptanceSpec == AcceptanceInit /\ [][AcceptanceNext]_acceptanceVars
=============================================================================
