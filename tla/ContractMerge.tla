---------------------------- MODULE ContractMerge ----------------------------
(***************************************************************************)
(* Reconciliation with the merge of ThreeWayMerge: what a command makes of *)
(* the canonical records is, record by record, what reconcileDocuments     *)
(* makes of the base, of the file as it is and of the incoming revision    *)
(* (previewReconciliation, src/reconciliation.mjs).                        *)
(***************************************************************************)
EXTENDS Reconciliation, ThreeWayMerge

CONSTANTS
    Document,  \* of each record, what document each body of its file holds
    Base,      \* the records in the common base of the two branches
    Incoming   \* and in the incoming revision

Merged(c, x) == Reconciled(Document[x][Base[x]], Document[x][c[x]], Document[x][Incoming[x]])

\* The bodies of a record hold revisions of one document; there is a merge where no record conflicts.
ASSUME ContractAssumption ==
    /\ Base \in Contents /\ Incoming \in Contents
    /\ \A x \in Paths : \E documents \in Documents : \A body \in Bodies : Document[x][body] \in documents
    /\ \A c \in Contents : Merge[c] # None => \A x \in Paths : Document[x][Merge[c][x]] = Merged(c, x)

\* What a command that has taken the lock makes of any three revisions of a record is RecordsMerge's merge; and
\* what a journal has a record become is, for as long as it is pending, the merge of what that record was with the
\* base and the incoming revision (reconciliation.mjs:379-411, taken again under the lock at 504).
MergesRecords ==
    /\ Inside => RecordsMerge
    /\ pending # None => \A x \in Paths :
          IsMerge(Document[x][pending.after[x]],
                  Document[x][Base[x]], Document[x][pending.before[x]], Document[x][Incoming[x]])

\* And of any three histories of events it makes EventsSurvive's (reconciliation.mjs:379-411).
MergesEvents == Inside => EventsSurvive
=============================================================================
