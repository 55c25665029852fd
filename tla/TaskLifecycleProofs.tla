------------------------- MODULE TaskLifecycleProofs -------------------------
(***************************************************************************)
(* Proofs about TaskLifecycle, for any tasks, agents, policies, contracts  *)
(* and bounds.                                                             *)
(*                                                                         *)
(* Every operation replaces one record, so the inductive invariant is a    *)
(* conjunction over the records: RecordOK says of one record which fields  *)
(* its state fills (Filled) and what the guards that filled them leave     *)
(* behind (Earned).  BuildersDisjoint alone relates two records.           *)
(*                                                                         *)
(* What an accepted task stands for is in the second half: its history,    *)
(* its dependencies, its candidate in Git, and that the lifecycle          *)
(* implements ChangeAcceptance.  It begins with what each operation makes  *)
(* of the record; the rest cites that instead of the operations.           *)
(***************************************************************************)
EXTENDS TaskLifecycle, TLAPS

\* Which fields of a record its state fills.
Filled(item) ==
    /\ item.state # "absent"
    /\ item.state = "intake" => item.claim = None /\ item.delivery = None /\ item.review = None
    /\ item.state = "build" =>
          item.claim # None /\ item.base # None /\ item.delivery = None /\ item.review = None
    /\ item.state \in {"test", "release_gate", "done"} =>
          item.delivery # None /\ item.base # None
    /\ item.state \in {"release_gate", "done"} => Passed(item)
    /\ item.state = "done" => item.closeout # None

\* What the guards of the operations that filled those fields leave behind.
Earned(item) ==
    /\ MeetsPolicy(item.contract, item.policy)
    /\ item.claim # None => item.claim.actor = item.contract.actor
    /\ item.delivery # None =>
          /\ item.delivery.implementer = item.contract.actor
          /\ item.delivery.revision \notin RejectedRevisions(item)
    /\ item.review # None =>
          /\ item.delivery # None
          /\ Separated(item.review.actor, item)
          /\ item.review.revision = item.delivery.revision
    /\ item.state = "done" =>
          /\ item.closeout.actor.principal \in item.policy.approvers
          /\ item.closeout.revision = item.delivery.revision

RecordOK(item) == item \in Item /\ Filled(item) /\ Earned(item)

\* A record, or none yet.
SlotOK(item) == item = NoItem \/ RecordOK(item)

ItemsOK == items \in [Tasks -> Item \cup {NoItem}] /\ \A t \in Tasks : SlotOK(items[t])

-----------------------------------------------------------------------------
(* Saving: the record t gains the changes of the operation, one version and *)
(* one event; no other record changes.                                      *)

LEMMA RecordedKeeps ==
    ASSUME NEW item \in Item, NEW action \in Actions, NEW req \in Request,
           item.delivery # None => item.delivery \in Delivery
    PROVE  /\ Recorded(item, action, req) \in Item
           /\ Filled(item) => Filled(Recorded(item, action, req))
           /\ Earned(item) => Earned(Recorded(item, action, req))
<1> DEFINE e == [action |-> action, request |-> req, state |-> item.state,
                 revision |-> IF item.delivery = None THEN None ELSE item.delivery.revision]
           new == Recorded(item, action, req)
<1>1. e \in Event
  BY DEF Event, Item, Delivery
<1>2. Append(item.history, e) \in Seq(Event) /\ item.version + 1 \in Nat
  BY <1>1 DEF Item
<1>3. new \in Item
  BY <1>2 DEF Recorded, Item
<1>4. /\ new.state = item.state /\ new.claim = item.claim /\ new.base = item.base
      /\ new.delivery = item.delivery /\ new.review = item.review
      /\ new.closeout = item.closeout /\ new.contract = item.contract
      /\ new.policy = item.policy /\ new.attempts = item.attempts
  BY DEF Recorded, Item
<1>5. Filled(item) => Filled(new)
  BY <1>4 DEF Filled, Passed
<1>6. Earned(item) => Earned(new)
  BY <1>4 DEF Earned, Separated, RejectedRevisions
<1>. QED BY <1>3, <1>5, <1>6

LEMMA SaveKeeps ==
    ASSUME ItemsOK, NEW t \in Tasks, NEW action \in Actions, NEW req \in Request,
           NEW item, RecordOK(item), Save(t, action, req, item),
           item.state = "build" =>
              \A u \in Tasks \ {t} : items[u].state = "build" =>
                  ~Overlap(item.contract, items[u].contract)
    PROVE  ItemsOK' /\ (BuildersDisjoint => BuildersDisjoint')
<1> DEFINE new == Recorded(item, action, req)
<1>1. new \in Item /\ RecordOK(new)
  <2>1. item.delivery # None => item.delivery \in Delivery
    BY DEF RecordOK, Item
  <2>. QED BY <2>1, RecordedKeeps DEF RecordOK
<1>2. items' = [items EXCEPT ![t] = new]
  BY DEF Save
<1>3. items' \in [Tasks -> Item \cup {NoItem}]
  BY <1>1, <1>2 DEF ItemsOK
<1>4. ASSUME NEW u \in Tasks PROVE SlotOK(items'[u])
  <2>1. CASE u = t
    BY <1>1, <1>2, <2>1 DEF ItemsOK, SlotOK
  <2>2. CASE u # t
    BY <1>2, <2>2 DEF ItemsOK
  <2>. QED BY <2>1, <2>2
<1>5. ItemsOK'
  BY <1>3, <1>4 DEF ItemsOK
<1>6. ASSUME BuildersDisjoint PROVE BuildersDisjoint'
  <2>1. new.state = item.state /\ new.contract = item.contract
    BY DEF Recorded, RecordOK, Item
  <2>2. items'[t] = new /\ \A u \in Tasks \ {t} : items'[u] = items[u]
    BY <1>2 DEF ItemsOK
  <2>3. SUFFICES ASSUME NEW u \in Tasks, NEW v \in Tasks, u # v,
                        items'[u].state = "build", items'[v].state = "build"
                 PROVE  ~Overlap(items'[u].contract, items'[v].contract)
    BY DEF BuildersDisjoint
  <2>4. CASE u = t
    BY <2>1, <2>2, <2>3, <2>4
  <2>5. CASE v = t
    BY <2>1, <2>2, <2>3, <2>5 DEF Overlap
  <2>6. CASE u # t /\ v # t
    BY <1>6, <2>2, <2>3, <2>6 DEF BuildersDisjoint
  <2>. QED BY <2>4, <2>5, <2>6
<1>. QED BY <1>5, <1>6

\* An operation finds a record, so what RecordOK says of it.
LEMMA FoundRecord ==
    ASSUME ItemsOK, NEW t \in Tasks, Exists(t)
    PROVE  RecordOK(items[t])
<1>1. SlotOK(items[t])
  BY DEF ItemsOK
<1>2. NoItem.state = "absent"
  BY DEF NoItem
<1>. QED BY <1>1, <1>2 DEF SlotOK, Exists

-----------------------------------------------------------------------------
(* One lemma per operation: the record it saves is again a good one. *)

LEMMA CreateKeeps ==
    ASSUME ItemsOK, policy \in Policies, NEW t \in Tasks, NEW contract \in Contract,
           NEW req \in Request, Create(t, contract, req)
    PROVE  ItemsOK' /\ (BuildersDisjoint => BuildersDisjoint')
<1> DEFINE item == [NoItem EXCEPT !.state = "intake", !.contract = contract, !.policy = policy]
<1>1. item \in Item
  <2>1. <<>> \in Seq(Attempt) /\ <<>> \in Seq(Event)
    OBVIOUS
  <2>. QED BY <2>1 DEF NoItem, Item, States
<1>2. Filled(item)
  BY DEF NoItem, Filled
<1>3. Earned(item)
  <2>1. MeetsPolicy(item.contract, item.policy)
    BY DEF Create, NoItem
  <2>2. item.claim = None /\ item.delivery = None /\ item.review = None /\ item.state = "intake"
    BY DEF NoItem
  <2>. QED BY <2>1, <2>2 DEF Earned
<1>4. Save(t, "create", req, item) /\ "create" \in Actions /\ item.state # "build"
  BY DEF Create, Actions, NoItem
<1>. QED BY <1>1, <1>2, <1>3, <1>4, SaveKeeps DEF RecordOK

LEMMA ClaimKeeps ==
    ASSUME ItemsOK, tip \in Revisions, NEW t \in Tasks, NEW req \in Request, Claim(t, req)
    PROVE  ItemsOK' /\ (BuildersDisjoint => BuildersDisjoint')
<1> DEFINE old == items[t]
           claim == [id |-> old.version + 1, actor |-> req.actor]
           item == [old EXCEPT !.state = "build", !.base = req.revision,
                        !.claim = claim, !.pins = PinsOf(old.contract.deps)]
<1>1. RecordOK(old) /\ old.state = "intake" /\ req.actor = old.contract.actor
  BY FoundRecord DEF Claim, Admits
<1>2. claim \in Claimed /\ claim # None
  BY <1>1, NoneAssumption DEF Claimed, RecordOK, Item, Request
<1>3. req.revision \in Revisions /\ req.revision # None
  BY NoneAssumption, CheckoutAssumption DEF Claim, IsCommit, Revisions
<1>4. PinsOf(old.contract.deps) \in [Tasks -> Nat]
  <2>1. ASSUME NEW d \in Tasks PROVE items[d].version \in Nat
    BY DEF ItemsOK, Item, NoItem
  <2>. QED BY <2>1 DEF PinsOf
<1>5. item \in Item
  BY <1>1, <1>2, <1>3, <1>4 DEF RecordOK, Item, States
<1>6. /\ item.state = "build" /\ item.base = req.revision /\ item.claim = claim
      /\ item.delivery = None /\ item.review = None
      /\ item.contract = old.contract /\ item.policy = old.policy
  BY <1>1 DEF RecordOK, Item, Filled
<1>7. Filled(item) /\ Earned(item)
  BY <1>1, <1>2, <1>3, <1>6 DEF Filled, Earned, RecordOK
<1>8. Save(t, "claim", req, item) /\ "claim" \in Actions
  BY DEF Claim, Actions
<1>9. \A u \in Tasks \ {t} : items[u].state = "build" =>
          ~Overlap(item.contract, items[u].contract)
  BY <1>6 DEF Claim, Competes
<1>. QED BY <1>5, <1>7, <1>8, <1>9, SaveKeeps DEF RecordOK

LEMMA ReleaseKeeps ==
    ASSUME ItemsOK, NEW t \in Tasks, NEW req \in Request, Release(t, req)
    PROVE  ItemsOK' /\ (BuildersDisjoint => BuildersDisjoint')
<1> DEFINE old == items[t]
           attempt == [kind |-> "released", base |-> old.base, revision |-> None]
           item == [old EXCEPT !.state = "intake", !.claim = None, !.pins = None,
                        !.attempts = Append(@, attempt)]
<1>1. RecordOK(old) /\ old.state = "build"
  BY FoundRecord DEF Release, Admits, HoldsClaim
<1>2. attempt \in Attempt
  BY <1>1 DEF RecordOK, Filled, Item, Attempt
<1>3. Append(old.attempts, attempt) \in Seq(Attempt)
  BY <1>1, <1>2 DEF RecordOK, Item
<1>4. item \in Item
  BY <1>1, <1>3 DEF RecordOK, Item, States
<1>5. /\ item.state = "intake" /\ item.claim = None
      /\ item.delivery = None /\ item.review = None
      /\ item.contract = old.contract /\ item.policy = old.policy
  BY <1>1 DEF RecordOK, Item, Filled
<1>6. Filled(item) /\ Earned(item)
  BY <1>1, <1>5 DEF Filled, Earned, RecordOK
<1>7. Save(t, "release", req, item) /\ "release" \in Actions
  BY DEF Release, Actions
<1>. QED BY <1>4, <1>5, <1>6, <1>7, SaveKeeps DEF RecordOK

LEMMA HandoffKeeps ==
    ASSUME ItemsOK, tip \in Revisions, NEW t \in Tasks, NEW req \in Request, Handoff(t, req)
    PROVE  ItemsOK' /\ (BuildersDisjoint => BuildersDisjoint')
<1> DEFINE old == items[t]
           delivery == Delivered(old, req)
           item == [old EXCEPT !.state = "test", !.claim = None, !.delivery = delivery]
<1>1. /\ RecordOK(old) /\ old.state = "build" /\ old.claim # None
      /\ req.actor = old.claim.actor /\ FreshCandidate(old, req.revision)
  BY FoundRecord DEF Handoff, Admits, HoldsClaim
<1>2. req.revision \in Revisions
  BY CheckoutAssumption DEF Handoff, CandidateOK, IsCommit, Revisions
<1>3. delivery \in Delivery /\ delivery # None
  BY <1>1, <1>2, NoneAssumption DEF Delivered, Delivery, RecordOK, Item, Claimed, Request
<1>4. item \in Item
  BY <1>1, <1>3 DEF RecordOK, Item, States
<1>5. /\ item.state = "test" /\ item.claim = None /\ item.delivery = delivery
      /\ item.base = old.base /\ item.review = None /\ item.attempts = old.attempts
      /\ item.contract = old.contract /\ item.policy = old.policy
  BY <1>1 DEF RecordOK, Item, Filled
<1>6. Filled(item)
  BY <1>1, <1>3, <1>5 DEF Filled, RecordOK
<1>7. Earned(item)
  <2>1. delivery.implementer = item.contract.actor /\ delivery.revision = req.revision
    BY <1>1, <1>5 DEF Delivered, Earned, RecordOK
  <2>2. delivery.revision \notin RejectedRevisions(item)
    BY <1>1, <1>5, <2>1 DEF FreshCandidate, RejectedRevisions
  <2>. QED BY <1>1, <1>5, <2>1, <2>2 DEF Earned, RecordOK
<1>8. Save(t, "handoff", req, item) /\ "handoff" \in Actions
  BY DEF Handoff, Actions
<1>. QED BY <1>4, <1>5, <1>6, <1>7, <1>8, SaveKeeps DEF RecordOK

LEMMA ReviewKeeps ==
    ASSUME ItemsOK, NEW t \in Tasks, NEW req \in Request, ReviewTask(t, req)
    PROVE  ItemsOK' /\ (BuildersDisjoint => BuildersDisjoint')
<1> DEFINE old == items[t]
           review == [actor |-> req.actor, revision |-> req.revision, judgment |-> req.judgment]
           item == [old EXCEPT !.state = IF req.judgment = "pass" THEN "release_gate" ELSE @,
                               !.review = review]
<1>1. /\ RecordOK(old) /\ old.state = "test" /\ req.judgment \in Judgments
      /\ Separated(req.actor, old) /\ req.revision = old.delivery.revision
      /\ old.delivery # None
  BY FoundRecord DEF ReviewTask, Admits, DeliveryOK
<1>2. review \in Review /\ review # None
  BY <1>1, NoneAssumption DEF Review, RecordOK, Item, Delivery, Request
<1>3. item \in Item
  BY <1>1, <1>2 DEF RecordOK, Item, States
<1>4. /\ item.state = IF req.judgment = "pass" THEN "release_gate" ELSE "test"
      /\ item.claim = old.claim /\ item.delivery = old.delivery
      /\ item.base = old.base /\ item.review = review /\ item.attempts = old.attempts
      /\ item.contract = old.contract /\ item.policy = old.policy
  BY <1>1 DEF RecordOK, Item
<1>5. Filled(item)
  BY <1>1, <1>2, <1>4 DEF Filled, RecordOK, Passed
<1>6. Earned(item)
  BY <1>1, <1>4 DEF Earned, RecordOK, Separated, RejectedRevisions
<1>7. Save(t, "review", req, item) /\ "review" \in Actions
  BY DEF ReviewTask, Actions
<1>8. RecordOK(item) /\ item.state # "build"
  BY <1>3, <1>4, <1>5, <1>6 DEF RecordOK
<1> HIDE DEF item
<1>. QED BY <1>7, <1>8, SaveKeeps

LEMMA ReworkKeeps ==
    ASSUME ItemsOK, NEW t \in Tasks, NEW req \in Request, Rework(t, req)
    PROVE  ItemsOK' /\ (BuildersDisjoint => BuildersDisjoint')
<1> DEFINE old == items[t]
           attempts == WithRejection(old)
           item == [old EXCEPT !.state = "intake", !.claim = None, !.pins = None,
                        !.delivery = None, !.review = None, !.attempts = attempts]
<1>1. RecordOK(old) /\ old.state = "test"
  BY FoundRecord DEF Rework, Admits
<1>2. attempts \in Seq(Attempt)
  <2>1. old.base \in Revisions /\ old.delivery.revision \in Revisions
    BY <1>1 DEF RecordOK, Filled, Item, Delivery
  <2>2. [kind |-> "rejected", base |-> old.base, revision |-> old.delivery.revision] \in Attempt
    BY <2>1 DEF Attempt
  <2>3. old.attempts \in Seq(Attempt)
    BY <1>1 DEF RecordOK, Item
  <2>. QED BY <2>2, <2>3 DEF WithRejection
<1>3. item \in Item
  BY <1>1, <1>2 DEF RecordOK, Item, States
<1>4. /\ item.state = "intake" /\ item.claim = None
      /\ item.delivery = None /\ item.review = None
      /\ item.contract = old.contract /\ item.policy = old.policy
  BY <1>1 DEF RecordOK, Item
<1>5. Filled(item) /\ Earned(item)
  BY <1>1, <1>4 DEF Filled, Earned, RecordOK
<1>6. Save(t, "rework", req, item) /\ "rework" \in Actions
  BY DEF Rework, Actions
<1>. QED BY <1>3, <1>4, <1>5, <1>6, SaveKeeps DEF RecordOK

LEMMA CloseKeeps ==
    ASSUME ItemsOK, NEW t \in Tasks, NEW req \in Request, Close(t, req)
    PROVE  ItemsOK' /\ (BuildersDisjoint => BuildersDisjoint')
<1> DEFINE old == items[t]
           closeout == [actor |-> req.actor, revision |-> req.revision]
           item == [old EXCEPT !.state = "done", !.closeout = closeout]
<1>1. /\ RecordOK(old) /\ old.state = "release_gate" /\ Passed(old)
      /\ req.revision = old.delivery.revision /\ old.delivery # None
      /\ req.actor.principal \in old.policy.approvers
  BY FoundRecord DEF Close, Admits, DeliveryOK, IsApprover, InContext
<1>2. closeout \in Closeout /\ closeout # None
  BY <1>1, NoneAssumption DEF Closeout, RecordOK, Item, Request
<1>3. item \in Item
  BY <1>1, <1>2 DEF RecordOK, Item, States
<1>4. /\ item.state = "done" /\ item.closeout = closeout
      /\ item.claim = old.claim /\ item.delivery = old.delivery
      /\ item.base = old.base /\ item.review = old.review /\ item.attempts = old.attempts
      /\ item.contract = old.contract /\ item.policy = old.policy
  BY <1>1 DEF RecordOK, Item
<1>5. Filled(item)
  BY <1>1, <1>2, <1>4 DEF Filled, RecordOK, Passed
<1>6. Earned(item)
  BY <1>1, <1>4 DEF Earned, RecordOK, Separated, RejectedRevisions
<1>7. Save(t, "close", req, item) /\ "close" \in Actions
  BY DEF Close, Actions
<1>. QED BY <1>3, <1>4, <1>5, <1>6, <1>7, SaveKeeps DEF RecordOK

LEMMA CancelKeeps ==
    ASSUME ItemsOK, NEW t \in Tasks, NEW req \in Request, Cancel(t, req)
    PROVE  ItemsOK' /\ (BuildersDisjoint => BuildersDisjoint')
<1> DEFINE old == items[t]
           closeout == [actor |-> req.actor, revision |-> None]
           item == [old EXCEPT !.state = "cancelled", !.claim = None, !.closeout = closeout]
<1>1. RecordOK(old)
  BY FoundRecord DEF Cancel, Admits
<1>2. closeout \in Closeout
  BY DEF Closeout, Request
<1>3. item \in Item
  BY <1>1, <1>2 DEF RecordOK, Item, States
<1>4. /\ item.state = "cancelled" /\ item.claim = None /\ item.delivery = old.delivery
      /\ item.review = old.review /\ item.attempts = old.attempts
      /\ item.contract = old.contract /\ item.policy = old.policy
  BY <1>1 DEF RecordOK, Item
<1>5. Filled(item)
  BY <1>4 DEF Filled
<1>6. Earned(item)
  BY <1>1, <1>4 DEF Earned, RecordOK, Separated, RejectedRevisions
<1>7. Save(t, "cancel", req, item) /\ "cancel" \in Actions
  BY DEF Cancel, Actions
<1>. QED BY <1>3, <1>4, <1>5, <1>6, <1>7, SaveKeeps DEF RecordOK

-----------------------------------------------------------------------------
(* The inductive invariant. *)

LEMMA CheckoutKeeps ==
    ASSUME CheckoutTypeOK, NEW version \in [Tasks -> Nat], CheckoutNext(version)
    PROVE  CheckoutTypeOK'
<1>1. CASE \E root \in Roots : Edit(root) \/ Discard(root)
  BY <1>1 DEF CheckoutTypeOK, Edit, Discard
<1>2. ASSUME NEW W \in SUBSET dirty, NEW staged \in BOOLEAN, Commit(W, staged, version)
      PROVE  CheckoutTypeOK'
  <2>1. tip + 1 \in Revisions /\ tip' = tip + 1 /\ head' \in 0..tip'
    BY <1>2, CheckoutAssumption DEF CheckoutTypeOK, Commit, Revisions
  <2>2. head \in Revisions
    BY CheckoutAssumption DEF CheckoutTypeOK, Revisions
  <2>3. (anc[head] \cup {tip + 1}) \in SUBSET Revisions /\ W \in SUBSET Roots
        /\ dirty \ W \subseteq Roots
    BY <2>1, <2>2 DEF CheckoutTypeOK
  <2>4. (IF staged THEN version ELSE seen[head]) \in [Tasks -> Nat]
    BY <2>2 DEF CheckoutTypeOK
  <2>. QED BY <1>2, <2>1, <2>3, <2>4 DEF CheckoutTypeOK, Commit
<1>3. CASE \E r \in Revisions : Switch(r)
  BY <1>3 DEF CheckoutTypeOK, Switch, IsCommit
<1>. QED BY <1>1, <1>2, <1>3 DEF CheckoutNext

FilesOK ==
    /\ policy \in Policies
    /\ altered \subseteq Tasks \X PinKinds
    /\ expired \subseteq Tasks

IndInv == CheckoutTypeOK /\ FilesOK /\ ItemsOK /\ BuildersDisjoint

LEMMA InitEstablishes ==
    ASSUME Init PROVE IndInv
<1>1. CheckoutTypeOK
  BY CheckoutAssumption DEF Init, CheckoutInit, CheckoutTypeOK, Revisions, NothingRecorded
<1>2. FilesOK
  BY DEF Init, FilesOK
<1>3. ItemsOK
  BY DEF Init, ItemsOK, SlotOK
<1>4. BuildersDisjoint
  BY DEF Init, BuildersDisjoint, NoItem
<1>. QED BY <1>1, <1>2, <1>3, <1>4 DEF IndInv

\* What a client may ask is a request.
LEMMA AskTyped ==
    ASSUME IndInv, NEW t \in Tasks, NEW op \in OperationIds(t), NEW expected \in Observed(t),
           NEW actor \in KnownActors, NEW claim \in Nat \cup {None},
           NEW revision \in Revisions \cup {None}, NEW judgment \in Judgments \cup {None}
    PROVE  Ask(op, expected, actor, claim, revision, judgment) \in Request
<1>1. items[t].version \in Nat
  BY DEF IndInv, ItemsOK, Item, NoItem
<1>2. op \in Nat /\ expected \in Nat
  BY <1>1 DEF OperationIds, Observed
<1>3. actor \in Actor
  BY LifecycleAssumption DEF KnownActors, Policy
<1>. QED BY <1>2, <1>3 DEF Ask, Request

LEMMA OperateKeeps ==
    ASSUME IndInv, NEW t \in Tasks, Operate(t)
    PROVE  ItemsOK' /\ BuildersDisjoint' /\ FilesOK' /\ CheckoutTypeOK'
<1> USE DEF IndInv
<1>1. PICK op \in OperationIds(t), expected \in Observed(t), actor \in KnownActors :
        \/ \E c \in Contracts[t] : Create(t, c, Ask(op, expected, actor, None, None, None))
        \/ \E r \in 0..tip : Claim(t, Ask(op, expected, actor, None, r, None))
        \/ \E id \in ClaimIds(t) : Release(t, Ask(op, expected, actor, id, None, None))
        \/ \E id \in ClaimIds(t), r \in 0..tip :
              Handoff(t, Ask(op, expected, actor, id, r, None))
        \/ \E r \in 0..tip, j \in Judgments :
              ReviewTask(t, Ask(op, expected, actor, None, r, j))
        \/ Rework(t, Ask(op, expected, actor, None, None, None))
        \/ \E r \in 0..tip : Close(t, Ask(op, expected, actor, None, r, None))
        \/ Cancel(t, Ask(op, expected, actor, None, None, None))
  BY DEF Operate
<1>2. 0..tip \subseteq Revisions /\ ClaimIds(t) \subseteq Nat /\ tip \in Revisions
  BY CheckoutAssumption DEF CheckoutTypeOK, Revisions, ClaimIds
<1>3. ASSUME NEW c \in Contracts[t], Create(t, c, Ask(op, expected, actor, None, None, None))
      PROVE  ItemsOK' /\ BuildersDisjoint' /\ FilesOK' /\ CheckoutTypeOK'
  <2>1. c \in Contract
    BY LifecycleAssumption
  <2>. QED BY <1>3, <2>1, AskTyped, CreateKeeps DEF Create, FilesOK, checkoutVars, CheckoutTypeOK
<1>4. ASSUME NEW r \in 0..tip, Claim(t, Ask(op, expected, actor, None, r, None))
      PROVE  ItemsOK' /\ BuildersDisjoint' /\ FilesOK' /\ CheckoutTypeOK'
  BY <1>2, <1>4, AskTyped, ClaimKeeps DEF Claim, FilesOK, checkoutVars, CheckoutTypeOK
<1>5. ASSUME NEW id \in ClaimIds(t), Release(t, Ask(op, expected, actor, id, None, None))
      PROVE  ItemsOK' /\ BuildersDisjoint' /\ FilesOK' /\ CheckoutTypeOK'
  BY <1>2, <1>5, AskTyped, ReleaseKeeps DEF Release, FilesOK, checkoutVars, CheckoutTypeOK
<1>6. ASSUME NEW id \in ClaimIds(t), NEW r \in 0..tip,
             Handoff(t, Ask(op, expected, actor, id, r, None))
      PROVE  ItemsOK' /\ BuildersDisjoint' /\ FilesOK' /\ CheckoutTypeOK'
  BY <1>2, <1>6, AskTyped, HandoffKeeps DEF Handoff, FilesOK, checkoutVars, CheckoutTypeOK
<1>7. ASSUME NEW r \in 0..tip, NEW j \in Judgments,
             ReviewTask(t, Ask(op, expected, actor, None, r, j))
      PROVE  ItemsOK' /\ BuildersDisjoint' /\ FilesOK' /\ CheckoutTypeOK'
  BY <1>2, <1>7, AskTyped, ReviewKeeps DEF ReviewTask, FilesOK, checkoutVars, CheckoutTypeOK
<1>8. ASSUME Rework(t, Ask(op, expected, actor, None, None, None))
      PROVE  ItemsOK' /\ BuildersDisjoint' /\ FilesOK' /\ CheckoutTypeOK'
  BY <1>8, AskTyped, ReworkKeeps DEF Rework, FilesOK, checkoutVars, CheckoutTypeOK
<1>9. ASSUME NEW r \in 0..tip, Close(t, Ask(op, expected, actor, None, r, None))
      PROVE  ItemsOK' /\ BuildersDisjoint' /\ FilesOK' /\ CheckoutTypeOK'
  BY <1>2, <1>9, AskTyped, CloseKeeps DEF Close, FilesOK, checkoutVars, CheckoutTypeOK
<1>10. ASSUME Cancel(t, Ask(op, expected, actor, None, None, None))
      PROVE  ItemsOK' /\ BuildersDisjoint' /\ FilesOK' /\ CheckoutTypeOK'
  BY <1>10, AskTyped, CancelKeeps DEF Cancel, FilesOK, checkoutVars, CheckoutTypeOK
<1>. QED BY <1>1, <1>3, <1>4, <1>5, <1>6, <1>7, <1>8, <1>9, <1>10

LEMMA EnvironmentKeeps ==
    ASSUME IndInv, Environment
    PROVE  IndInv'
<1> USE DEF IndInv
<1>1. ASSUME NEW p \in Policies, EditPolicy(p) PROVE IndInv'
  BY <1>1 DEF EditPolicy, FilesOK, ItemsOK, BuildersDisjoint, checkoutVars, CheckoutTypeOK
<1>2. ASSUME NEW t \in Tasks, Expire(t) PROVE IndInv'
  BY <1>2 DEF Expire, FilesOK, ItemsOK, BuildersDisjoint, checkoutVars, CheckoutTypeOK
<1>3. ASSUME NEW t \in Tasks, NEW kind \in PinKinds, Alter(t, kind) PROVE IndInv'
  BY <1>3 DEF Alter, FilesOK, ItemsOK, BuildersDisjoint, checkoutVars, CheckoutTypeOK
<1>4. CASE WorkInCheckout
  <2>1. RecordVersions \in [Tasks -> Nat]
    BY DEF RecordVersions, ItemsOK, Item, NoItem
  <2>2. CheckoutTypeOK'
    BY <1>4, <2>1, CheckoutKeeps DEF WorkInCheckout
  <2>. QED BY <1>4, <2>2 DEF WorkInCheckout, lifecycleVars, FilesOK, ItemsOK, BuildersDisjoint
<1>. QED BY <1>1, <1>2, <1>3, <1>4 DEF Environment

LEMMA StepKeeps ==
    ASSUME IndInv, [Next]_vars PROVE IndInv'
<1>1. CASE \E t \in Tasks : Operate(t)
  BY <1>1, OperateKeeps DEF IndInv
<1>2. CASE Environment
  BY <1>2, EnvironmentKeeps
<1>3. CASE UNCHANGED vars
  BY <1>3 DEF vars, lifecycleVars, checkoutVars, IndInv, CheckoutTypeOK, FilesOK, ItemsOK,
              BuildersDisjoint
<1>. QED BY <1>1, <1>2, <1>3 DEF Next

\* The invariant holds in every reachable state, whatever the operations, the
\* policy edits and the work in the checkout.
THEOREM Inductive == Spec => []IndInv
BY InitEstablishes, StepKeeps, PTL DEF Spec

-----------------------------------------------------------------------------
(* The theorems. *)

\* Every record the operations write has the shape the readers expect of it.
THEOREM TypeCorrect == Spec => []TypeOK
<1>1. IndInv => TypeOK
  BY DEF IndInv, FilesOK, ItemsOK, TypeOK
<1>. QED BY <1>1, Inductive, PTL

\* Whatever the order of calls, policy edits, rework and retries, an accepted task
\* was delivered by its approved agent, passed by a separated reviewer and closed
\* by an approver, all three about one revision.
THEOREM AcceptanceIsIndependent == Spec => []IndependentAcceptance
<1>1. IndInv => IndependentAcceptance
  <2>1. SUFFICES ASSUME IndInv, NEW t \in Tasks, items[t].state = "done"
                 PROVE  /\ RecordOK(items[t])
                        /\ Filled(items[t]) /\ Earned(items[t])
    BY LifecycleAssumption DEF IndependentAcceptance, RecordOK, Filled, Earned, Passed, Separated,
                               MeetsPolicy
  <2>. QED BY <2>1, FoundRecord DEF IndInv, Exists, RecordOK
<1>. QED BY <1>1, Inductive, PTL

\* No revision a review rejected is ever on the table for that task again.
THEOREM RejectionIsFinal == Spec => []RejectedStaysRejected
<1>1. IndInv => RejectedStaysRejected
  BY DEF IndInv, ItemsOK, SlotOK, RecordOK, Earned, RejectedStaysRejected, NoItem
<1>. QED BY <1>1, Inductive, PTL

\* Two tasks under implementation never share a write root.
THEOREM BuildersAreDisjoint == Spec => []BuildersDisjoint
<1>1. IndInv => BuildersDisjoint
  BY DEF IndInv
<1>. QED BY <1>1, Inductive, PTL

(***************************************************************************)
(* What an operation makes of the record.                                  *)
(***************************************************************************)
\* The record has one event more, and is otherwise a record of the same task.
Extended(new, old, action, req) ==
    /\ new.version = old.version + 1
    /\ Len(new.history) = Len(old.history) + 1
    /\ \A i \in 1..Len(old.history) : new.history[i] = old.history[i]
    /\ new.history[Len(old.history) + 1].action = action
    /\ new.history[Len(old.history) + 1].request = req
    /\ new.contract = old.contract /\ new.policy = old.policy

LEMMA SaveExtends ==
    ASSUME ItemsOK, NEW t \in Tasks, NEW action, NEW req, NEW item \in Item,
           Save(t, action, req, item)
    PROVE  /\ \A u \in Tasks \ {t} : items'[u] = items[u]
           /\ Extended(items'[t], item, action, req)
           /\ items'[t].state = item.state /\ items'[t].claim = item.claim
           /\ items'[t].base = item.base /\ items'[t].pins = item.pins
           /\ items'[t].delivery = item.delivery /\ items'[t].review = item.review
           /\ items'[t].closeout = item.closeout /\ items'[t].attempts = item.attempts
<1> DEFINE new == Recorded(item, action, req)
           e == [action |-> action, request |-> req, state |-> item.state,
                 revision |-> IF item.delivery = None THEN None ELSE item.delivery.revision]
<1>1. items'[t] = new /\ \A u \in Tasks \ {t} : items'[u] = items[u]
  BY DEF Save, ItemsOK
<1>2. /\ new.version = item.version + 1 /\ new.history = Append(item.history, e)
      /\ new.contract = item.contract /\ new.policy = item.policy
      /\ new.state = item.state /\ new.claim = item.claim
      /\ new.base = item.base /\ new.pins = item.pins
      /\ new.delivery = item.delivery /\ new.review = item.review
      /\ new.closeout = item.closeout /\ new.attempts = item.attempts
  BY DEF Recorded, Item
<1>3. item.history \in Seq(Event)
  BY DEF Item
<1>4. /\ Len(new.history) = Len(item.history) + 1
      /\ \A i \in 1..Len(item.history) : new.history[i] = item.history[i]
      /\ new.history[Len(item.history) + 1] = e
  BY <1>2, <1>3
<1>5. Extended(new, item, action, req)
  BY <1>2, <1>4 DEF Extended
<1>. QED BY <1>1, <1>2, <1>5

\* An operation on t: whose guard holds of a record that is there and not over.
OldRecord(t) == RecordOK(items[t]) /\ items[t].state \notin Terminal

LEMMA CreateDoes ==
    ASSUME ItemsOK, policy \in Policies, NEW t \in Tasks, NEW contract \in Contract,
           NEW req \in Request, Create(t, contract, req)
    PROVE  /\ items[t] = NoItem
           /\ \A u \in Tasks \ {t} : items'[u] = items[u]
           /\ items'[t].version = 1 /\ Len(items'[t].history) = 1
           /\ items'[t].state = "intake"
           /\ items'[t].pins = None /\ items'[t].attempts = <<>>
           /\ items'[t].delivery = None /\ items'[t].review = None
<1> DEFINE item == [NoItem EXCEPT !.state = "intake", !.contract = contract, !.policy = policy]
<1>1. items[t] = NoItem
  BY DEF Create, Exists, ItemsOK, SlotOK, RecordOK, Filled
<1>2. item \in Item
  <2>1. <<>> \in Seq(Attempt) /\ <<>> \in Seq(Event)
    OBVIOUS
  <2>. QED BY <2>1 DEF NoItem, Item, States
<1>3. Save(t, "create", req, item)
  BY DEF Create
<1>4. /\ item.version = 0 /\ item.history = <<>> /\ item.state = "intake"
      /\ item.pins = None /\ item.attempts = <<>> /\ item.delivery = None /\ item.review = None
  BY DEF NoItem
<1>5. Len(item.history) = 0
  BY <1>4
<1> HIDE DEF item
<1>6. Extended(items'[t], item, "create", req)
  BY <1>2, <1>3, SaveExtends
<1>7. items'[t].version = 1 /\ Len(items'[t].history) = 1
  BY <1>4, <1>5, <1>6 DEF Extended
<1>. QED BY <1>1, <1>2, <1>3, <1>4, <1>7, SaveExtends

LEMMA ClaimDoes ==
    ASSUME ItemsOK, tip \in Revisions, NEW t \in Tasks, NEW req \in Request, Claim(t, req)
    PROVE  /\ OldRecord(t)
           /\ \A u \in Tasks \ {t} : items'[u] = items[u]
           /\ Extended(items'[t], items[t], "claim", req)
           /\ items[t].state = "intake" /\ items'[t].state = "build"
           /\ items'[t].base = req.revision
           /\ items'[t].claim.id = items[t].version + 1
           /\ items'[t].pins = PinsOf(items[t].contract.deps)
           /\ items'[t].delivery = items[t].delivery /\ items'[t].review = items[t].review
           /\ items'[t].attempts = items[t].attempts
<1> DEFINE old == items[t]
           item == [old EXCEPT !.state = "build", !.base = req.revision,
                        !.claim = [id |-> old.version + 1, actor |-> req.actor],
                        !.pins = PinsOf(old.contract.deps)]
<1>1. RecordOK(old) /\ old.state = "intake" /\ old.state \notin Terminal
  BY FoundRecord DEF Claim, Admits
<1>2. [id |-> old.version + 1, actor |-> req.actor] \in Claimed
  BY <1>1 DEF Claimed, RecordOK, Item, Request
<1>3. req.revision \in Revisions
  BY CheckoutAssumption DEF Claim, IsCommit, Revisions
<1>4. PinsOf(old.contract.deps) \in [Tasks -> Nat]
  BY DEF PinsOf, ItemsOK, Item, NoItem
<1>5. item \in Item
  BY <1>1, <1>2, <1>3, <1>4 DEF RecordOK, Item, States
<1>6. /\ item.state = "build" /\ item.base = req.revision /\ item.claim.id = old.version + 1
      /\ item.pins = PinsOf(old.contract.deps)
      /\ item.delivery = old.delivery /\ item.review = old.review /\ item.attempts = old.attempts
      /\ item.history = old.history /\ item.version = old.version
      /\ item.contract = old.contract /\ item.policy = old.policy
  BY <1>1 DEF RecordOK, Item
<1>7. Save(t, "claim", req, item)
  BY DEF Claim
<1> HIDE DEF item
<1>8. Extended(items'[t], old, "claim", req)
  <2>1. Extended(items'[t], item, "claim", req)
    BY <1>5, <1>6, <1>7, SaveExtends
  <2>. QED BY <1>6, <2>1 DEF Extended
<1>. QED BY <1>1, <1>5, <1>6, <1>7, <1>8, SaveExtends DEF OldRecord

LEMMA ReleaseDoes ==
    ASSUME ItemsOK, NEW t \in Tasks, NEW req \in Request, Release(t, req)
    PROVE  /\ OldRecord(t)
           /\ \A u \in Tasks \ {t} : items'[u] = items[u]
           /\ Extended(items'[t], items[t], "release", req)
           /\ items[t].state = "build" /\ items'[t].state = "intake"
           /\ items'[t].pins = None
           /\ items'[t].delivery = items[t].delivery /\ items'[t].review = items[t].review
           /\ items'[t].attempts = Append(items[t].attempts,
                  [kind |-> "released", base |-> items[t].base, revision |-> None])
<1> DEFINE old == items[t]
           attempt == [kind |-> "released", base |-> old.base, revision |-> None]
           item == [old EXCEPT !.state = "intake", !.claim = None, !.pins = None,
                        !.attempts = Append(@, attempt)]
<1>1. RecordOK(old) /\ old.state = "build" /\ old.state \notin Terminal
  BY FoundRecord DEF Release, Admits, HoldsClaim
<1>2. attempt \in Attempt
  BY <1>1 DEF RecordOK, Filled, Item, Attempt
<1>3. Append(old.attempts, attempt) \in Seq(Attempt)
  BY <1>1, <1>2 DEF RecordOK, Item
<1>4. item \in Item
  BY <1>1, <1>3 DEF RecordOK, Item, States
<1>5. /\ item.state = "intake" /\ item.pins = None /\ item.attempts = Append(old.attempts, attempt)
      /\ item.delivery = old.delivery /\ item.review = old.review
      /\ item.history = old.history /\ item.version = old.version
      /\ item.contract = old.contract /\ item.policy = old.policy
  BY <1>1 DEF RecordOK, Item
<1>6. Save(t, "release", req, item)
  BY DEF Release
<1> HIDE DEF item
<1>7. Extended(items'[t], old, "release", req)
  <2>1. Extended(items'[t], item, "release", req)
    BY <1>4, <1>5, <1>6, SaveExtends
  <2>. QED BY <1>5, <2>1 DEF Extended
<1>. QED BY <1>1, <1>4, <1>5, <1>6, <1>7, SaveExtends DEF OldRecord

LEMMA HandoffDoes ==
    ASSUME ItemsOK, tip \in Revisions, NEW t \in Tasks, NEW req \in Request, Handoff(t, req)
    PROVE  /\ OldRecord(t)
           /\ \A u \in Tasks \ {t} : items'[u] = items[u]
           /\ Extended(items'[t], items[t], "handoff", req)
           /\ items[t].state = "build" /\ items'[t].state = "test"
           /\ items[t].claim.id = req.claim
           /\ items'[t].base = items[t].base /\ items'[t].pins = items[t].pins
           /\ items'[t].delivery = Delivered(items[t], req) /\ items'[t].delivery # None
           /\ req.revision \in Revisions
           /\ items[t].delivery = None /\ items[t].review = None /\ items'[t].review = None
           /\ items'[t].attempts = items[t].attempts
<1> DEFINE old == items[t]
           delivery == Delivered(old, req)
           item == [old EXCEPT !.state = "test", !.claim = None, !.delivery = delivery]
<1>1. /\ RecordOK(old) /\ old.state = "build" /\ old.state \notin Terminal
      /\ old.claim # None /\ old.claim.id = req.claim
  BY FoundRecord DEF Handoff, Admits, HoldsClaim
<1>2. req.revision \in Revisions
  BY CheckoutAssumption DEF Handoff, CandidateOK, IsCommit, Revisions
<1>3. delivery \in Delivery /\ delivery # None
  BY <1>1, <1>2, NoneAssumption DEF Delivered, Delivery, RecordOK, Item, Claimed, Request
<1>4. item \in Item
  BY <1>1, <1>3 DEF RecordOK, Item, States
<1>5. /\ item.state = "test" /\ item.base = old.base /\ item.pins = old.pins
      /\ item.delivery = delivery /\ item.review = old.review /\ item.attempts = old.attempts
      /\ item.history = old.history /\ item.version = old.version
      /\ item.contract = old.contract /\ item.policy = old.policy
  BY <1>1 DEF RecordOK, Item
<1>6. old.delivery = None /\ old.review = None
  BY <1>1 DEF RecordOK, Filled
<1>7. Save(t, "handoff", req, item)
  BY DEF Handoff
<1> HIDE DEF item, delivery
<1>8. Extended(items'[t], old, "handoff", req)
  <2>1. Extended(items'[t], item, "handoff", req)
    BY <1>4, <1>5, <1>7, SaveExtends
  <2>. QED BY <1>5, <2>1 DEF Extended
<1>9. delivery = Delivered(old, req)
  BY DEF delivery
<1>. QED BY <1>1, <1>2, <1>3, <1>4, <1>5, <1>6, <1>7, <1>8, <1>9, SaveExtends DEF OldRecord

LEMMA ReviewDoes ==
    ASSUME ItemsOK, NEW t \in Tasks, NEW req \in Request, ReviewTask(t, req)
    PROVE  /\ OldRecord(t)
           /\ \A u \in Tasks \ {t} : items'[u] = items[u]
           /\ Extended(items'[t], items[t], "review", req)
           /\ items[t].state = "test" /\ items[t].review = None /\ items[t].delivery # None
           /\ items'[t].state = IF req.judgment = "pass" THEN "release_gate" ELSE "test"
           /\ items'[t].review # None
           /\ items'[t].base = items[t].base /\ items'[t].pins = items[t].pins
           /\ items'[t].delivery = items[t].delivery
           /\ items'[t].attempts = items[t].attempts
<1> DEFINE old == items[t]
           review == [actor |-> req.actor, revision |-> req.revision, judgment |-> req.judgment]
           item == [old EXCEPT !.state = IF req.judgment = "pass" THEN "release_gate" ELSE @,
                               !.review = review]
<1>1. /\ RecordOK(old) /\ old.state = "test" /\ old.state \notin Terminal /\ old.review = None
      /\ req.judgment \in Judgments /\ req.revision = old.delivery.revision /\ old.delivery # None
  BY FoundRecord DEF ReviewTask, Admits, DeliveryOK
<1>2. review \in Review /\ review # None
  BY <1>1, NoneAssumption DEF Review, RecordOK, Item, Delivery, Request
<1>3. item \in Item
  <2>1. CASE req.judgment = "pass"
    BY <1>1, <1>2, <2>1 DEF RecordOK, Item, States
  <2>2. CASE req.judgment # "pass"
    BY <1>1, <1>2, <2>2 DEF RecordOK, Item, States
  <2>. QED BY <2>1, <2>2
<1>4. /\ item.state = IF req.judgment = "pass" THEN "release_gate" ELSE "test"
      /\ item.review = review /\ item.base = old.base /\ item.pins = old.pins
      /\ item.delivery = old.delivery /\ item.attempts = old.attempts
      /\ item.history = old.history /\ item.version = old.version
      /\ item.contract = old.contract /\ item.policy = old.policy
  BY <1>1 DEF RecordOK, Item
<1>5. Save(t, "review", req, item)
  BY DEF ReviewTask
<1> HIDE DEF item, review
<1>6. Extended(items'[t], old, "review", req)
  <2>1. Extended(items'[t], item, "review", req)
    BY <1>3, <1>4, <1>5, SaveExtends
  <2>. QED BY <1>4, <2>1 DEF Extended
<1>. QED BY <1>1, <1>2, <1>3, <1>4, <1>5, <1>6, SaveExtends DEF OldRecord

LEMMA ReworkDoes ==
    ASSUME ItemsOK, NEW t \in Tasks, NEW req \in Request, Rework(t, req)
    PROVE  /\ OldRecord(t)
           /\ \A u \in Tasks \ {t} : items'[u] = items[u]
           /\ Extended(items'[t], items[t], "rework", req)
           /\ items[t].state = "test" /\ items[t].review # None /\ items[t].delivery # None
           /\ items'[t].state = "intake" /\ items'[t].pins = None
           /\ items'[t].delivery = None /\ items'[t].review = None
           /\ items'[t].attempts = WithRejection(items[t])
<1> DEFINE old == items[t]
           attempts == WithRejection(old)
           item == [old EXCEPT !.state = "intake", !.claim = None, !.pins = None,
                        !.delivery = None, !.review = None, !.attempts = attempts]
<1>1. /\ RecordOK(old) /\ old.state = "test" /\ old.state \notin Terminal
      /\ old.review # None /\ old.delivery # None
  BY FoundRecord DEF Rework, Admits, RecordOK, Filled
<1>2. attempts \in Seq(Attempt)
  <2>1. old.base \in Revisions /\ old.delivery.revision \in Revisions
    BY <1>1 DEF RecordOK, Filled, Item, Delivery
  <2>2. [kind |-> "rejected", base |-> old.base, revision |-> old.delivery.revision] \in Attempt
    BY <2>1 DEF Attempt
  <2>3. old.attempts \in Seq(Attempt)
    BY <1>1 DEF RecordOK, Item
  <2>. QED BY <2>2, <2>3 DEF WithRejection
<1>3. item \in Item
  BY <1>1, <1>2 DEF RecordOK, Item, States
<1>4. /\ item.state = "intake" /\ item.pins = None /\ item.delivery = None /\ item.review = None
      /\ item.attempts = attempts
      /\ item.history = old.history /\ item.version = old.version
      /\ item.contract = old.contract /\ item.policy = old.policy
  BY <1>1 DEF RecordOK, Item
<1>5. Save(t, "rework", req, item)
  BY DEF Rework
<1> HIDE DEF item
<1>6. Extended(items'[t], old, "rework", req)
  <2>1. Extended(items'[t], item, "rework", req)
    BY <1>3, <1>4, <1>5, SaveExtends
  <2>. QED BY <1>4, <2>1 DEF Extended
<1>. QED BY <1>1, <1>3, <1>4, <1>5, <1>6, SaveExtends DEF OldRecord

LEMMA CloseDoes ==
    ASSUME ItemsOK, NEW t \in Tasks, NEW req \in Request, Close(t, req)
    PROVE  /\ OldRecord(t)
           /\ \A u \in Tasks \ {t} : items'[u] = items[u]
           /\ Extended(items'[t], items[t], "close", req)
           /\ items[t].state = "release_gate" /\ items'[t].state = "done"
           /\ items[t].delivery # None
           /\ items'[t].base = items[t].base /\ items'[t].pins = items[t].pins
           /\ items'[t].delivery = items[t].delivery /\ items'[t].review = items[t].review
           /\ items'[t].attempts = items[t].attempts
<1> DEFINE old == items[t]
           closeout == [actor |-> req.actor, revision |-> req.revision]
           item == [old EXCEPT !.state = "done", !.closeout = closeout]
<1>1. /\ RecordOK(old) /\ old.state = "release_gate" /\ old.state \notin Terminal
      /\ old.delivery # None
  BY FoundRecord DEF Close, Admits, DeliveryOK
<1>2. closeout \in Closeout
  BY DEF Closeout, Request
<1>3. item \in Item
  BY <1>1, <1>2 DEF RecordOK, Item, States
<1>4. /\ item.state = "done" /\ item.base = old.base /\ item.pins = old.pins
      /\ item.delivery = old.delivery /\ item.review = old.review /\ item.attempts = old.attempts
      /\ item.history = old.history /\ item.version = old.version
      /\ item.contract = old.contract /\ item.policy = old.policy
  BY <1>1 DEF RecordOK, Item
<1>5. Save(t, "close", req, item)
  BY DEF Close
<1> HIDE DEF item
<1>6. Extended(items'[t], old, "close", req)
  <2>1. Extended(items'[t], item, "close", req)
    BY <1>3, <1>4, <1>5, SaveExtends
  <2>. QED BY <1>4, <2>1 DEF Extended
<1>. QED BY <1>1, <1>3, <1>4, <1>5, <1>6, SaveExtends DEF OldRecord

LEMMA CancelDoes ==
    ASSUME ItemsOK, NEW t \in Tasks, NEW req \in Request, Cancel(t, req)
    PROVE  /\ OldRecord(t)
           /\ \A u \in Tasks \ {t} : items'[u] = items[u]
           /\ Extended(items'[t], items[t], "cancel", req)
           /\ items'[t].state = "cancelled"
           /\ items'[t].base = items[t].base /\ items'[t].pins = items[t].pins
           /\ items'[t].delivery = items[t].delivery /\ items'[t].review = items[t].review
           /\ items'[t].attempts = items[t].attempts
<1> DEFINE old == items[t]
           closeout == [actor |-> req.actor, revision |-> None]
           item == [old EXCEPT !.state = "cancelled", !.claim = None, !.closeout = closeout]
<1>1. RecordOK(old) /\ old.state \notin Terminal
  BY FoundRecord DEF Cancel, Admits
<1>2. closeout \in Closeout
  BY DEF Closeout, Request
<1>3. item \in Item
  BY <1>1, <1>2 DEF RecordOK, Item, States
<1>4. /\ item.state = "cancelled" /\ item.base = old.base /\ item.pins = old.pins
      /\ item.delivery = old.delivery /\ item.review = old.review /\ item.attempts = old.attempts
      /\ item.history = old.history /\ item.version = old.version
      /\ item.contract = old.contract /\ item.policy = old.policy
  BY <1>1 DEF RecordOK, Item
<1>5. Save(t, "cancel", req, item)
  BY DEF Cancel
<1> HIDE DEF item
<1>6. Extended(items'[t], old, "cancel", req)
  <2>1. Extended(items'[t], item, "cancel", req)
    BY <1>3, <1>4, <1>5, SaveExtends
  <2>. QED BY <1>4, <2>1 DEF Extended
<1>. QED BY <1>1, <1>3, <1>4, <1>5, <1>6, SaveExtends DEF OldRecord

\* A step on t is one of the eight operations, asked for in a well formed request.
Operation(t, req) ==
    \/ \E contract \in Contract : Create(t, contract, req)
    \/ Claim(t, req) \/ Release(t, req) \/ Handoff(t, req) \/ ReviewTask(t, req)
    \/ Rework(t, req) \/ Close(t, req) \/ Cancel(t, req)

LEMMA OperationCases ==
    ASSUME IndInv, NEW t \in Tasks, Operate(t)
    PROVE  \E req \in Request : Operation(t, req)
<1>1. PICK op \in OperationIds(t), expected \in Observed(t), actor \in KnownActors :
        \/ \E c \in Contracts[t] : Create(t, c, Ask(op, expected, actor, None, None, None))
        \/ \E r \in 0..tip : Claim(t, Ask(op, expected, actor, None, r, None))
        \/ \E id \in ClaimIds(t) : Release(t, Ask(op, expected, actor, id, None, None))
        \/ \E id \in ClaimIds(t), r \in 0..tip :
              Handoff(t, Ask(op, expected, actor, id, r, None))
        \/ \E r \in 0..tip, j \in Judgments :
              ReviewTask(t, Ask(op, expected, actor, None, r, j))
        \/ Rework(t, Ask(op, expected, actor, None, None, None))
        \/ \E r \in 0..tip : Close(t, Ask(op, expected, actor, None, r, None))
        \/ Cancel(t, Ask(op, expected, actor, None, None, None))
  BY DEF Operate
<1>2. 0..tip \subseteq Revisions /\ ClaimIds(t) \subseteq Nat
  BY CheckoutAssumption DEF IndInv, CheckoutTypeOK, Revisions, ClaimIds
<1>3. \A c \in Nat \cup {None}, r \in Revisions \cup {None}, j \in Judgments \cup {None} :
         Ask(op, expected, actor, c, r, j) \in Request
  BY AskTyped
<1>4. Contracts[t] \subseteq Contract
  BY LifecycleAssumption
<1>. QED BY <1>1, <1>2, <1>3, <1>4 DEF Operation

\* An operation changes one record and nothing in the checkout.
LEMMA OperationFrame ==
    ASSUME IndInv, NEW t \in Tasks, NEW req \in Request, Operation(t, req)
    PROVE  /\ items[t].state \notin Terminal
           /\ \A u \in Tasks \ {t} : items'[u] = items[u]
           /\ UNCHANGED checkoutVars
<1>1. ItemsOK /\ policy \in Policies /\ tip \in Revisions
  BY DEF IndInv, FilesOK, CheckoutTypeOK
<1>2. ASSUME NEW contract \in Contract, Create(t, contract, req)
      PROVE  items[t].state \notin Terminal /\ (\A u \in Tasks \ {t} : items'[u] = items[u]) /\ UNCHANGED checkoutVars
  <2>1. NoItem.state \notin Terminal
    BY DEF NoItem, Terminal
  <2>. QED BY <1>1, <1>2, <2>1, CreateDoes DEF Create
<1>3. CASE Claim(t, req)
  BY <1>1, <1>3, ClaimDoes DEF OldRecord, Claim
<1>4. CASE Release(t, req)
  BY <1>1, <1>4, ReleaseDoes DEF OldRecord, Release
<1>5. CASE Handoff(t, req)
  BY <1>1, <1>5, HandoffDoes DEF OldRecord, Handoff
<1>6. CASE ReviewTask(t, req)
  BY <1>1, <1>6, ReviewDoes DEF OldRecord, ReviewTask
<1>7. CASE Rework(t, req)
  BY <1>1, <1>7, ReworkDoes DEF OldRecord, Rework
<1>8. CASE Close(t, req)
  BY <1>1, <1>8, CloseDoes DEF OldRecord, Close
<1>9. CASE Cancel(t, req)
  BY <1>1, <1>9, CancelDoes DEF OldRecord, Cancel
<1>. QED BY <1>2, <1>3, <1>4, <1>5, <1>6, <1>7, <1>8, <1>9 DEF Operation

\* Everything else leaves the records alone.
LEMMA EnvironmentFrame ==
    ASSUME Environment \/ UNCHANGED vars
    PROVE  items' = items
BY DEF Environment, EditPolicy, Expire, Alter, WorkInCheckout, vars, lifecycleVars

-----------------------------------------------------------------------------
(* The history. *)

\* One event for each version, no operation twice.
Kept(item) ==
    /\ Len(item.history) = item.version
    /\ \A i, j \in 1..item.version :
          item.history[i].request.op = item.history[j].request.op => i = j

\* The last k + 1 events lead from the claim to where the task is.
Path(item, k) ==
    LET h == item.history
        c == item.version - k
    IN  /\ c >= 2
        /\ h[c].action = "claim" /\ h[c].request.revision = item.base
        /\ k >= 1 =>
              /\ h[c + 1].action = "handoff" /\ h[c + 1].request.claim = c
              /\ h[c + 1].request.revision = item.delivery.revision
              /\ item.delivery.claim = c
        /\ k >= 2 => h[c + 2].action = "review"
        /\ k >= 3 => h[c + 3].action = "close"

Trail(item) ==
    /\ item.state # "absent" => item.version >= 1
    /\ item.state = "build" => Path(item, 0) /\ item.claim.id = item.version
    /\ item.state = "test" /\ item.review = None => Path(item, 1)
    /\ item.state = "release_gate" => Path(item, 2)
    /\ item.state = "done" => Path(item, 3)

HistoryOK == \A t \in Tasks : Kept(items[t]) /\ Trail(items[t])

LEMMA ExtendedKeepsHistory ==
    ASSUME NEW old \in Item, NEW new, NEW action, NEW req \in Request, Kept(old),
           Extended(new, old, action, req), req.op \notin OperationsOf(old)
    PROVE  /\ Kept(new) /\ new.version = old.version + 1
           /\ \A i \in 1..old.version : new.history[i] = old.history[i]
           /\ new.history[new.version].action = action
           /\ new.history[new.version].request = req
<1>1. /\ old.history \in Seq(Event) /\ old.version \in Nat
      /\ DOMAIN old.history = 1..old.version
  BY DEF Item, Kept
<1>2. /\ new.version = old.version + 1 /\ Len(new.history) = new.version
      /\ \A i \in 1..old.version : new.history[i] = old.history[i]
      /\ new.history[new.version].action = action
      /\ new.history[new.version].request = req
  BY <1>1 DEF Extended, Kept
<1>3. \A i \in 1..old.version : old.history[i].request.op # req.op
  BY <1>1 DEF OperationsOf
<1>4. ASSUME NEW i \in 1..new.version, NEW j \in 1..new.version,
             new.history[i].request.op = new.history[j].request.op
      PROVE  i = j
  <2>1. i \in 1..old.version \/ i = new.version
    BY <1>1, <1>2
  <2>2. j \in 1..old.version \/ j = new.version
    BY <1>1, <1>2
  <2>3. CASE i \in 1..old.version /\ j \in 1..old.version
    BY <1>2, <1>4, <2>3 DEF Kept
  <2>4. CASE i = new.version /\ j \in 1..old.version
    BY <1>2, <1>3, <1>4, <2>4
  <2>5. CASE i \in 1..old.version /\ j = new.version
    BY <1>2, <1>3, <1>4, <2>5
  <2>. QED BY <2>1, <2>2, <2>3, <2>4, <2>5
<1>. QED BY <1>2, <1>4 DEF Kept

\* A path grows by the event of the operation.
LEMMA PathGrows ==
    ASSUME NEW old \in Item, NEW new, NEW action, NEW req \in Request, Kept(old),
           Extended(new, old, action, req), req.op \notin OperationsOf(old),
           NEW k \in {1, 2}, Path(old, k), new.base = old.base, new.delivery = old.delivery,
           action = IF k = 1 THEN "review" ELSE "close"
    PROVE  Path(new, k + 1)
<1>1. old.version \in Nat
  BY DEF Item
<1> DEFINE c == old.version - k
<1>2. c \in 2..old.version /\ c + 1 \in 1..old.version /\ c = new.version - (k + 1)
      /\ c + k + 1 = new.version
  BY <1>1, ExtendedKeepsHistory DEF Path
<1>3. /\ new.history[c] = old.history[c] /\ new.history[c + 1] = old.history[c + 1]
      /\ new.history[c + k + 1].action = action
      /\ k = 2 => new.history[c + 2] = old.history[c + 2]
  <2>1. k = 2 => c + 2 \in 1..old.version
    BY <1>1, <1>2
  <2>. QED BY <1>2, <2>1, ExtendedKeepsHistory
<1>4. /\ old.history[c].action = "claim" /\ old.history[c].request.revision = old.base
      /\ old.history[c + 1].action = "handoff" /\ old.history[c + 1].request.claim = c
      /\ old.history[c + 1].request.revision = old.delivery.revision /\ old.delivery.claim = c
      /\ k = 2 => old.history[c + 2].action = "review"
  BY DEF Path
<1>5. CASE k = 1
  BY <1>2, <1>3, <1>4, <1>5 DEF Path
<1>6. CASE k = 2
  BY <1>2, <1>3, <1>4, <1>6 DEF Path
<1>. QED BY <1>5, <1>6

LEMMA OperationKeepsHistory ==
    ASSUME IndInv, HistoryOK, NEW t \in Tasks, NEW req \in Request, Operation(t, req)
    PROVE  Kept(items'[t]) /\ Trail(items'[t])
<1> DEFINE old == items[t]
           new == items'[t]
<1>1. ItemsOK /\ policy \in Policies /\ tip \in Revisions
  BY DEF IndInv, FilesOK, CheckoutTypeOK
<1>2. Kept(old) /\ Trail(old)
  BY DEF HistoryOK
<1>3. ASSUME OldRecord(t)
      PROVE  old \in Item /\ old.version \in Nat /\ old.version >= 1
  <2>1. old \in Item /\ old.state # "absent"
    BY <1>3 DEF OldRecord, RecordOK, Filled
  <2>. QED BY <1>2, <2>1 DEF Trail, Item
<1>4. ASSUME NEW contract \in Contract, Create(t, contract, req)
      PROVE  Kept(new) /\ Trail(new)
  <2>1. new.version = 1 /\ Len(new.history) = 1 /\ new.state = "intake"
    BY <1>1, <1>4, CreateDoes
  <2>. QED BY <2>1 DEF Kept, Trail
<1>5. CASE Claim(t, req)
  <2>1. /\ OldRecord(t) /\ Extended(new, old, "claim", req) /\ new.state = "build"
        /\ new.base = req.revision /\ new.claim.id = old.version + 1
        /\ req.op \notin OperationsOf(old)
    BY <1>1, <1>5, ClaimDoes DEF Claim, Admits
  <2>2. Kept(new) /\ new.version = old.version + 1
        /\ new.history[new.version].action = "claim" /\ new.history[new.version].request = req
    BY <1>2, <1>3, <2>1, ExtendedKeepsHistory
  <2>3. Path(new, 0)
    BY <1>3, <2>1, <2>2 DEF Path
  <2>. QED BY <1>3, <2>1, <2>2, <2>3 DEF Trail
<1>6. CASE Release(t, req)
  <2>1. OldRecord(t) /\ Extended(new, old, "release", req) /\ new.state = "intake"
        /\ req.op \notin OperationsOf(old)
    BY <1>1, <1>6, ReleaseDoes DEF Release, Admits
  <2>2. Kept(new) /\ new.version = old.version + 1
    BY <1>2, <1>3, <2>1, ExtendedKeepsHistory
  <2>. QED BY <1>3, <2>1, <2>2 DEF Trail
<1>7. CASE Handoff(t, req)
  <2>1. /\ OldRecord(t) /\ Extended(new, old, "handoff", req) /\ new.state = "test"
        /\ old.state = "build" /\ old.claim.id = req.claim
        /\ new.base = old.base /\ new.delivery = Delivered(old, req)
        /\ req.op \notin OperationsOf(old)
    BY <1>1, <1>7, HandoffDoes DEF Handoff, Admits
  <2>2. /\ Kept(new) /\ new.version = old.version + 1
        /\ \A i \in 1..old.version : new.history[i] = old.history[i]
        /\ new.history[new.version].action = "handoff" /\ new.history[new.version].request = req
    BY <1>2, <1>3, <2>1, ExtendedKeepsHistory
  <2>3. new.delivery.revision = req.revision /\ new.delivery.claim = old.version
        /\ req.claim = old.version
    BY <1>2, <2>1 DEF Trail, Delivered
  <2>4. /\ old.version >= 2 /\ old.history[old.version].action = "claim"
        /\ old.history[old.version].request.revision = old.base
    BY <1>2, <1>3, <2>1 DEF Trail, Path
  <2>5. new.history[old.version] = old.history[old.version] /\ old.version = new.version - 1
    BY <1>3, <2>1, <2>2
  <2>6. Path(new, 1)
    BY <1>3, <2>1, <2>2, <2>3, <2>4, <2>5 DEF Path
  <2>. QED BY <1>3, <2>1, <2>2, <2>6 DEF Trail
<1>8. CASE ReviewTask(t, req)
  <2>1. /\ OldRecord(t) /\ Extended(new, old, "review", req)
        /\ old.state = "test" /\ old.review = None /\ new.review # None
        /\ new.state \in {"test", "release_gate"}
        /\ new.base = old.base /\ new.delivery = old.delivery
        /\ req.op \notin OperationsOf(old)
    BY <1>1, <1>8, ReviewDoes DEF ReviewTask, Admits
  <2>2. Kept(new) /\ new.version = old.version + 1
    BY <1>2, <1>3, <2>1, ExtendedKeepsHistory
  <2>3. Path(old, 1)
    BY <1>2, <2>1 DEF Trail
  <2>4. Path(new, 1 + 1)
    BY <1>2, <1>3, <2>1, <2>3, PathGrows
  <2>. QED BY <1>3, <2>1, <2>2, <2>4 DEF Trail
<1>9. CASE Rework(t, req)
  <2>1. OldRecord(t) /\ Extended(new, old, "rework", req) /\ new.state = "intake"
        /\ req.op \notin OperationsOf(old)
    BY <1>1, <1>9, ReworkDoes DEF Rework, Admits
  <2>2. Kept(new) /\ new.version = old.version + 1
    BY <1>2, <1>3, <2>1, ExtendedKeepsHistory
  <2>. QED BY <1>3, <2>1, <2>2 DEF Trail
<1>10. CASE Close(t, req)
  <2>1. /\ OldRecord(t) /\ Extended(new, old, "close", req)
        /\ old.state = "release_gate" /\ new.state = "done"
        /\ new.base = old.base /\ new.delivery = old.delivery
        /\ req.op \notin OperationsOf(old)
    BY <1>1, <1>10, CloseDoes DEF Close, Admits
  <2>2. Kept(new) /\ new.version = old.version + 1
    BY <1>2, <1>3, <2>1, ExtendedKeepsHistory
  <2>3. Path(old, 2)
    BY <1>2, <2>1 DEF Trail
  <2>4. Path(new, 2 + 1)
    BY <1>2, <1>3, <2>1, <2>3, PathGrows
  <2>. QED BY <1>3, <2>1, <2>2, <2>4 DEF Trail
<1>11. CASE Cancel(t, req)
  <2>1. OldRecord(t) /\ Extended(new, old, "cancel", req) /\ new.state = "cancelled"
        /\ req.op \notin OperationsOf(old)
    BY <1>1, <1>11, CancelDoes DEF Cancel, Admits
  <2>2. Kept(new) /\ new.version = old.version + 1
    BY <1>2, <1>3, <2>1, ExtendedKeepsHistory
  <2>. QED BY <1>3, <2>1, <2>2 DEF Trail
<1>. QED BY <1>4, <1>5, <1>6, <1>7, <1>8, <1>9, <1>10, <1>11 DEF Operation

LEMMA HistoryKeeps ==
    ASSUME IndInv, HistoryOK, [Next]_vars
    PROVE  HistoryOK'
<1>1. ASSUME NEW t \in Tasks, Operate(t)
      PROVE  HistoryOK'
  <2>1. PICK req \in Request : Operation(t, req)
    BY <1>1, OperationCases
  <2>2. \A u \in Tasks \ {t} : items'[u] = items[u]
    BY <2>1, OperationFrame
  <2>3. Kept(items'[t]) /\ Trail(items'[t])
    BY <2>1, OperationKeepsHistory
  <2>. QED BY <2>2, <2>3 DEF HistoryOK
<1>2. CASE Environment \/ UNCHANGED vars
  BY <1>2, EnvironmentFrame DEF HistoryOK
<1>. QED BY <1>1, <1>2 DEF Next

\* One event for each version, and from the claim on one for each step, in every
\* reachable state.
THEOREM HistoriesAreKept == Spec => []HistoryOK
<1>1. Init => HistoryOK
  BY DEF Init, NoItem, HistoryOK, Kept, Trail
<1>. QED BY <1>1, Inductive, HistoryKeeps, PTL DEF Spec

\* The history of an accepted task ends with one unbroken lineage of claim, handoff,
\* review and close, through any number of earlier attempts, releases and retries.
THEOREM LineageIsUnbroken == Spec => []AcceptedLineage
<1>1. IndInv /\ HistoryOK => AcceptedLineage
  <2>1. SUFFICES ASSUME IndInv, HistoryOK, NEW t \in Tasks, items[t].state = "done"
                 PROVE  LET h == items[t].history
                            n == Len(h)
                        IN  /\ n >= 5
                            /\ [i \in 1..4 |-> h[n - 4 + i].action] = <<"claim", "handoff", "review", "close">>
                            /\ items[t].delivery.claim = n - 3
                            /\ h[n - 2].request.claim = n - 3
                            /\ h[n - 3].request.revision = items[t].base
                            /\ h[n - 2].request.revision = items[t].delivery.revision
    BY DEF AcceptedLineage
  <2> DEFINE h == items[t].history
             n == Len(h)
  <2>2. items[t] \in Item
    BY <2>1, FoundRecord DEF IndInv, Exists, RecordOK
  <2>3. n = items[t].version /\ n \in Nat /\ Path(items[t], 3)
    BY <2>1, <2>2 DEF HistoryOK, Kept, Trail, Item
  <2>4. /\ n >= 5 /\ h[n - 3].action = "claim" /\ h[n - 3 + 1].action = "handoff"
        /\ h[n - 3 + 2].action = "review" /\ h[n - 3 + 3].action = "close"
        /\ h[n - 3].request.revision = items[t].base /\ h[n - 3 + 1].request.claim = n - 3
        /\ h[n - 3 + 1].request.revision = items[t].delivery.revision
        /\ items[t].delivery.claim = n - 3
    BY <2>3 DEF Path
  <2> HIDE DEF h, n
  <2>5. /\ n - 4 + 1 = n - 3 /\ n - 4 + 2 = n - 3 + 1 /\ n - 4 + 3 = n - 3 + 2
        /\ n - 4 + 4 = n - 3 + 3 /\ n - 2 = n - 3 + 1
    <3>1. n \in Nat
      BY <2>3
    <3>2. \A m \in Nat : m - 4 + 1 = m - 3 /\ m - 4 + 2 = m - 3 + 1
      OBVIOUS
    <3>3. \A m \in Nat : m - 4 + 3 = m - 3 + 2 /\ m - 4 + 4 = m - 3 + 3
      OBVIOUS
    <3>4. \A m \in Nat : m - 2 = m - 3 + 1
      OBVIOUS
    <3>. QED BY <3>1, <3>2, <3>3, <3>4
  <2>6. [i \in 1..4 |-> h[n - 4 + i].action] = <<"claim", "handoff", "review", "close">>
    BY <2>4, <2>5
  <2>7. n >= 5 /\ items[t].delivery.claim = n - 3 /\ h[n - 2].request.claim = n - 3
        /\ h[n - 3].request.revision = items[t].base
        /\ h[n - 2].request.revision = items[t].delivery.revision
    BY <2>4, <2>5
  <2>. QED BY <2>6, <2>7 DEF h, n
<1>. QED BY <1>1, Inductive, HistoriesAreKept, PTL

\* A request that arrives again, however late, leaves no second event.
THEOREM OperationsAreAppliedOnce == Spec => []OperationsApplyOnce
<1>1. IndInv /\ HistoryOK => OperationsApplyOnce
  <2>1. SUFFICES ASSUME IndInv, HistoryOK, NEW t \in Tasks,
                        NEW i \in DOMAIN items[t].history, NEW j \in DOMAIN items[t].history,
                        items[t].history[i].request.op = items[t].history[j].request.op
                 PROVE  i = j
    BY DEF OperationsApplyOnce
  <2>2. items[t].history \in Seq(Event)
    <3>1. items[t] \in Item \cup {NoItem}
      BY <2>1 DEF IndInv, ItemsOK
    <3>2. CASE items[t] = NoItem
      BY <3>2 DEF NoItem
    <3>3. CASE items[t] \in Item
      BY <3>3 DEF Item
    <3>. QED BY <3>1, <3>2, <3>3
  <2>3. DOMAIN items[t].history = 1..Len(items[t].history)
    BY <2>2
  <2>. QED BY <2>1, <2>3 DEF HistoryOK, Kept
<1>. QED BY <1>1, Inductive, HistoriesAreKept, PTL

-----------------------------------------------------------------------------
(* Accepted tasks, their dependencies and their candidates. *)

\* Ancestry, of the commits there are.
Ancestry ==
    \A r \in 0..tip : /\ r \in anc[r] /\ anc[r] \subseteq 0..tip
                      /\ \A x \in anc[r] : anc[x] \subseteq anc[r]

\* Ignored records are in no commit.
Untracked == ~RecordsTracked => \A r \in 0..tip : seen[r] = NothingRecorded

\* What close found when it accepted the item of t.
Sound(t, item) ==
    LET r == item.delivery.revision
    IN  /\ r \in 0..tip /\ item.base \in 0..tip
        /\ IsAncestor(item.base, r)
        /\ ChangedRoots(item.base, r) \subseteq item.contract.roots
        /\ RecordsTracked => ChangedRecords(item.base, r) \subseteq {t}
        /\ \A d \in item.contract.deps :
              /\ Accepted(items[d])
              /\ IsAncestor(items[d].delivery.revision, item.base)

GroupOK ==
    /\ Ancestry /\ Untracked
    /\ \A t \in Tasks : items[t].state = "done" => Sound(t, items[t])
    /\ PinnedDependenciesStand

\* Commits are never rewritten.
CommitsStand ==
    \A r \in 0..tip : /\ r \in 0..tip'
                      /\ anc'[r] = anc[r] /\ wrote'[r] = wrote[r] /\ seen'[r] = seen[r]

LEMMA CommitAppends ==
    ASSUME CheckoutTypeOK, NEW W, NEW staged, NEW version, Commit(W, staged, version)
    PROVE  /\ tip' = tip + 1 /\ tip + 1 \in Revisions /\ tip \in Nat /\ head \in 0..tip
           /\ anc'[tip + 1] = anc[head] \cup {tip + 1}
           /\ seen'[tip + 1] = IF staged THEN version ELSE seen[head]
           /\ CommitsStand
<1>1. tip' = tip + 1 /\ tip \in Nat /\ tip + 1 \in Revisions /\ head \in 0..tip
  BY CheckoutAssumption DEF CheckoutTypeOK, Commit, Revisions
<1>2. 0..tip \subseteq Revisions
  BY <1>1, CheckoutAssumption DEF Revisions
<1>3. CommitsStand
  BY <1>1, <1>2 DEF CommitsStand, CheckoutTypeOK, Commit
<1>. QED BY <1>1, <1>3 DEF CheckoutTypeOK, Commit

\* What a step does to the commits.
LEMMA CheckoutSteps ==
    ASSUME IndInv, [Next]_vars
    PROVE  \/ tip' = tip /\ anc' = anc /\ wrote' = wrote /\ seen' = seen
           \/ \E W \in SUBSET dirty, staged \in BOOLEAN : Commit(W, staged, RecordVersions)
<1>1. ASSUME NEW t \in Tasks, Operate(t)
      PROVE  UNCHANGED checkoutVars
  BY <1>1, OperationCases, OperationFrame
<1>2. CASE WorkInCheckout
  BY <1>2 DEF WorkInCheckout, CheckoutNext, Edit, Discard, Switch
<1>3. CASE \/ \E p \in Policies : EditPolicy(p)
           \/ \E t \in Tasks : Expire(t) \/ \E kind \in PinKinds : Alter(t, kind)
  BY <1>3 DEF EditPolicy, Expire, Alter, checkoutVars
<1>4. CASE UNCHANGED vars
  BY <1>4 DEF vars, checkoutVars
<1>. QED BY <1>1, <1>2, <1>3, <1>4 DEF Next, Environment, checkoutVars

LEMMA CheckoutStands ==
    ASSUME IndInv, [Next]_vars, Ancestry, Untracked
    PROVE  CommitsStand /\ Ancestry' /\ Untracked'
<1>1. CheckoutTypeOK
  BY DEF IndInv
<1>2. CASE tip' = tip /\ anc' = anc /\ wrote' = wrote /\ seen' = seen
  BY <1>2 DEF CommitsStand, Ancestry, Untracked
<1>3. ASSUME NEW W \in SUBSET dirty, NEW staged \in BOOLEAN, Commit(W, staged, RecordVersions)
      PROVE  CommitsStand /\ Ancestry' /\ Untracked'
  <2>1. /\ tip' = tip + 1 /\ tip \in Nat /\ head \in 0..tip /\ CommitsStand
        /\ anc'[tip + 1] = anc[head] \cup {tip + 1}
        /\ seen'[tip + 1] = IF staged THEN RecordVersions ELSE seen[head]
    BY <1>1, <1>3, CommitAppends
  <2>2. ASSUME NEW r \in 0..tip'
        PROVE  /\ r \in anc'[r] /\ anc'[r] \subseteq 0..tip'
               /\ \A x \in anc'[r] : anc'[x] \subseteq anc'[r]
    <3>1. CASE r \in 0..tip
      <4>1. anc'[r] = anc[r] /\ anc[r] \subseteq 0..tip /\ r \in anc[r]
        BY <2>1, <3>1 DEF CommitsStand, Ancestry
      <4>2. \A x \in anc[r] : anc'[x] = anc[x] /\ anc[x] \subseteq anc[r]
        BY <2>1, <3>1, <4>1 DEF CommitsStand, Ancestry
      <4>3. 0..tip \subseteq 0..tip'
        BY <2>1
      <4>. QED BY <4>1, <4>2, <4>3
    <3>2. CASE r = tip + 1
      <4>1. anc'[r] = anc[head] \cup {r} /\ anc[head] \subseteq 0..tip
        BY <2>1, <3>2 DEF Ancestry
      <4>2. ASSUME NEW x \in anc[head] PROVE anc'[x] \subseteq anc[head]
        BY <2>1, <4>1 DEF CommitsStand, Ancestry
      <4>3. 0..tip \subseteq 0..tip' /\ r \in 0..tip'
        BY <2>1, <3>2
      <4>. QED BY <4>1, <4>2, <4>3
    <3>3. r \in 0..tip \/ r = tip + 1
      BY <2>1
    <3>. QED BY <3>1, <3>2, <3>3
  <2>3. ASSUME ~RecordsTracked, NEW r \in 0..tip' PROVE seen'[r] = NothingRecorded
    <3>1. r \in 0..tip \/ r = tip + 1
      BY <2>1
    <3>2. ~staged
      BY <1>3, <2>3 DEF Commit
    <3>3. seen[head] = NothingRecorded
      BY <2>1, <2>3 DEF Untracked
    <3>4. r \in 0..tip => seen'[r] = NothingRecorded
      BY <2>1, <2>3 DEF Untracked, CommitsStand
    <3>. QED BY <2>1, <3>1, <3>2, <3>3, <3>4
  <2>. QED BY <2>1, <2>2, <2>3 DEF Ancestry, Untracked, NothingRecorded
<1>. QED BY <1>2, <1>3, CheckoutSteps

\* What Git says of two commits stands with them.
LEMMA AnswersOfGitStand ==
    ASSUME Ancestry, CommitsStand, NEW a \in 0..tip, NEW b \in 0..tip
    PROVE  /\ anc'[b] = anc[b]
           /\ ChangedRoots(a, b)' = ChangedRoots(a, b)
           /\ ChangedRecords(a, b)' = ChangedRecords(a, b)
<1>1. /\ anc'[a] = anc[a] /\ anc'[b] = anc[b] /\ anc[a] \subseteq 0..tip /\ anc[b] \subseteq 0..tip
      /\ seen'[a] = seen[a] /\ seen'[b] = seen[b]
  BY DEF CommitsStand, Ancestry
<1>2. \A r \in (anc[a] \ anc[b]) \cup (anc[b] \ anc[a]) : wrote'[r] = wrote[r]
  BY <1>1 DEF CommitsStand
<1>3. UNION {wrote'[r] : r \in (anc'[a] \ anc'[b]) \cup (anc'[b] \ anc'[a])}
      = UNION {wrote[r] : r \in (anc[a] \ anc[b]) \cup (anc[b] \ anc[a])}
  BY <1>1, <1>2
<1>4. {t \in Tasks : seen'[a][t] # seen'[b][t]} = {t \in Tasks : seen[a][t] # seen[b][t]}
  BY <1>1
<1>. QED BY <1>1, <1>3, <1>4 DEF ChangedRoots, ChangedRecords

LEMMA SoundStands ==
    ASSUME Ancestry, CommitsStand, NEW t \in Tasks, NEW item, Sound(t, item),
           \A d \in item.contract.deps : items'[d] = items[d]
    PROVE  Sound(t, item)'
<1> DEFINE r == item.delivery.revision
<1>1. r \in 0..tip /\ item.base \in 0..tip
  BY DEF Sound
<1>2. r \in 0..tip' /\ item.base \in 0..tip'
  BY <1>1 DEF CommitsStand
<1>3. /\ anc'[r] = anc[r] /\ anc'[item.base] = anc[item.base]
      /\ ChangedRoots(item.base, r)' = ChangedRoots(item.base, r)
      /\ ChangedRecords(item.base, r)' = ChangedRecords(item.base, r)
  BY <1>1, AnswersOfGitStand
<1>. QED BY <1>1, <1>2, <1>3 DEF Sound, IsAncestor

\* What is over stays as it is.
LEMMA DoneStays ==
    ASSUME IndInv, [Next]_vars, NEW d \in Tasks, items[d].state = "done"
    PROVE  items'[d] = items[d]
<1>1. ASSUME NEW t \in Tasks, Operate(t) PROVE items'[d] = items[d]
  <2>1. PICK req \in Request : Operation(t, req)
    BY <1>1, OperationCases
  <2>2. items[t].state \notin Terminal /\ \A u \in Tasks \ {t} : items'[u] = items[u]
    BY <2>1, OperationFrame
  <2>. QED BY <2>2 DEF Terminal
<1>2. CASE Environment \/ UNCHANGED vars
  BY <1>2, EnvironmentFrame
<1>. QED BY <1>1, <1>2 DEF Next

LEMMA CloseFinds ==
    ASSUME IndInv, GroupOK, NEW t \in Tasks, NEW req \in Request, Close(t, req)
    PROVE  Sound(t, items[t])
<1> DEFINE item == items[t]
           r == item.delivery.revision
<1>1. /\ RecordOK(item) /\ item.state = "release_gate"
      /\ CandidateOK(t, item, r) /\ DependenciesHold(item)
  BY FoundRecord DEF IndInv, Close, Admits, DeliveryOK, Dependencies
<1>2. r \in 0..tip /\ IsAncestor(item.base, r) /\ ChangedRoots(item.base, r) \subseteq item.contract.roots
      /\ (RecordsTracked => ChangedRecords(item.base, r) \subseteq {t})
  BY <1>1 DEF CandidateOK, IsCommit
<1>3. item.base \in 0..tip
  BY <1>2 DEF GroupOK, Ancestry, IsAncestor
<1>4. item.base # None
  BY <1>1 DEF RecordOK, Filled
<1>. QED BY <1>1, <1>2, <1>3, <1>4 DEF Sound, DependenciesHold

LEMMA AcceptedStaySound ==
    ASSUME IndInv, GroupOK, [Next]_vars, NEW t \in Tasks, items'[t].state = "done"
    PROVE  Sound(t, items[t])'
<1>1. Ancestry /\ CommitsStand
  BY CheckoutStands DEF GroupOK
<1>2. ASSUME NEW item, Sound(t, item), item.contract.deps \subseteq Tasks, item = items'[t]
      PROVE  Sound(t, items[t])'
  <2>1. \A d \in item.contract.deps : items'[d] = items[d]
    BY <1>2, DoneStays DEF Sound, Accepted
  <2>2. Sound(t, item)'
    BY <1>1, <1>2, <2>1, SoundStands
  <2>. QED BY <1>2, <2>2 DEF Sound, IsAncestor, ChangedRoots, ChangedRecords
<1>3. CASE items[t].state = "done"
  <2>1. items'[t] = items[t]
    BY <1>3, DoneStays
  <2>2. Sound(t, items[t])
    BY <1>3 DEF GroupOK
  <2>3. items[t].contract.deps \subseteq Tasks
    BY <1>3, FoundRecord DEF IndInv, Exists, RecordOK, Item, Contract
  <2>4. PICK item : item = items[t]
    OBVIOUS
  <2>. QED BY <1>2, <2>1, <2>2, <2>3, <2>4
<1>4. CASE items[t].state # "done"
  <2>1. PICK u \in Tasks, req \in Request : Operation(u, req)
    BY <1>4, OperationCases, EnvironmentFrame DEF Next
  <2>2. u = t
    BY <1>4, <2>1, OperationFrame
  <2>3. Close(t, req)
    BY <2>1, <2>2, <1>4, CreateDoes, ClaimDoes, ReleaseDoes, HandoffDoes, ReviewDoes, ReworkDoes, CancelDoes
       DEF Operation, IndInv, FilesOK, CheckoutTypeOK
  <2>4. /\ items'[t].contract = items[t].contract /\ items'[t].base = items[t].base
        /\ items'[t].delivery = items[t].delivery
    BY <2>3, CloseDoes DEF IndInv, Extended
  <2>5. Sound(t, items[t]) /\ RecordOK(items[t])
    BY <2>3, CloseFinds, CloseDoes DEF IndInv, OldRecord
  <2>6. items[t].contract.deps \subseteq Tasks
    BY <2>5 DEF RecordOK, Item, Contract
  <2>7. PICK item : item = items'[t]
    OBVIOUS
  <2>8. Sound(t, item)
    BY <2>4, <2>5, <2>7 DEF Sound
  <2>. QED BY <1>2, <2>4, <2>6, <2>7, <2>8
<1>. QED BY <1>3, <1>4

\* Accepted dependencies are over, so they stand, at the version they have.
LEMMA AcceptedStand ==
    ASSUME IndInv, [Next]_vars, NEW deps \in SUBSET Tasks, \A d \in deps : Accepted(items[d])
    PROVE  /\ \A d \in deps : items'[d] = items[d]
           /\ \A d \in deps : Accepted(items[d])'
           /\ PinsOf(deps)' = PinsOf(deps)
<1>1. \A d \in deps : items'[d] = items[d]
  BY DoneStays DEF Accepted
<1>2. \A d \in deps : Accepted(items[d])'
  BY <1>1 DEF Accepted, Passed
<1>3. \A d \in Tasks : (IF d \in deps THEN items'[d].version ELSE 0)
                       = (IF d \in deps THEN items[d].version ELSE 0)
  BY <1>1
<1>. QED BY <1>1, <1>2, <1>3 DEF PinsOf

LEMMA ClaimFinds ==
    ASSUME IndInv, NEW t \in Tasks, NEW req \in Request, Claim(t, req)
    PROVE  \A d \in items[t].contract.deps : Accepted(items[d])
<1>1. RecordOK(items[t])
  BY FoundRecord DEF IndInv, Claim, Admits
<1>2. [items[t] EXCEPT !.base = req.revision].contract = items[t].contract
  BY <1>1 DEF RecordOK, Item
<1>3. DependenciesHold([items[t] EXCEPT !.base = req.revision])
  BY DEF Claim, Dependencies
<1>. QED BY <1>2, <1>3 DEF DependenciesHold

LEMMA PinsKeep ==
    ASSUME IndInv, PinnedDependenciesStand, [Next]_vars
    PROVE  PinnedDependenciesStand'
<1> SUFFICES ASSUME NEW t \in Tasks, items'[t].state # "absent", items'[t].pins # None
             PROVE  /\ \A d \in items'[t].contract.deps : Accepted(items[d])'
                    /\ items'[t].pins = PinsOf(items[t].contract.deps)'
  BY DEF PinnedDependenciesStand, PinsOf, Accepted, Passed
<1>1. ASSUME NEW deps \in SUBSET Tasks, \A d \in deps : Accepted(items[d]),
             items'[t].pins = PinsOf(deps), items'[t].contract.deps = deps
      PROVE  /\ \A d \in items'[t].contract.deps : Accepted(items[d])'
             /\ items'[t].pins = PinsOf(items[t].contract.deps)'
  <2>1. (\A d \in deps : Accepted(items[d])') /\ PinsOf(deps)' = PinsOf(deps)
    BY <1>1, AcceptedStand
  <2>. QED BY <1>1, <2>1 DEF PinsOf
<1>2. ASSUME RecordOK(items[t]), items'[t].pins = items[t].pins,
             items'[t].contract = items[t].contract
      PROVE  /\ \A d \in items'[t].contract.deps : Accepted(items[d])'
             /\ items'[t].pins = PinsOf(items[t].contract.deps)'
  <2>1. items[t].contract.deps \in SUBSET Tasks /\ items[t].state # "absent"
    BY <1>2 DEF RecordOK, Filled, Item, Contract
  <2>2. /\ \A d \in items[t].contract.deps : Accepted(items[d])
        /\ items[t].pins = PinsOf(items[t].contract.deps)
    BY <1>2, <2>1 DEF PinnedDependenciesStand
  <2>. QED BY <1>1, <1>2, <2>1, <2>2
<1>3. CASE items'[t] = items[t]
  BY <1>2, <1>3, FoundRecord DEF IndInv, Exists
<1>4. CASE items'[t] # items[t]
  <2>1. PICK u \in Tasks, req \in Request : Operation(u, req)
    BY <1>4, OperationCases, EnvironmentFrame DEF Next
  <2>2. u = t
    BY <1>4, <2>1, OperationFrame
  <2>3. ItemsOK /\ policy \in Policies /\ tip \in Revisions
    BY DEF IndInv, FilesOK, CheckoutTypeOK
  <2>4. CASE Claim(t, req)
    <3>1. /\ items'[t].pins = PinsOf(items[t].contract.deps) /\ RecordOK(items[t])
          /\ items'[t].contract = items[t].contract
      BY <2>3, <2>4, ClaimDoes DEF OldRecord, Extended
    <3>2. items[t].contract.deps \in SUBSET Tasks
      BY <3>1 DEF RecordOK, Item, Contract
    <3>. QED BY <1>1, <2>4, <3>1, <3>2, ClaimFinds
  <2>5. CASE Handoff(t, req) \/ ReviewTask(t, req) \/ Close(t, req) \/ Cancel(t, req)
    <3>1. /\ items'[t].pins = items[t].pins /\ RecordOK(items[t])
          /\ items'[t].contract = items[t].contract
      BY <2>3, <2>5, HandoffDoes, ReviewDoes, CloseDoes, CancelDoes DEF OldRecord, Extended
    <3>. QED BY <1>2, <3>1
  <2>6. CASE \/ \E contract \in Contract : Create(t, contract, req)
             \/ Release(t, req) \/ Rework(t, req)
    BY <2>3, <2>6, CreateDoes, ReleaseDoes, ReworkDoes
  <2>. QED BY <2>1, <2>2, <2>4, <2>5, <2>6 DEF Operation
<1>. QED BY <1>3, <1>4

LEMMA GroupKeeps ==
    ASSUME IndInv, GroupOK, [Next]_vars
    PROVE  GroupOK'
<1>1. Ancestry' /\ Untracked'
  BY CheckoutStands DEF GroupOK
<1>2. PinnedDependenciesStand'
  BY PinsKeep DEF GroupOK
<1>3. \A t \in Tasks : items'[t].state = "done" => Sound(t, items[t])'
  BY AcceptedStaySound
<1>. QED BY <1>1, <1>2, <1>3 DEF GroupOK

\* Commits keep their ancestries, and what close found stays true of what it
\* accepted, in every reachable state.
THEOREM GroupInductive == Spec => []GroupOK
<1>1. Init => GroupOK
  <2>1. SUFFICES ASSUME Init PROVE GroupOK
    OBVIOUS
  <2>2. tip = 0 /\ 0..tip = {0} /\ anc[0] = {0} /\ seen[0] = NothingRecorded
    BY <2>1, CheckoutAssumption DEF Init, CheckoutInit, Revisions
  <2>3. \A t \in Tasks : items[t] = NoItem
    BY <2>1 DEF Init
  <2>4. NoItem.state = "absent"
    BY DEF NoItem
  <2>. QED BY <2>2, <2>3, <2>4 DEF GroupOK, Ancestry, Untracked, PinnedDependenciesStand
<1>. QED BY <1>1, Inductive, GroupKeeps, PTL DEF Spec

\* The dependencies pinned at a claim stand for as long as the pins are kept: no
\* operation of another task, rework, release or cancellation invalidates them.
THEOREM PinnedDependenciesAreKept == Spec => []PinnedDependenciesStand
<1>1. GroupOK => PinnedDependenciesStand
  BY DEF GroupOK
<1>. QED BY <1>1, GroupInductive, PTL

\* What an accepted task changed since its claim lies in its declared write roots,
\* and its own record is the only one, whoever committed what in between.
THEOREM AcceptedTasksStayInScope == Spec => []AcceptedInScope
<1>1. GroupOK => AcceptedInScope
  <2>1. SUFFICES ASSUME GroupOK, NEW t \in Tasks, items[t].state = "done"
                 PROVE  LET item == items[t] IN
                        /\ ChangedRoots(item.base, item.delivery.revision) \subseteq item.contract.roots
                        /\ ChangedRecords(item.base, item.delivery.revision) \subseteq {t}
    BY DEF AcceptedInScope
  <2>2. Sound(t, items[t]) /\ Untracked
    BY <2>1 DEF GroupOK
  <2>3. CASE RecordsTracked
    BY <2>2, <2>3 DEF Sound
  <2>4. CASE ~RecordsTracked
    <3>1. seen[items[t].base] = seen[items[t].delivery.revision]
      BY <2>2, <2>4 DEF Sound, Untracked
    <3>. QED BY <2>2, <3>1 DEF Sound, ChangedRecords
  <2>. QED BY <2>3, <2>4
<1>. QED BY <1>1, GroupInductive, PTL

\* The accepted revision of a task contains the accepted revision of every task it
\* depends on, at any depth: accepted tasks whose revision it contains are closed
\* under dependencies, and Below is the least such set.
THEOREM DependenciesAreContained == Spec => []AcceptedContainsDependencies
<1>1. IndInv /\ GroupOK => AcceptedContainsDependencies
  <2>1. SUFFICES ASSUME IndInv, GroupOK, NEW t \in Tasks, items[t].state = "done",
                        NEW d \in Below(items[t])
                 PROVE  /\ Accepted(items[d])
                        /\ IsAncestor(items[d].delivery.revision, items[t].delivery.revision)
    BY DEF AcceptedContainsDependencies
  <2> DEFINE r == items[t].delivery.revision
             S == {x \in Tasks : /\ Accepted(items[x])
                                 /\ IsAncestor(items[x].delivery.revision, r)}
  <2>2. ASSUME NEW y \in Tasks, items[y].state = "done", items[y].delivery.revision \in anc[r]
        PROVE  items[y].contract.deps \subseteq S
    <3>1. Sound(y, items[y]) /\ Sound(t, items[t]) /\ Ancestry
      BY <2>1, <2>2 DEF GroupOK
    <3>2. items[y].contract.deps \subseteq Tasks
      BY <2>1, <2>2, FoundRecord DEF IndInv, Exists, RecordOK, Item, Contract
    <3>3. items[y].base \in anc[r]
      BY <2>2, <3>1 DEF Sound, Ancestry, IsAncestor
    <3>4. \A x \in items[y].contract.deps :
              Accepted(items[x]) /\ items[x].delivery.revision \in anc[r]
      BY <3>1, <3>3 DEF Sound, Ancestry, IsAncestor
    <3>. QED BY <3>2, <3>4 DEF IsAncestor
  <2>3. r \in anc[r]
    BY <2>1 DEF GroupOK, Sound, Ancestry
  <2>4. items[t].contract.deps \subseteq S
    BY <2>1, <2>2, <2>3
  <2>5. \A y \in S : items[y].contract.deps \subseteq S
    BY <2>2 DEF Accepted, IsAncestor
  <2>6. S \in SUBSET Tasks
    OBVIOUS
  <2> HIDE DEF S
  <2>7. d \in S
    BY <2>4, <2>5, <2>6 DEF Below
  <2>. QED BY <2>7 DEF S
<1>. QED BY <1>1, Inductive, GroupInductive, PTL

-----------------------------------------------------------------------------
(* The lifecycle implements ChangeAcceptance. *)

CandidateOf(item) == IF item.delivery = None THEN None ELSE item.delivery.revision
AuthorOf(item) == IF item.delivery = None THEN None ELSE item.delivery.implementer.agent

PhaseSeen == [t \in Tasks |-> PhaseOf(items[t])]
CandidateSeen == [t \in Tasks |-> CandidateOf(items[t])]
AuthorSeen == [t \in Tasks |-> AuthorOf(items[t])]
RefusedSeen == [t \in Tasks |-> RejectedRevisions(items[t])]

\* An operation on t moves what is seen of t, and of no other change.
LEMMA OneChangeMoves ==
    ASSUME NEW t \in Tasks, \A u \in Tasks \ {t} : items'[u] = items[u]
    PROVE  /\ PhaseSeen[t] = PhaseOf(items[t]) /\ CandidateSeen[t] = CandidateOf(items[t])
           /\ AuthorSeen[t] = AuthorOf(items[t]) /\ RefusedSeen[t] = RejectedRevisions(items[t])
           /\ PhaseSeen' = [PhaseSeen EXCEPT ![t] = PhaseOf(items'[t])]
           /\ CandidateSeen' = [CandidateSeen EXCEPT ![t] = CandidateOf(items'[t])]
           /\ AuthorSeen' = [AuthorSeen EXCEPT ![t] = AuthorOf(items'[t])]
           /\ RefusedSeen' = [RefusedSeen EXCEPT ![t] = RejectedRevisions(items'[t])]
           /\ PhaseOf(items'[t]) = PhaseOf(items[t]) => PhaseSeen' = PhaseSeen
           /\ CandidateOf(items'[t]) = CandidateOf(items[t]) => CandidateSeen' = CandidateSeen
           /\ AuthorOf(items'[t]) = AuthorOf(items[t]) => AuthorSeen' = AuthorSeen
           /\ RejectedRevisions(items'[t]) = RejectedRevisions(items[t]) =>
                 RefusedSeen' = RefusedSeen
<1>1. \A u \in Tasks \ {t} :
         /\ PhaseOf(items'[u]) = PhaseOf(items[u])
         /\ CandidateOf(items'[u]) = CandidateOf(items[u])
         /\ AuthorOf(items'[u]) = AuthorOf(items[u])
         /\ RejectedRevisions(items'[u]) = RejectedRevisions(items[u])
  OBVIOUS
<1>. QED BY <1>1 DEF PhaseSeen, CandidateSeen, AuthorSeen, RefusedSeen

LEMMA RejectedGrow ==
    ASSUME NEW old, old.attempts \in Seq(Attempt), NEW a \in Attempt, NEW new,
           new.attempts = Append(old.attempts, a)
    PROVE  RejectedRevisions(new) = RejectedRevisions(old)
               \cup (IF a.kind = "rejected" THEN {a.revision} ELSE {})
<1> DEFINE n == Len(old.attempts)
<1>1. /\ n \in Nat /\ DOMAIN old.attempts = 1..n /\ DOMAIN new.attempts = 1..(n + 1)
      /\ new.attempts[n + 1] = a /\ \A i \in 1..n : new.attempts[i] = old.attempts[i]
  OBVIOUS
<1>2. ASSUME NEW r, r \in RejectedRevisions(new)
      PROVE  r \in RejectedRevisions(old) \/ (a.kind = "rejected" /\ r = a.revision)
  <2>1. PICK i \in 1..(n + 1) : new.attempts[i].kind = "rejected" /\ r = new.attempts[i].revision
    BY <1>1, <1>2 DEF RejectedRevisions
  <2>2. i \in 1..n \/ i = n + 1
    BY <1>1
  <2>. QED BY <1>1, <2>1, <2>2 DEF RejectedRevisions
<1>3. ASSUME NEW r, r \in RejectedRevisions(old) \/ (a.kind = "rejected" /\ r = a.revision)
      PROVE  r \in RejectedRevisions(new)
  <2>1. CASE r \in RejectedRevisions(old)
    <3>1. PICK i \in 1..n : old.attempts[i].kind = "rejected" /\ r = old.attempts[i].revision
      BY <1>1, <2>1 DEF RejectedRevisions
    <3>. QED BY <1>1, <3>1 DEF RejectedRevisions
  <2>2. CASE a.kind = "rejected" /\ r = a.revision
    <3>1. n + 1 \in 1..(n + 1)
      BY <1>1
    <3>. QED BY <1>1, <2>2, <3>1 DEF RejectedRevisions
  <2>. QED BY <1>3, <2>1, <2>2
<1>. QED BY <1>2, <1>3

\* Each operation is one of the abstract steps, or leaves what is seen alone.
LEMMA OperationsRefine ==
    ASSUME IndInv, NEW t \in Tasks, NEW req \in Request, Operation(t, req)
    PROVE  Promise!AcceptanceNext \/ UNCHANGED <<PhaseSeen, CandidateSeen, AuthorSeen, RefusedSeen>>
<1> DEFINE old == items[t]
           new == items'[t]
<1>1. ItemsOK /\ policy \in Policies /\ tip \in Revisions
  BY DEF IndInv, FilesOK, CheckoutTypeOK
<1>2. \A u \in Tasks \ {t} : items'[u] = items[u]
  BY OperationFrame
<1> USE OneChangeMoves, <1>2
<1>3. ASSUME OldRecord(t)
      PROVE  /\ old.attempts \in Seq(Attempt) /\ old.state \in States
             /\ old.state \notin Terminal /\ old.state # "absent"
  BY <1>3 DEF OldRecord, RecordOK, Filled, Item
<1>4. ASSUME NEW contract \in Contract, Create(t, contract, req)
      PROVE  Promise!AcceptanceNext
  <2>1. /\ old = NoItem /\ new.state = "intake" /\ new.delivery = None
        /\ new.attempts = <<>>
    BY <1>1, <1>4, CreateDoes
  <2>2. NoItem.state = "absent" /\ NoItem.delivery = None /\ NoItem.attempts = <<>>
    BY DEF NoItem
  <2>3. PhaseOf(old) = "unknown" /\ PhaseOf(new) = "open"
    BY <2>1, <2>2 DEF PhaseOf
  <2>4. CandidateOf(new) = CandidateOf(old) /\ AuthorOf(new) = AuthorOf(old)
    BY <2>1, <2>2 DEF CandidateOf, AuthorOf
  <2>5. RejectedRevisions(new) = RejectedRevisions(old)
    BY <2>1, <2>2 DEF RejectedRevisions
  <2>6. Promise!Propose(t)
    BY <2>3, <2>4, <2>5
       DEF Promise!Propose, Promise!Move, PhaseSeen, CandidateSeen, AuthorSeen, RefusedSeen,
           CandidateOf, AuthorOf
  <2>. QED BY <2>6 DEF Promise!AcceptanceNext
<1>5. CASE Claim(t, req)
  <2>1. /\ old.state = "intake" /\ new.state = "build"
        /\ new.delivery = old.delivery /\ new.attempts = old.attempts
    BY <1>1, <1>5, ClaimDoes
  <2>2. PhaseOf(new) = PhaseOf(old)
    BY <2>1 DEF PhaseOf
  <2>. QED BY <2>1, <2>2 DEF CandidateOf, AuthorOf, RejectedRevisions
<1>6. CASE Release(t, req)
  <2>1. /\ old.state = "build" /\ new.state = "intake" /\ OldRecord(t)
        /\ new.delivery = old.delivery
        /\ new.attempts = Append(old.attempts,
              [kind |-> "released", base |-> old.base, revision |-> None])
    BY <1>1, <1>6, ReleaseDoes
  <2>2. PhaseOf(new) = PhaseOf(old)
    BY <2>1 DEF PhaseOf
  <2>3. PICK a \in Attempt : a.kind = "released" /\ new.attempts = Append(old.attempts, a)
    BY <2>1 DEF OldRecord, RecordOK, Filled, Item, Attempt
  <2>4. RejectedRevisions(new) = RejectedRevisions(old)
    <3>1. PICK x, y : x = old /\ y = new
      OBVIOUS
    <3>2. x.attempts \in Seq(Attempt) /\ y.attempts = Append(x.attempts, a)
      BY <1>3, <2>1, <2>3, <3>1
    <3>3. RejectedRevisions(y) = RejectedRevisions(x)
                 \cup (IF a.kind = "rejected" THEN {a.revision} ELSE {})
      BY ONLY <3>2, RejectedGrow
    <3>. QED BY <2>3, <3>1, <3>3
  <2>. QED BY <2>1, <2>2, <2>4 DEF CandidateOf, AuthorOf
<1>7. CASE Handoff(t, req)
  <2>1. /\ old.state = "build" /\ new.state = "test" /\ new.review = None
        /\ new.delivery = Delivered(old, req) /\ new.delivery # None
        /\ new.attempts = old.attempts /\ req.revision \in Revisions
        /\ req.revision \notin RejectedRevisions(old) /\ req.actor.agent \in Agents
    BY <1>1, <1>7, HandoffDoes DEF Handoff, FreshCandidate, Request, Actor
  <2>2. PhaseOf(old) = "open" /\ PhaseOf(new) = "offered"
    BY <2>1 DEF PhaseOf
  <2>3. CandidateOf(new) = req.revision /\ AuthorOf(new) = req.actor.agent
    BY <2>1 DEF CandidateOf, AuthorOf, Delivered
  <2>4. RejectedRevisions(new) = RejectedRevisions(old)
    BY <2>1 DEF RejectedRevisions
  <2>5. Promise!Offer(t, req.revision, req.actor.agent)
    BY <2>1, <2>2, <2>3, <2>4
       DEF Promise!Offer, Promise!Move, PhaseSeen, CandidateSeen, AuthorSeen, RefusedSeen,
           CandidateOf, AuthorOf
  <2>. QED BY <2>1, <2>5 DEF Promise!AcceptanceNext
<1>8. CASE ReviewTask(t, req)
  <2>1. /\ old.state = "test" /\ old.review = None /\ old.delivery # None
        /\ new.state = IF req.judgment = "pass" THEN "release_gate" ELSE "test"
        /\ new.review # None /\ new.delivery = old.delivery /\ new.attempts = old.attempts
        /\ req.actor.agent # old.delivery.implementer.agent /\ req.actor.agent \in Agents
    BY <1>1, <1>8, ReviewDoes DEF ReviewTask, Separated, Request, Actor
  <2>2. PhaseOf(old) = "offered" /\ PhaseOf(new) \in {"vetted", "refused"}
    BY <2>1 DEF PhaseOf
  <2>3. /\ CandidateOf(new) = CandidateOf(old) /\ AuthorOf(new) = AuthorOf(old)
        /\ AuthorOf(old) = old.delivery.implementer.agent
        /\ RejectedRevisions(new) = RejectedRevisions(old)
    BY <2>1 DEF CandidateOf, AuthorOf, RejectedRevisions
  <2>4. Promise!Vet(t, req.actor.agent, PhaseOf(new))
    BY <2>1, <2>2, <2>3
       DEF Promise!Vet, Promise!Move, PhaseSeen, CandidateSeen, AuthorSeen, RefusedSeen,
           CandidateOf, AuthorOf
  <2>. QED BY <2>1, <2>2, <2>4 DEF Promise!AcceptanceNext
<1>9. CASE Rework(t, req)
  <2>1. /\ old.state = "test" /\ old.review # None /\ old.delivery # None /\ OldRecord(t)
        /\ new.state = "intake" /\ new.delivery = None
        /\ new.attempts = WithRejection(old)
    BY <1>1, <1>9, ReworkDoes
  <2>2. PhaseOf(old) = "refused" /\ PhaseOf(new) = "open"
    BY <2>1 DEF PhaseOf
  <2>3. CandidateOf(new) = None /\ AuthorOf(new) = None /\ CandidateOf(old) = old.delivery.revision
    BY <2>1 DEF CandidateOf, AuthorOf
  <2>4. PICK a \in Attempt : /\ a.kind = "rejected" /\ a.revision = old.delivery.revision
                            /\ new.attempts = Append(old.attempts, a)
    BY <2>1 DEF OldRecord, RecordOK, Filled, Item, Delivery, Attempt, WithRejection
  <2>5. RejectedRevisions(new) = RejectedRevisions(old) \cup {CandidateOf(old)}
    <3>1. PICK x, y : x = old /\ y = new
      OBVIOUS
    <3>2. x.attempts \in Seq(Attempt) /\ y.attempts = Append(x.attempts, a)
      BY <1>3, <2>1, <2>4, <3>1
    <3>3. RejectedRevisions(y) = RejectedRevisions(x)
                 \cup (IF a.kind = "rejected" THEN {a.revision} ELSE {})
      BY ONLY <3>2, RejectedGrow
    <3>. QED BY <2>3, <2>4, <3>1, <3>3
  <2>6. Promise!Reopen(t)
    BY <2>2, <2>3, <2>5
       DEF Promise!Reopen, Promise!Move, PhaseSeen, CandidateSeen, AuthorSeen, RefusedSeen,
           CandidateOf, AuthorOf
  <2>. QED BY <2>6 DEF Promise!AcceptanceNext
<1>10. CASE Close(t, req)
  <2>1. /\ old.state = "release_gate" /\ new.state = "done"
        /\ new.delivery = old.delivery /\ new.attempts = old.attempts
    BY <1>1, <1>10, CloseDoes
  <2>2. PhaseOf(old) = "vetted" /\ PhaseOf(new) = "accepted"
    BY <2>1 DEF PhaseOf
  <2>3. /\ CandidateOf(new) = CandidateOf(old) /\ AuthorOf(new) = AuthorOf(old)
        /\ RejectedRevisions(new) = RejectedRevisions(old)
    BY <2>1 DEF CandidateOf, AuthorOf, RejectedRevisions
  <2>4. Promise!Accept(t)
    BY <2>2, <2>3
       DEF Promise!Accept, Promise!Move, PhaseSeen, CandidateSeen, AuthorSeen, RefusedSeen,
           CandidateOf, AuthorOf
  <2>. QED BY <2>4 DEF Promise!AcceptanceNext
<1>11. CASE Cancel(t, req)
  <2>1. /\ OldRecord(t) /\ new.state = "cancelled"
        /\ new.delivery = old.delivery /\ new.attempts = old.attempts
    BY <1>1, <1>11, CancelDoes
  <2>2. PhaseOf(old) \in {"open", "offered", "refused", "vetted"} /\ PhaseOf(new) = "withdrawn"
    BY <1>3, <2>1 DEF PhaseOf, States, Terminal
  <2>3. /\ CandidateOf(new) = CandidateOf(old) /\ AuthorOf(new) = AuthorOf(old)
        /\ RejectedRevisions(new) = RejectedRevisions(old)
    BY <2>1 DEF CandidateOf, AuthorOf, RejectedRevisions
  <2>4. Promise!Withdraw(t)
    BY <2>2, <2>3
       DEF Promise!Withdraw, Promise!Move, PhaseSeen, CandidateSeen, AuthorSeen, RefusedSeen,
           CandidateOf, AuthorOf
  <2>. QED BY <2>4 DEF Promise!AcceptanceNext
<1>. QED BY <1>4, <1>5, <1>6, <1>7, <1>8, <1>9, <1>10, <1>11 DEF Operation

\* Every step of the lifecycle is a step of ChangeAcceptance or leaves what an
\* observer of it sees alone: the offering, refusing, vetting and accepting of one
\* candidate at a time.
THEOREM LifecycleImplementsAcceptance == Spec => ImplementsAcceptance
<1>1. Init => Promise!AcceptanceInit
  <2>1. SUFFICES ASSUME Init PROVE Promise!AcceptanceInit
    OBVIOUS
  <2>2. \A t \in Tasks : items[t] = NoItem
    BY <2>1 DEF Init
  <2>3. NoItem.state = "absent" /\ NoItem.delivery = None /\ NoItem.attempts = <<>>
    BY DEF NoItem
  <2>4. PhaseOf(NoItem) = "unknown" /\ RejectedRevisions(NoItem) = {}
    BY <2>3 DEF PhaseOf, RejectedRevisions
  <2>. QED BY <2>2, <2>3, <2>4 DEF Promise!AcceptanceInit
<1>2. IndInv /\ [Next]_vars => [Promise!AcceptanceNext]_(Promise!acceptanceVars)
  <2>1. SUFFICES ASSUME IndInv, [Next]_vars
                 PROVE  Promise!AcceptanceNext \/ UNCHANGED Promise!acceptanceVars
    OBVIOUS
  <2>2. UNCHANGED <<PhaseSeen, CandidateSeen, AuthorSeen, RefusedSeen>>
           => UNCHANGED Promise!acceptanceVars
    BY DEF Promise!acceptanceVars, PhaseSeen, CandidateSeen, AuthorSeen, RefusedSeen,
           CandidateOf, AuthorOf
  <2>3. ASSUME NEW t \in Tasks, Operate(t)
        PROVE  Promise!AcceptanceNext \/ UNCHANGED Promise!acceptanceVars
    BY <2>1, <2>2, <2>3, OperationCases, OperationsRefine
  <2>4. ASSUME items' = items PROVE UNCHANGED Promise!acceptanceVars
    BY <2>4 DEF Promise!acceptanceVars
  <2>. QED BY <2>1, <2>3, <2>4, EnvironmentFrame DEF Next
<1>. QED BY <1>1, <1>2, Inductive, PTL DEF Spec, ImplementsAcceptance, Promise!AcceptanceSpec

=============================================================================
