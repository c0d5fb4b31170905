----------------------- MODULE OwnershipTransfer_proofs -----------------------
(* Theorems about OwnershipTransfer, for every value of its constants. *)
EXTENDS OwnershipTransfer, DomainMembership_proofs

-----------------------------------------------------------------------------
(* Type correctness *)

\* A transfer handler that starts remembers what its kind allows, and changes nothing else.
LEMMA TransferCallTyped ==
  ASSUME TransferTypeOK, NEW w \in Desks, TransferCall(w)
  PROVE  /\ answer' \in [Desks -> Answer]
         /\ UNCHANGED <<vars, logVars>>
  <1>1. ASSUME NEW u \in Users, NEW to \in Users, TransferCheck(w, u, to)
        PROVE  answer' \in [Desks -> Answer]
    BY <1>1 DEF TransferCheck, TransferTypeOK, Reply, Answer, Offer
  <1>2. ASSUME NEW u \in Users, RevokeCheck(w, u)
        PROVE  answer' \in [Desks -> Answer]
    BY <1>2 DEF RevokeCheck, TransferTypeOK, Reply, Answer
  <1>3. ASSUME NEW nonce \in 1..Len(offers), AcceptCheck(w, nonce)
        PROVE  answer' \in [Desks -> Answer]
    <2>1. nonce \in 1..MaxOffers
      BY MaxOffersAssumption DEF TransferTypeOK
    <2> QED
      BY <1>3, <2>1 DEF AcceptCheck, TransferTypeOK, Reply, Answer
  <1>4. UNCHANGED <<vars, logVars>>
    BY DEF TransferCall, TransferCheck, RevokeCheck, AcceptCheck
  <1> QED
    BY <1>1, <1>2, <1>3, <1>4 DEF TransferCall

\* What a running handler remembers, by its kind.
LEMMA AnswerShapes ==
  ASSUME NEW a \in Answer
  PROVE  /\ a.kind = "transfer" => a.offer \in Offer
         /\ a.kind = "accept" => a.nonce \in 1..MaxOffers
  BY DEF Answer, Idle

\* The offer whose link is current is one that was made.
LEMMA AcceptNamesLatest ==
  ASSUME TransferTypeOK, NEW w \in Desks, AcceptApply(w)
  PROVE  /\ latest \in 1..Len(offers)
         /\ answer[w].nonce = latest
         /\ offers[latest] \in Offer
         /\ owner = offers[latest].from
  <1>1. answer[w] \in Answer
    BY DEF TransferTypeOK
  <1>2. answer[w].nonce \in 1..MaxOffers /\ answer[w].nonce = latest
    BY <1>1, AnswerShapes DEF AcceptApply, Answering, Eligible
  <1>3. latest \in 1..Len(offers)
    BY <1>2 DEF TransferTypeOK
  <1> QED
    BY <1>2, <1>3 DEF TransferTypeOK, AcceptApply, Eligible

LEMMA TransferContinueTyped ==
  ASSUME TransferTypeOK, NEW w \in Desks, TransferContinue(w)
  PROVE  TransferTypeOK'
  <1>0. answer[w] \in Answer
    BY DEF TransferTypeOK
  <1>1. CASE TransferRecord(w)
    <2>1. TypeOK'
      BY <1>1 DEF TransferRecord, TransferTypeOK, TypeOK, vars
    <2>2. answer[w].offer \in Offer
      BY <1>0, <1>1, AnswerShapes DEF TransferRecord, Answering
    <2>3. offers' \in Seq(Offer) /\ Len(offers') = Len(offers) + 1
      BY <1>1, <2>2 DEF TransferRecord, TransferTypeOK
    <2>4. taken' \in Seq(Nat) /\ Len(taken') = Len(offers) + 1
      BY <1>1 DEF TransferRecord, TransferTypeOK
    <2>5. Len(offers) + 1 <= MaxOffers
      BY <1>1, MaxOffersAssumption DEF TransferRecord, TransferTypeOK
    <2>6. answer' \in [Desks -> Answer]
      BY <1>1 DEF TransferRecord, Reply, Answer, TransferTypeOK
    <2>7. latest' \in 0..Len(offers')
      BY <1>1, <2>3 DEF TransferRecord, TransferTypeOK
    <2> QED
      BY <2>1, <2>3, <2>4, <2>5, <2>6, <2>7 DEF TransferTypeOK
  <1>2. CASE RevokeRecord(w) \/ AcceptRefused(w)
    <2>1. TypeOK'
      BY <1>2 DEF RevokeRecord, AcceptRefused, TransferTypeOK, TypeOK, vars
    <2>2. answer' \in [Desks -> Answer]
      BY <1>2 DEF RevokeRecord, AcceptRefused, Reply, Answer, TransferTypeOK
    <2> QED
      BY <1>2, <2>1, <2>2 DEF RevokeRecord, AcceptRefused, TransferTypeOK, logVars
  <1>3. CASE AcceptApply(w)
    <2>1. latest \in 1..Len(offers) /\ answer[w].nonce = latest /\ offers[latest] \in Offer
      BY <1>3, AcceptNamesLatest
    <2>2. TypeOK'
      BY <1>3, <2>1 DEF AcceptApply, HandOver, TransferTypeOK, TypeOK, Offer
    <2>3. taken' \in Seq(Nat) /\ Len(taken') = Len(taken)
      BY <1>3, <2>1 DEF AcceptApply, HandOver, TransferTypeOK
    <2>4. answer' \in [Desks -> Answer]
      BY <1>3 DEF AcceptApply, HandOver, Reply, Answer, TransferTypeOK
    <2> QED
      BY <1>3, <2>2, <2>3, <2>4 DEF AcceptApply, HandOver, TransferTypeOK
  <1> QED
    BY <1>1, <1>2, <1>3 DEF TransferContinue

LEMMA TransferTypeStep ==
  ASSUME TransferTypeOK, [TransferNext]_allVars
  PROVE  TransferTypeOK'
  <1>1. CASE MembershipStep \/ UNCHANGED allVars
    <2>1. TypeOK'
      BY <1>1, TypeStep DEF MembershipStep, allVars, TransferTypeOK
    <2>2. UNCHANGED transferVars
      BY <1>1 DEF MembershipStep, allVars
    <2> QED
      BY <2>1, <2>2 DEF TransferTypeOK, transferVars, logVars
  <1>2. ASSUME NEW w \in Desks, TransferCall(w)
        PROVE  TransferTypeOK'
    <2>1. answer' \in [Desks -> Answer] /\ UNCHANGED <<vars, logVars>>
      BY <1>2, TransferCallTyped
    <2> QED
      BY <2>1 DEF TransferTypeOK, TypeOK, vars, logVars
  <1> QED
    BY <1>1, <1>2, TransferContinueTyped DEF TransferNext

LEMMA TransferTypeInit == TransferInit => TransferTypeOK
  BY TypeInit, MaxOffersAssumption DEF TransferInit, TransferTypeOK, Answer

\* The composed state keeps its types, in every interleaving of transfers with PATCH,
\* roles, leaving and join requests.
THEOREM TransferTypeCorrect == TransferSpec => []TransferTypeOK
  BY TransferTypeInit, TransferTypeStep, PTL DEF TransferSpec

-----------------------------------------------------------------------------
(* An offer is taken at most once *)

\* An offer that can still be taken has not been: it is the latest event.
OpenIsFresh == latest # 0 => taken[latest] = 0

TransferInv == TransferTypeOK /\ OfferTakenOnce /\ OpenIsFresh

LEMMA TransferInvStep ==
  ASSUME TransferInv, [TransferNext]_allVars
  PROVE  TransferInv'
  <1>1. TransferTypeOK'
    BY TransferTypeStep DEF TransferInv
  <1> USE DEF TransferInv, OfferTakenOnce, OpenIsFresh
  <1>2. CASE UNCHANGED logVars
    BY <1>1, <1>2 DEF logVars
  <1>3. ASSUME NEW w \in Desks, TransferRecord(w)
        PROVE  TransferInv'
    <2>1. taken' = Append(taken, 0) /\ latest' = Len(taken) + 1
      BY <1>3 DEF TransferRecord, TransferTypeOK
    <2> QED
      BY <1>1, <2>1 DEF TransferTypeOK
  <1>4. ASSUME NEW w \in Desks, RevokeRecord(w)
        PROVE  TransferInv'
    BY <1>1, <1>4 DEF RevokeRecord
  <1>5. ASSUME NEW w \in Desks, AcceptApply(w)
        PROVE  TransferInv'
    <2>1. taken' = [taken EXCEPT ![latest] = @ + 1] /\ latest' = 0 /\ latest \in 1..Len(taken)
      BY <1>5, AcceptNamesLatest DEF AcceptApply, HandOver, TransferTypeOK
    <2>2. taken[latest] + 1 = 1
      BY <2>1 DEF TransferInv
    <2>3. taken' = [taken EXCEPT ![latest] = 1]
      BY <2>1, <2>2
    <2>4. Len(taken') = Len(taken)
      BY <2>3 DEF TransferTypeOK
    <2> QED
      BY <1>1, <2>1, <2>3, <2>4 DEF TransferTypeOK
  <1>6. ASSUME NEW w \in Desks, TransferCall(w)
        PROVE  UNCHANGED logVars
    BY <1>6, TransferCallTyped
  <1>7. MembershipStep \/ UNCHANGED allVars => UNCHANGED logVars
    BY DEF MembershipStep, allVars, transferVars
  <1>8. ASSUME NEW w \in Desks, AcceptRefused(w)
        PROVE  UNCHANGED logVars
    BY <1>8 DEF AcceptRefused
  <1> QED
    BY <1>2, <1>3, <1>4, <1>5, <1>6, <1>7, <1>8 DEF TransferNext, TransferContinue

LEMMA TransferInvInit == TransferInit => TransferInv
  BY TransferTypeInit DEF TransferInit, TransferInv, OfferTakenOnce, OpenIsFresh

\* However often and however concurrently its link is used, and wherever the domain
\* went in between, an offer moves the domain at most once.
THEOREM OffersTakenOnce == TransferSpec => []OfferTakenOnce
  <1>1. TransferInv => OfferTakenOnce
    BY DEF TransferInv
  <1> QED
    BY <1>1, TransferInvInit, TransferInvStep, PTL DEF TransferSpec

-----------------------------------------------------------------------------
(* Every step is a step of the slot *)

SlotStep == [Slot!Next]_(Slot!vars)

LEMMA TransferContinueIsSlotStep ==
  ASSUME TransferTypeOK, NEW w \in Desks, TransferContinue(w)
  PROVE  SlotStep
  <1>0. answer[w] \in Answer
    BY DEF TransferTypeOK
  <1>1. CASE TransferRecord(w)
    <2>1. answer[w].offer \in Offer
      BY <1>0, <1>1, AnswerShapes DEF TransferRecord, Answering
    <2>2. PICK from \in Users, to \in Users : answer[w].offer = [from |-> from, to |-> to]
      BY <2>1 DEF Offer
    <2>3. Slot!Propose(from, to)
      BY <1>1, <2>2 DEF TransferRecord, Slot!Propose, vars
    <2> QED
      BY <2>3 DEF SlotStep, Slot!Next
  <1>2. CASE RevokeRecord(w)
    BY <1>2 DEF RevokeRecord, SlotStep, Slot!Next, Slot!Withdraw, vars
  <1>3. CASE AcceptApply(w)
    <2>1. /\ latest \in 1..Len(offers)
          /\ answer[w].nonce = latest
          /\ owner = offers[latest].from
      BY <1>3, AcceptNamesLatest
    <2>2. latest # 0
      BY <2>1 DEF TransferTypeOK
    <2>3. Slot!Take
      BY <1>3, <2>1, <2>2 DEF AcceptApply, HandOver, Slot!Take
    <2> QED
      BY <2>3 DEF SlotStep, Slot!Next
  <1>4. CASE AcceptRefused(w)
    BY <1>4 DEF AcceptRefused, SlotStep, Slot!vars, vars, logVars
  <1> QED
    BY <1>1, <1>2, <1>3, <1>4 DEF TransferContinue

LEMMA IsSlotStep ==
  ASSUME TransferTypeOK, [TransferNext]_allVars
  PROVE  SlotStep
  <1>1. CASE MembershipStep \/ UNCHANGED allVars
    <2>1. owner' \in Users
      BY TransferTypeStep DEF TransferTypeOK, TypeOK
    <2>2. UNCHANGED logVars
      BY <1>1 DEF MembershipStep, allVars, transferVars
    <2> QED
      BY <2>1, <2>2 DEF SlotStep, Slot!Next, Slot!Reassign, logVars
  <1>2. ASSUME NEW w \in Desks, TransferCall(w)
        PROVE  SlotStep
    BY <1>2, TransferCallTyped DEF SlotStep, Slot!vars, vars, domainVars, logVars
  <1> QED
    BY <1>1, <1>2, TransferContinueIsSlotStep DEF TransferNext

\* The transfer handlers, with their unlocked checks, implement calls on one slot.
THEOREM ImplementsSlot == TransferSpec => KeepsSlot
  <1>1. TransferInit => Slot!Init
    BY TransferTypeInit DEF TransferInit, TransferTypeOK, TypeOK, Slot!Init
  <1>2. TransferTypeOK /\ [TransferNext]_allVars => [Slot!Next]_(Slot!vars)
    BY IsSlotStep DEF SlotStep
  <1> QED
    BY <1>1, <1>2, TransferTypeCorrect, PTL DEF TransferSpec, KeepsSlot, Slot!Spec

-----------------------------------------------------------------------------
(* Who becomes, and who stays, owner *)

\* A handler of DomainMembership moves the owner only when it saves a Domain instance.
LEMMA SavesMoveOwner ==
  ASSUME TypeOK, Next, owner' # owner
  PROVE  \E w \in Workers :
           /\ EditSave(w) \/ EditCommit(w)
           /\ Saves(w)
           /\ owner' = Written(task[w].patch.owner, task[w].owner)
  <1>1. PICK w \in Workers : EditSave(w) \/ EditCommit(w)
    <2>1. ASSUME NEW w \in Workers, Call(w)
          PROVE  FALSE
      BY <2>1, BeginsTyped DEF domainVars
    <2>2. ~AtOnce
      BY DEF AtOnce, DecideApprove, DecideReject, PreferencesLeave, PreferencesJoin, Sweep,
             domainVars
    <2>3. PICK w \in Workers : Continue(w)
      BY <2>1, <2>2 DEF Next
    <2> QED
      BY <2>3 DEF Continue, JoinAuto, JoinLookup, JoinInsert, JoinConflict, JoinDropped,
                  JoinRefetch, ApproveApply, RejectApply, CancelSave, RemoveApply, RemoveRefused,
                  PromoteApply, DemoteApply, LeaveApply, EditList, domainVars
  <1> QED
    BY <1>1 DEF EditSave, EditCommit, Doing, Saves, Completes

\* The domain changes hands by the current link or by the save of a PATCH.
THEOREM ChangesHandsByLinkOrSave == TransferSpec => OwnerChangesHands
  <1> DEFINE Moved == owner' # owner =>
         \/ /\ latest # 0
            /\ offers[latest] = [from |-> owner, to |-> owner']
            /\ latest' = 0
         \/ \E w \in Workers :
              Saves(w) /\ owner' = Written(task[w].patch.owner, task[w].owner)
  <1>1. TransferTypeOK /\ [TransferNext]_allVars => [Moved]_allVars
    <2> SUFFICES ASSUME TransferTypeOK, TransferNext, owner' # owner
                 PROVE  Moved
      OBVIOUS
    <2>1. CASE MembershipStep
      BY <2>1, SavesMoveOwner DEF MembershipStep, TransferTypeOK
    <2>2. ASSUME NEW w \in Desks, TransferCall(w)
          PROVE  FALSE
      BY <2>2, TransferCallTyped DEF vars, domainVars
    <2>3. ASSUME NEW w \in Desks, AcceptApply(w)
          PROVE  Moved
      <3>1. /\ latest \in 1..Len(offers)
            /\ answer[w].nonce = latest
            /\ offers[latest] \in Offer
            /\ owner = offers[latest].from
        BY <2>3, AcceptNamesLatest
      <3>2. owner' = offers[latest].to /\ latest' = 0
        BY <2>3, <3>1 DEF AcceptApply, HandOver
      <3>3. offers[latest] = [from |-> owner, to |-> owner']
        BY <3>1, <3>2 DEF Offer
      <3>4. latest # 0
        BY <3>1 DEF TransferTypeOK
      <3> QED
        BY <3>2, <3>3, <3>4
    <2>4. ASSUME NEW w \in Desks, TransferRecord(w) \/ RevokeRecord(w) \/ AcceptRefused(w)
          PROVE  FALSE
      BY <2>4 DEF TransferRecord, RevokeRecord, AcceptRefused, vars, domainVars
    <2> QED
      BY <2>1, <2>2, <2>3, <2>4 DEF TransferNext, TransferContinue
  <1> QED
    BY <1>1, TransferTypeCorrect, PTL DEF TransferSpec, OwnerChangesHands

\* The ways out that are left to an owner, and the endpoints they need.
OwnerDoor ==
  \/ \E w \in Workers : Completes(w, {"leave"}) /\ task[w].user = owner
  \/ \E w \in Workers : Completes(w, {"remove"}) /\ task[w].target = owner
  \/ \E w \in Workers : Saves(w) /\ owner' = task[w].owner /\ owner' # owner
  \/ "preferences" \in Endpoints /\ PreferencesLeave(owner)
  \/ "email" \in Endpoints /\ \E link \in links : DecideReject(link)

LEMMA MembershipOwnerDoor ==
  ASSUME TypeOK, Next, OwnerInside, ~OwnerInside'
  PROVE  OwnerDoor
  <1> USE DEF OwnerInside, domainVars
  <1>1. CASE owner' # owner
    <2>1. PICK w \in Workers :
            /\ EditSave(w) \/ EditCommit(w)
            /\ Saves(w)
            /\ owner' = Written(task[w].patch.owner, task[w].owner)
      BY <1>1, SavesMoveOwner
    <2>2. NewOwners(task[w].patch) \subseteq members'
      BY <2>1 DEF EditSave, EditCommit
    <2>3. owner' = task[w].owner
      BY <2>1, <2>2 DEF Written, NewOwners
    <2> QED
      BY <1>1, <2>1, <2>3 DEF OwnerDoor
  <1>2. CASE owner' = owner
    <2>1. owner \in members /\ owner \notin members'
      BY <1>2
    <2>2. CASE AtOnce
      BY <2>1, <2>2
         DEF AtOnce, DecideApprove, PreferencesLeave, PreferencesJoin, Sweep, OwnerDoor
    <2>3. ASSUME NEW w \in Workers, Call(w)
          PROVE  FALSE
      BY <2>1, <2>3, BeginsTyped
    <2>4. ASSUME NEW w \in Workers, Continue(w)
          PROVE  OwnerDoor
      <3>1. CASE RemoveApply(w) \/ LeaveApply(w)
        BY <2>1, <3>1 DEF RemoveApply, LeaveApply, Doing, Completes, OwnerDoor
      <3> QED
        BY <2>1, <2>4, <3>1
           DEF Continue, JoinAuto, JoinLookup, JoinInsert, JoinConflict, JoinDropped,
               JoinRefetch, ApproveApply, RejectApply, CancelSave, RemoveRefused, PromoteApply,
               DemoteApply, EditSave, EditList, EditCommit
    <2> QED
      BY <2>2, <2>3, <2>4 DEF Next
  <1> QED
    BY <1>1, <1>2

\* Accepting a transfer never leaves the owner outside, and nothing else does but the
\* handlers with an outdated owner, the profile form and a rejection link.
THEOREM OwnerStays == TransferSpec => OwnerStaysInside
  <1> DEFINE Doors ==
        \/ \E w \in Workers : Completes(w, {"leave"}) /\ task[w].user = owner
        \/ \E w \in Workers : Completes(w, {"remove"}) /\ task[w].target = owner
        \/ \E w \in Workers : Saves(w) /\ owner' = task[w].owner /\ owner' # owner
        \/ PreferencesLeave(owner)
        \/ \E link \in links : DecideReject(link)
  <1>1. TransferTypeOK /\ [TransferNext]_allVars =>
          [OwnerInside /\ ~OwnerInside' => Doors]_allVars
    <2> SUFFICES ASSUME TransferTypeOK, TransferNext, OwnerInside, ~OwnerInside'
                 PROVE  OwnerDoor
      BY DEF OwnerDoor
    <2>1. CASE MembershipStep
      BY <2>1, MembershipOwnerDoor DEF MembershipStep, TransferTypeOK
    <2>2. ASSUME NEW w \in Desks, TransferCall(w)
          PROVE  FALSE
      BY <2>2, TransferCallTyped DEF vars, domainVars, OwnerInside
    <2>3. ASSUME NEW w \in Desks, AcceptApply(w)
          PROVE  FALSE
      BY <2>3, AcceptNamesLatest DEF AcceptApply, HandOver, OwnerInside
    <2>4. ASSUME NEW w \in Desks, TransferRecord(w) \/ RevokeRecord(w) \/ AcceptRefused(w)
          PROVE  FALSE
      BY <2>4 DEF TransferRecord, RevokeRecord, AcceptRefused, vars, domainVars, OwnerInside
    <2> QED
      BY <2>1, <2>2, <2>3, <2>4 DEF TransferNext, TransferContinue
  <1> QED
    BY <1>1, TransferTypeCorrect, PTL DEF TransferSpec, OwnerStaysInside

-----------------------------------------------------------------------------
(* What DomainMembership promises by itself still holds with transfers *)

\* What a step of the composed system is to the membership tables: one of their own
\* handlers, the hand-over, or nothing.
LEMMA ComposedStep ==
  ASSUME TransferTypeOK, [TransferNext]_allVars
  PROVE  \/ [Next]_vars
         \/ \E w \in Desks : AcceptApply(w)
  <1>1. ASSUME NEW w \in Desks, TransferCall(w)
        PROVE  UNCHANGED vars
    BY <1>1, TransferCallTyped
  <1>2. ASSUME NEW w \in Desks, TransferRecord(w) \/ RevokeRecord(w) \/ AcceptRefused(w)
        PROVE  UNCHANGED vars
    BY <1>2 DEF TransferRecord, RevokeRecord, AcceptRefused
  <1> QED
    BY <1>1, <1>2 DEF TransferNext, TransferContinue, MembershipStep, allVars

\* What the hand-over writes of the membership tables.
LEMMA HandOverEffect ==
  ASSUME TransferTypeOK, NEW w \in Desks, AcceptApply(w)
  PROVE  /\ latest \in 1..Len(offers) /\ latest # 0 /\ latest' = 0
         /\ offers[latest] = [from |-> owner, to |-> owner']
         /\ owner' \in Users
         /\ members' = members \cup {owner, owner'}
         /\ managers' = managers \cup {owner'}
         /\ UNCHANGED <<policy, status, links, task, offers>>
  <1>1. /\ latest \in 1..Len(offers)
        /\ answer[w].nonce = latest
        /\ offers[latest] \in Offer
        /\ owner = offers[latest].from
    BY AcceptNamesLatest
  <1>2. latest # 0
    BY <1>1 DEF TransferTypeOK
  <1>3. /\ owner' = offers[latest].to
        /\ members' = members \cup {offers[latest].from, offers[latest].to}
        /\ managers' = managers \cup {offers[latest].to}
        /\ latest' = 0
        /\ UNCHANGED <<policy, status, links, task, offers>>
    BY <1>1 DEF AcceptApply, HandOver
  <1>4. offers[latest] = [from |-> owner, to |-> owner'] /\ owner' \in Users
    BY <1>1, <1>3 DEF Offer
  <1> QED
    BY <1>1, <1>2, <1>3, <1>4

ComposedInv == TransferTypeOK /\ Inv

LEMMA ComposedInvInit == TransferInit => ComposedInv
  BY TransferTypeInit, InvInit DEF TransferInit, ComposedInv

LEMMA ComposedInvStep ==
  ASSUME ComposedInv, [TransferNext]_allVars
  PROVE  ComposedInv' /\ LedgerStep
  <1>1. TransferTypeOK'
    BY TransferTypeStep DEF ComposedInv
  <1>2. CASE [Next]_vars
    BY <1>1, <1>2, InvStep DEF ComposedInv
  <1>3. ASSUME NEW w \in Desks, AcceptApply(w)
        PROVE  ComposedInv' /\ LedgerStep
    <2>1. UNCHANGED <<status, links, task>>
      BY <1>3, HandOverEffect DEF ComposedInv
    <2>2. TypeOK'
      BY <1>1 DEF TransferTypeOK
    <2>3. NoGhostRows' /\ OnePendingPerUser'
      BY <2>1 DEF ComposedInv, Inv, NoGhostRows, OnePendingPerUser, Existing, Pending
    <2>4. LedgerStep
      BY <2>1, <2>2, ComeAndGoIsLedgerStep
    <2> QED
      BY <1>1, <2>2, <2>3, <2>4 DEF ComposedInv, Inv
  <1> QED
    BY <1>2, <1>3, ComposedStep DEF ComposedInv

LEMMA ComposedInvAlways == TransferSpec => []ComposedInv
  BY ComposedInvInit, ComposedInvStep, PTL DEF TransferSpec

\* A transfer that is accepted while requests are moderated never lets the table and
\* the membership disagree: the composed system, too, implements the ledger.
THEOREM TransfersKeepLedger == TransferSpec => KeepsLedger
  <1>1. TransferInit => Ledger!Init
    BY CreatorAssumption DEF TransferInit, Init, Ledger!Init, Requests, Ledger!Requests
  <1>2. ComposedInv /\ [TransferNext]_allVars => [Ledger!Next]_(Ledger!vars)
    BY ComposedInvStep DEF LedgerStep
  <1> QED
    BY <1>1, <1>2, ComposedInvAlways, PTL DEF TransferSpec, KeepsLedger, Ledger!Spec

\* With transfers, too, nobody waits twice ...
THEOREM NobodyWaitsTwiceWithTransfers == TransferSpec => []OnePendingPerUser
  <1>1. ComposedInv => OnePendingPerUser
    BY DEF ComposedInv, Inv
  <1> QED
    BY <1>1, ComposedInvAlways, PTL

\* ... and no decision link or handler names a row that was never inserted.
THEOREM NoGhostsWithTransfers == TransferSpec => []NoGhostRows
  <1>1. ComposedInv => NoGhostRows
    BY DEF ComposedInv, Inv
  <1> QED
    BY <1>1, ComposedInvAlways, PTL

\* An accepted transfer overturns no decision.
THEOREM DecisionsStandWithTransfers == TransferSpec => DecisionsStand
  <1>1. TransferTypeOK /\ [TransferNext]_allVars => [\A r \in Requests : DecisionStands(r)]_vars
    <2> SUFFICES ASSUME TransferTypeOK, [TransferNext]_allVars, NEW r \in Requests, ~UNCHANGED vars
                 PROVE  DecisionStands(r)
      OBVIOUS
    <2>1. ASSUME Next
          PROVE  DecisionStands(r)
      BY <2>1, MembershipStands DEF TransferTypeOK
    <2>2. ASSUME NEW w \in Desks, AcceptApply(w)
          PROVE  DecisionStands(r)
      BY <2>2, HandOverEffect DEF DecisionStands
    <2> QED
      BY <2>1, <2>2, ComposedStep
  <1> QED
    BY <1>1, TransferTypeCorrect, PTL DEF TransferSpec, DecisionsStand, DecisionStands

\* The hand-over makes its recipient manager and member in one transaction, so that a
\* rejection link and the profile form stay the only ways to orphan a manager.
THEOREM TwoDoorsWithTransfers == TransferSpec => OnlyTwoDoorsOrphanManagers
  <1> DEFINE Doors == ManagersAreMembers /\ ~ManagersAreMembers' =>
                        \/ \E link \in links : DecideReject(link)
                        \/ \E u \in Users : PreferencesLeave(u)
  <1>1. TransferTypeOK /\ [TransferNext]_allVars => [Doors]_vars
    <2> SUFFICES ASSUME TransferTypeOK, [TransferNext]_allVars, ~UNCHANGED vars
                 PROVE  Doors
      OBVIOUS
    <2>1. ASSUME Next
          PROVE  Doors
      BY <2>1, MembershipDoors DEF TransferTypeOK
    <2>2. ASSUME NEW w \in Desks, AcceptApply(w)
          PROVE  Doors
      BY <2>2, HandOverEffect DEF ManagersAreMembers
    <2> QED
      BY <2>1, <2>2, ComposedStep
  <1> QED
    BY <1>1, TransferTypeCorrect, PTL DEF TransferSpec, OnlyTwoDoorsOrphanManagers

\* The entry of the two parties of a transfer that is accepted in this step.
HandedOver(u) ==
  /\ latest # 0 /\ latest' = 0
  /\ offers[latest] = [from |-> owner, to |-> owner']
  /\ u \in {owner, owner'}

EntryIsEarnedOrHandedOver ==
  [][\A u \in members' \ members : Earned(u) \/ HandedOver(u)]_vars

\* With transfers there is one more way in, and only one: to be a party of the current
\* offer, in the step that accepts it.  A revoked or replaced offer lets nobody in.
THEOREM EntryEarnedOrHandedOver == TransferSpec => EntryIsEarnedOrHandedOver
  <1>1. TransferTypeOK /\ [TransferNext]_allVars =>
          [\A u \in members' \ members : Earned(u) \/ HandedOver(u)]_vars
    <2> SUFFICES ASSUME TransferTypeOK, [TransferNext]_allVars, ~UNCHANGED vars,
                        NEW u \in members' \ members
                 PROVE  Earned(u) \/ HandedOver(u)
      OBVIOUS
    <2>1. ASSUME Next
          PROVE  Earned(u)
      BY <2>1, MembershipEarns DEF TransferTypeOK
    <2>2. ASSUME NEW w \in Desks, AcceptApply(w)
          PROVE  HandedOver(u)
      BY <2>2, HandOverEffect DEF HandedOver
    <2> QED
      BY <2>1, <2>2, ComposedStep
  <1> QED
    BY <1>1, TransferTypeCorrect, PTL DEF TransferSpec, EntryIsEarnedOrHandedOver

\* Where no client uses the decision links and the profile form, a manager is a member at
\* all times, transfers included.
THEOREM ManagersStayMembersWithTransfers ==
  ASSUME "email" \notin Endpoints, "preferences" \notin Endpoints
  PROVE  TransferSpec => []ManagersAreMembers
  <1>1. TransferInit => ManagersAreMembers
    BY DEF TransferInit, Init, ManagersAreMembers
  <1>2. TransferTypeOK /\ ManagersAreMembers /\ [TransferNext]_allVars => ManagersAreMembers'
    <2> SUFFICES ASSUME TransferTypeOK, ManagersAreMembers, [TransferNext]_allVars
                 PROVE  ManagersAreMembers'
      OBVIOUS
    <2>1. CASE [Next]_vars
      BY <2>1, MembershipDoors DEF vars, ManagersAreMembers, TransferTypeOK
    <2>2. ASSUME NEW w \in Desks, AcceptApply(w)
          PROVE  ManagersAreMembers'
      BY <2>2, HandOverEffect DEF ManagersAreMembers
    <2> QED
      BY <2>1, <2>2, ComposedStep
  <1> QED
    BY <1>1, <1>2, TransferTypeCorrect, PTL DEF TransferSpec

\* A task of an instance whose clients neither change roles, nor leave, nor PATCH.
AdmissionTask(t) == t.kind \notin {"remove", "promote", "demote", "leave", "edit", "autoApprove"}

AdmissionInv == OwnerInside /\ \A w \in Workers : AdmissionTask(task[w])

LEMMA AdmissionTasks ==
  ASSUME TypeOK, Next, "role" \notin Endpoints, "leave" \notin Endpoints,
         "edit" \notin Endpoints, \A w \in Workers : AdmissionTask(task[w])
  PROVE  \A w \in Workers : AdmissionTask(task'[w])
  <1>1. ASSUME NEW w \in Workers, NEW t, Become(w, t), AdmissionTask(t)
        PROVE  \A v \in Workers : AdmissionTask(task'[v])
    <2>1. \A v \in Workers : task'[v] = IF v = w THEN t ELSE task[v]
      BY <1>1 DEF Become, TypeOK
    <2> QED
      BY <1>1, <2>1
  <1>2. ASSUME NEW w \in Workers, Call(w)
        PROVE  \E t : Become(w, t) /\ AdmissionTask(t)
    <2>1. ASSUME NEW u \in Users, JoinCheck(w, u)
          PROVE  \E t : Become(w, t) /\ AdmissionTask(t)
      <3>1. AdmissionTask([kind |-> "join", user |-> u, owner |-> owner, policy |-> policy])
        BY DEF AdmissionTask
      <3> QED
        BY <2>1, <3>1 DEF JoinCheck, Begin
    <2>2. ASSUME NEW a \in Users, NEW v \in Verdicts, NEW rows \in SUBSET Existing,
                 ModerateCheck(w, a, v, rows)
          PROVE  \E t : Become(w, t) /\ AdmissionTask(t)
      <3>1. AdmissionTask([kind |-> v, rows |-> rows])
        BY DEF AdmissionTask, Verdicts
      <3> QED
        BY <2>2, <3>1 DEF ModerateCheck, Begin
    <2>3. ASSUME NEW r \in Requests, CancelCheck(w, r)
          PROVE  \E t : Become(w, t) /\ AdmissionTask(t)
      <3>1. AdmissionTask([kind |-> "cancel", row |-> r])
        BY DEF AdmissionTask
      <3> QED
        BY <2>3, <3>1 DEF CancelCheck, Begin
    <2> QED
      BY <1>2, <2>1, <2>2, <2>3 DEF Call
  <1>3. ASSUME NEW w \in Workers, Continue(w)
        PROVE  \E t : Become(w, t) /\ AdmissionTask(t)
    <2>1. AdmissionTask(Idle)
      BY DEF AdmissionTask, Idle
    <2>2. \A stage \in {"insert", "refetch"} : AdmissionTask(JoinAt(stage, task[w]))
      BY DEF AdmissionTask, JoinAt
    <2> QED
      BY <1>3, <2>1, <2>2
         DEF Continue, JoinAuto, JoinLookup, JoinInsert, JoinConflict, JoinDropped, JoinRefetch,
             ApproveApply, RejectApply, CancelSave, RemoveApply, RemoveRefused, PromoteApply,
             DemoteApply, LeaveApply, EditSave, EditList, EditCommit, Finish, Doing, AdmissionTask
  <1>4. CASE AtOnce
    BY <1>4, AtOnceLinks
  <1> QED
    BY <1>1, <1>2, <1>3, <1>4 DEF Next

\* Transfers alone never leave the owner outside: where the domain changes hands by
\* links only, and its clients do nothing but ask, admit, refuse and withdraw, every
\* owner is a member, however the links race and whatever is revoked meanwhile.
THEOREM OwnerInsideWithoutRoles ==
  ASSUME "role" \notin Endpoints, "leave" \notin Endpoints, "edit" \notin Endpoints,
         "email" \notin Endpoints, "preferences" \notin Endpoints
  PROVE  TransferSpec => []OwnerInside
  <1>1. TransferInit => AdmissionInv
    BY DEF TransferInit, Init, AdmissionInv, OwnerInside, AdmissionTask, Idle
  <1>2. TransferTypeOK /\ AdmissionInv /\ [TransferNext]_allVars => AdmissionInv'
    <2> SUFFICES ASSUME TransferTypeOK, AdmissionInv, [TransferNext]_allVars
                 PROVE  AdmissionInv'
      OBVIOUS
    <2>1. CASE UNCHANGED vars
      BY <2>1 DEF vars, AdmissionInv, OwnerInside
    <2>2. ASSUME Next
          PROVE  AdmissionInv'
      <3>1. \A w \in Workers : AdmissionTask(task'[w])
        BY <2>2, AdmissionTasks DEF AdmissionInv, TransferTypeOK
      <3>2. OwnerDoor => FALSE
        BY DEF OwnerDoor, Completes, Saves, AdmissionInv, AdmissionTask
      <3> QED
        BY <2>2, <3>1, <3>2, MembershipOwnerDoor DEF AdmissionInv, TransferTypeOK
    <2>3. ASSUME NEW w \in Desks, AcceptApply(w)
          PROVE  AdmissionInv'
      BY <2>3, HandOverEffect DEF AdmissionInv, OwnerInside
    <2> QED
      BY <2>1, <2>2, <2>3, ComposedStep
  <1>3. AdmissionInv => OwnerInside
    BY DEF AdmissionInv
  <1> QED
    BY <1>1, <1>2, <1>3, TransferTypeCorrect, PTL DEF TransferSpec
===============================================================================
