-------------------------- MODULE OwnershipTransfer --------------------------
(***************************************************************************)
(* The two-step transfer of a domain: the owner offers it, the recipient   *)
(* accepts by the signed link that was mailed, and the owner may revoke.   *)
(* A link is good as long as its nonce is that of the latest transfer event*)
(* of the audit log; only that event is kept here.                         *)
(*                                                                         *)
(* Composed with DomainMembership, whose PATCH, role and leave handlers    *)
(* read the owner before they write, and so meet a transfer half-way.      *)
(* A transfer handler is split the same way: what it checks without a lock *)
(* is one step, its writing transaction another.                           *)
(***************************************************************************)
EXTENDS DomainMembership, Sequences

CONSTANTS
  MaxOffers,   \* bound: transfers initiated
  Desks        \* bound: transfer calls the server handles at once

ASSUME MaxOffersAssumption == MaxOffers \in Nat

VARIABLES
  offers,   \* the transfer.initiate rows: who offers the domain to whom
  taken,    \* how often each offer was accepted
  latest,   \* the offer that is the latest transfer event, 0 for none or another event
  answer    \* what each transfer handler has read and not yet written

logVars == <<offers, taken, latest>>
transferVars == <<logVars, answer>>
allVars == <<vars, transferVars>>

-----------------------------------------------------------------------------
Offer == [from : Users, to : Users]

Answer == {Idle} \cup [kind : {"transfer"}, offer : Offer]
                 \cup [kind : {"revoke"}]
                 \cup [kind : {"accept"}, nonce : 1..MaxOffers]

Answering(w, kind) == answer[w].kind = kind
Reply(w, a) == answer' = [answer EXCEPT ![w] = a]
OwnerOrSuperuser(u) == u \in Superusers \cup {owner}

\* The state of the link with this nonce: its initiator owns the domain, and
\* transfer_is_current.
Eligible(nonce) == owner = offers[nonce].from /\ latest = nonce

-----------------------------------------------------------------------------
(* POST /domain/{id}/transfer/ *)

TransferCheck(w, u, to) ==
  /\ Answering(w, "idle")
  /\ OwnerOrSuperuser(u)
  /\ to # owner
  /\ Reply(w, [kind |-> "transfer", offer |-> [from |-> u, to |-> to]])
  /\ UNCHANGED <<vars, logVars>>

\* The audit row is inserted, and the link mailed.
TransferRecord(w) ==
  /\ Answering(w, "transfer")
  /\ Len(offers) < MaxOffers
  /\ offers' = Append(offers, answer[w].offer)
  /\ taken' = Append(taken, 0)
  /\ latest' = Len(offers) + 1
  /\ Reply(w, Idle)
  /\ UNCHANGED vars

(* DELETE /domain/{id}/transfer/ *)

RevokeCheck(w, u) ==
  /\ Answering(w, "idle")
  /\ OwnerOrSuperuser(u)
  /\ latest # 0
  /\ Reply(w, [kind |-> "revoke"])
  /\ UNCHANGED <<vars, logVars>>

\* Faulty form: the transfer.initiate row is deleted, which uncovers the one before.
RevokeRecordDeleting(w) ==
  /\ Answering(w, "revoke")
  /\ latest' = latest - 1
  /\ Reply(w, Idle)
  /\ UNCHANGED <<vars, offers, taken>>

RevokeRecord(w) ==
  /\ Answering(w, "revoke")
  /\ latest' = 0
  /\ Reply(w, Idle)
  /\ UNCHANGED <<vars, offers, taken>>

(* POST of the link, by its recipient *)

AcceptCheck(w, nonce) ==
  /\ Answering(w, "idle")
  /\ Eligible(nonce)
  /\ Reply(w, [kind |-> "accept", nonce |-> nonce])
  /\ UNCHANGED <<vars, logVars>>

\* What the transaction writes, with this log row.
HandOver(w, event) ==
  LET n == answer[w].nonce
  IN  /\ owner' = offers[n].to
      /\ members' = members \cup {offers[n].from, offers[n].to}
      /\ managers' = managers \cup {offers[n].to}
      /\ latest' = event
      /\ taken' = [taken EXCEPT ![n] = @ + 1]
      /\ Reply(w, Idle)
      /\ UNCHANGED <<policy, status, links, task, offers>>

\* Faulty form: the link is not checked again under the lock.
AcceptApplyUnchecked(w) == Answering(w, "accept") /\ HandOver(w, 0)

\* Faulty form: no transfer.accept row is written.
AcceptApplyUnlogged(w) ==
  /\ Answering(w, "accept")
  /\ Eligible(answer[w].nonce)
  /\ HandOver(w, latest)

\* Faulty form: the recipient is not added to the members.
AcceptApplyOutside(w) ==
  LET n == answer[w].nonce
  IN  /\ Answering(w, "accept")
      /\ Eligible(n)
      /\ owner' = offers[n].to
      /\ latest' = 0
      /\ taken' = [taken EXCEPT ![n] = @ + 1]
      /\ Reply(w, Idle)
      /\ UNCHANGED <<managers, members, policy, status, links, task, offers>>

\* The Domain row is locked and the link checked again.  The audit row of another
\* transfer handler cannot commit meanwhile: its foreign key needs the same lock.
AcceptApply(w) ==
  /\ Answering(w, "accept")
  /\ Eligible(answer[w].nonce)
  /\ HandOver(w, 0)

AcceptRefused(w) ==
  /\ Answering(w, "accept")
  /\ ~Eligible(answer[w].nonce)
  /\ Reply(w, Idle)
  /\ UNCHANGED <<vars, logVars>>

-----------------------------------------------------------------------------
TransferInit ==
  /\ Init
  /\ offers = <<>>
  /\ taken = <<>>
  /\ latest = 0
  /\ answer = [w \in Desks |-> Idle]

TransferCall(w) ==
  \/ \E u, to \in Users : TransferCheck(w, u, to)
  \/ \E u \in Users : RevokeCheck(w, u)
  \/ \E nonce \in 1..Len(offers) : AcceptCheck(w, nonce)

TransferContinue(w) ==
  TransferRecord(w) \/ RevokeRecord(w) \/ AcceptApply(w) \/ AcceptRefused(w)

MembershipStep == Next /\ UNCHANGED transferVars

TransferNext ==
  MembershipStep \/ \E w \in Desks : TransferCall(w) \/ TransferContinue(w)

TransferSpec == TransferInit /\ [][TransferNext]_allVars

-----------------------------------------------------------------------------
(* Properties *)

TransferTypeOK ==
  /\ TypeOK
  /\ offers \in Seq(Offer)
  /\ Len(offers) <= MaxOffers
  /\ taken \in Seq(Nat)
  /\ Len(taken) = Len(offers)
  /\ latest \in 0..Len(offers)
  /\ answer \in [Desks -> Answer]

\* A link moves the domain at most once, though its recipient may click it twice at
\* the same time, and though the domain may come back to who sent the link.
OfferTakenOnce == \A n \in 1..Len(taken) : taken[n] <= 1

\* The log, its nonces and the lock make the transfer handlers, which check before
\* they lock, behave like calls on one slot taken at once.
Slot == INSTANCE OfferSlot WITH open <- latest
KeepsSlot == Slot!Spec

\* A PATCH saves the Domain instance it read.
Saves(w) == Completes(w, {"edit", "autoApprove"})

\* The domain changes hands by the link that is current, from who sent it to who
\* was sent it, or by the save of a PATCH, which writes the owner it names or, when
\* it names none, the owner it once read.
OwnerChangesHands ==
  [][owner' # owner =>
       \/ /\ latest # 0
          /\ offers[latest] = [from |-> owner, to |-> owner']
          /\ latest' = 0
       \/ \E w \in Workers :
            Saves(w) /\ owner' = Written(task[w].patch.owner, task[w].owner)]_allVars

OwnerInside == owner \in members

\* The owner is a member; what can break this is a handler that read an earlier
\* owner (it lets go, or removes, who has become the owner, or gives the domain back
\* to who has left it), the profile form and the rejection link.
OwnerStaysInside ==
  [][OwnerInside /\ ~OwnerInside' =>
       \/ \E w \in Workers : Completes(w, {"leave"}) /\ task[w].user = owner
       \/ \E w \in Workers : Completes(w, {"remove"}) /\ task[w].target = owner
       \/ \E w \in Workers : Saves(w) /\ owner' = task[w].owner /\ owner' # owner
       \/ PreferencesLeave(owner)
       \/ \E link \in links : DecideReject(link)]_allVars
===============================================================================
