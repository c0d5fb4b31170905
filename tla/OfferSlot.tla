------------------------------- MODULE OfferSlot -------------------------------
(***************************************************************************)
(* What the transfer of a domain promises, with every call taken at once:  *)
(* there is one slot for an offer of ownership.  A new offer takes the slot*)
(* over, a revocation empties it, and taking the offer moves the domain    *)
(* from who offered it to who was offered it and empties the slot in the   *)
(* same step.  An offer that has lost the slot never gets it back.         *)
(***************************************************************************)
EXTENDS Naturals, Sequences

CONSTANT Users      \* accounts

VARIABLES owner,    \* of the domain
          offers,   \* every offer ever made, [from, to]
          taken,    \* how often each was taken
          open      \* the number of the offer in the slot, 0 when it is empty

vars == <<owner, offers, taken, open>>

Init ==
  /\ owner \in Users
  /\ offers = <<>>
  /\ taken = <<>>
  /\ open = 0

Propose(from, to) ==
  /\ offers' = Append(offers, [from |-> from, to |-> to])
  /\ taken' = Append(taken, 0)
  /\ open' = Len(offers) + 1
  /\ UNCHANGED owner

Withdraw ==
  /\ open' = 0
  /\ UNCHANGED <<owner, offers, taken>>

Take ==
  /\ open # 0
  /\ owner = offers[open].from
  /\ owner' = offers[open].to
  /\ taken' = [taken EXCEPT ![open] = @ + 1]
  /\ open' = 0
  /\ UNCHANGED offers

\* The owner also changes outside the protocol, by an edit of the domain.
Reassign ==
  /\ owner' \in Users
  /\ UNCHANGED <<offers, taken, open>>

Next == (\E from, to \in Users : Propose(from, to)) \/ Withdraw \/ Take \/ Reassign

Spec == Init /\ [][Next]_vars
===============================================================================
