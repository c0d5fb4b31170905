------------------------------ MODULE JoinLedger ------------------------------
(***************************************************************************)
(* What the join-request table promises about membership, whatever the     *)
(* endpoint, moderator or race a step comes from.                          *)
(*                                                                         *)
(* A row <<u, n>> is the n-th request user u ever made.  A row is approved *)
(* only by a step that leaves its requester inside the domain; a rejection *)
(* that overturns an approval takes the requester out in the same step; no *)
(* other rejection and no cancellation touches membership; and a user never*)
(* has two rows waiting at once.  People also come and go for reasons the  *)
(* table does not record (automatic policy, roles, leaving).               *)
(***************************************************************************)
EXTENDS Naturals

CONSTANTS Users,        \* accounts
          MaxRequests   \* requests one user may ever make

VARIABLES status,       \* status of every row, "absent" until inserted
          members       \* users inside the domain

vars == <<status, members>>

Requests == Users \X (1..MaxRequests)

PendingOf(u) == {r \in Requests : r[1] = u /\ status[r] = "pending"}

Init == /\ status = [r \in Requests |-> "absent"]
        /\ members \in SUBSET Users

Submit(r) ==
  /\ status[r] = "absent"
  /\ PendingOf(r[1]) = {}
  /\ status' = [status EXCEPT ![r] = "pending"]
  /\ UNCHANGED members

Approve(rows) ==
  /\ status' = [r \in Requests |-> IF r \in rows THEN "approved" ELSE status[r]]
  /\ members \cup {r[1] : r \in rows} \subseteq members'
  /\ members' \subseteq Users

Reject(rows) ==
  /\ \A r \in rows : status[r] # "approved"
  /\ status' = [r \in Requests |-> IF r \in rows THEN "rejected" ELSE status[r]]
  /\ UNCHANGED members

Overturn(r) ==
  /\ status[r] = "approved"
  /\ status' = [status EXCEPT ![r] = "rejected"]
  /\ members' = members \ {r[1]}

Withdraw(rows) ==
  /\ status' = [r \in Requests |-> IF r \in rows THEN "cancelled" ELSE status[r]]
  /\ UNCHANGED members

ComeAndGo ==
  /\ members' \in SUBSET Users
  /\ UNCHANGED status

Existing == {r \in Requests : status[r] # "absent"}

Next == \/ \E r \in Requests : Submit(r) \/ Overturn(r)
        \/ \E rows \in SUBSET Existing : Approve(rows) \/ Reject(rows) \/ Withdraw(rows)
        \/ ComeAndGo

Spec == Init /\ [][Next]_vars
===============================================================================
