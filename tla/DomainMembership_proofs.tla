------------------------ MODULE DomainMembership_proofs ------------------------
(* Theorems about DomainMembership, for every value of its constants. *)
EXTENDS DomainMembership, TLAPS

-----------------------------------------------------------------------------
(* What the kind of a task says of its other fields. *)

LEMMA TaskShapes ==
  ASSUME NEW t \in Task
  PROVE  /\ t.kind \in {"join", "insert", "refetch"} <=> t \in JoinTask
         /\ t.kind \in Verdicts <=> t \in ModerateTask
         /\ t.kind = "cancel" <=> t \in CancelTask
         /\ t.kind \in {"remove", "promote", "demote"} <=> t \in RoleTask
         /\ t.kind = "leave" <=> t \in LeaveTask
         /\ t.kind = "edit" <=> t \in EditTask
         /\ t.kind = "autoApprove" <=> t \in AutoTask
  BY DEF Task, Idle, JoinTask, ModerateTask, CancelTask, RoleTask, LeaveTask, EditTask,
         AutoTask, Verdicts

\* What a call puts into a task has the shape of its kind, and names existing rows.
LEMMA BeginsTyped ==
  ASSUME TypeOK, NEW w \in Workers, Call(w)
  PROVE  /\ \E t \in Task : Begin(w, t)
         /\ UNCHANGED <<domainVars, members, status, links>>
  <1>1. ASSUME NEW u \in Users, JoinCheck(w, u)
        PROVE  \E t \in JoinTask : Begin(w, t)
    BY <1>1 DEF JoinCheck, TypeOK, JoinTask
  <1>2. ASSUME NEW a \in Users, NEW v \in Verdicts, NEW rows \in SUBSET Existing,
               ModerateCheck(w, a, v, rows)
        PROVE  \E t \in ModerateTask : Begin(w, t)
    BY <1>2 DEF ModerateCheck, TypeOK, ModerateTask, Existing
  <1>3. ASSUME NEW r \in Requests, CancelCheck(w, r)
        PROVE  \E t \in CancelTask : Begin(w, t)
    BY <1>3 DEF CancelCheck, CancelTask
  <1>4. ASSUME NEW a \in Users, NEW t \in Users, NEW k \in {"remove", "promote", "demote"},
               RoleCheck(w, a, t, k)
        PROVE  \E x \in RoleTask : Begin(w, x)
    BY <1>4 DEF RoleCheck, RoleTask
  <1>5. ASSUME NEW u \in Users, LeaveCheck(w, u)
        PROVE  \E t \in LeaveTask : Begin(w, t)
    BY <1>5 DEF LeaveCheck, LeaveTask
  <1>6. ASSUME NEW a \in Users, NEW p \in Patches, EditCheck(w, a, p)
        PROVE  \E t \in EditTask : Begin(w, t)
    BY <1>6, PatchesAssumption DEF EditCheck, TypeOK, EditTask
  <1>7. UNCHANGED <<domainVars, members, status, links>>
    BY DEF Call, JoinCheck, ModerateCheck, CancelCheck, RoleCheck, LeaveCheck, EditCheck
  <1> QED
    BY <1>1, <1>2, <1>3, <1>4, <1>5, <1>6, <1>7 DEF Call, Task

\* Marking rows keeps the table typed.
LEMMA MarkRowsTyped ==
  ASSUME TypeOK, NEW rows, NEW s \in Statuses, MarkRows(rows, s)
  PROVE  status' \in [Requests -> Statuses]
  BY DEF MarkRows, TypeOK

\* The insert of a row marks it pending and mails links of that row only.
LEMMA InsertRowEffect ==
  ASSUME TypeOK, NEW u \in Users, NEW recipients \in SUBSET Users, InsertRow(u, recipients)
  PROVE  \E r \in Requests :
           /\ r[1] = u
           /\ status[r] = "absent"
           /\ status' = [status EXCEPT ![r] = "pending"]
           /\ links' \subseteq links \cup ({r} \X Users)
  <1>1. PICK n \in 1..MaxRequests :
          /\ status[<<u, n>>] = "absent"
          /\ MarkRows({<<u, n>>}, "pending")
          /\ links' = links \cup ({<<u, n>>} \X recipients)
    BY DEF InsertRow
  <1>2. <<u, n>> \in Requests
    BY DEF Requests
  <1>3. status' = [status EXCEPT ![<<u, n>>] = "pending"]
    BY <1>1, <1>2 DEF MarkRows, TypeOK
  <1>4. links' \subseteq links \cup ({<<u, n>>} \X Users)
    BY <1>1
  <1> QED
    BY <1>1, <1>2, <1>3, <1>4

LEMMA ApproversTyped ==
  ASSUME TypeOK, NEW o \in Users, NEW p
  PROVE  Approvers(o, p) \in SUBSET Users
  BY DEF Approvers, TypeOK

-----------------------------------------------------------------------------
(* Type correctness *)

LEMMA TypeInit == Init => TypeOK
  BY CreatorAssumption DEF Init, TypeOK, Statuses, Task

\* Finishing or replacing a task by a typed one keeps the tasks typed.
LEMMA BecomeTyped ==
  ASSUME TypeOK, NEW w \in Workers, NEW t \in Task, Become(w, t)
  PROVE  task' \in [Workers -> Task]
  BY DEF Become, TypeOK

LEMMA FinishTyped ==
  ASSUME TypeOK, NEW w \in Workers, Finish(w)
  PROVE  task' \in [Workers -> Task]
  BY DEF Finish, Become, TypeOK, Task

LEMMA ContinueTyped ==
  ASSUME TypeOK, NEW w \in Workers, Continue(w)
  PROVE  TypeOK'
  <1> DEFINE t == task[w]
  <1>0. t \in Task
    BY DEF TypeOK
  <1> USE DEF Doing, domainVars
  <1>1. CASE JoinAuto(w)
    BY <1>0, <1>1, TaskShapes, FinishTyped DEF JoinAuto, TypeOK, JoinTask
  <1>2. CASE JoinLookup(w)
    <2>1. t \in JoinTask /\ JoinAt("insert", t) \in Task
      BY <1>0, <1>2, TaskShapes DEF JoinLookup, JoinTask, JoinAt, Task
    <2> QED
      BY <1>2, <2>1, BecomeTyped, FinishTyped DEF JoinLookup, TypeOK
  <1>3. CASE JoinInsert(w)
    <2>1. t.user \in Users /\ Approvers(t.owner, t.policy) \in SUBSET Users
      BY <1>0, <1>3, TaskShapes, ApproversTyped DEF JoinInsert, JoinTask
    <2>2. status' \in [Requests -> Statuses] /\ links' \in SUBSET (Requests \X Users)
      BY <1>3, <2>1, InsertRowEffect DEF JoinInsert, TypeOK, Statuses
    <2> QED
      BY <1>3, <2>2, FinishTyped DEF JoinInsert, TypeOK
  <1>4. CASE JoinConflict(w)
    <2>1. JoinAt("refetch", t) \in Task
      BY <1>0, <1>4, TaskShapes DEF JoinConflict, JoinTask, JoinAt, Task
    <2> QED
      BY <1>4, <2>1, BecomeTyped DEF JoinConflict, TypeOK
  <1>5. CASE JoinDropped(w) \/ JoinRefetch(w) \/ RemoveRefused(w)
    BY <1>5, FinishTyped DEF JoinDropped, JoinRefetch, RemoveRefused, TypeOK
  <1>6. CASE ApproveApply(w)
    <2>1. Requesters(t.rows \cap Pending) \subseteq Users
      BY DEF Requesters, Pending, Requests
    <2>2. status' \in [Requests -> Statuses]
      BY <1>6, MarkRowsTyped DEF ApproveApply, Statuses
    <2> QED
      BY <1>6, <2>1, <2>2, FinishTyped DEF ApproveApply, TypeOK
  <1>7. CASE RejectApply(w)
    BY <1>7, MarkRowsTyped, FinishTyped DEF RejectApply, TypeOK, Statuses
  <1>8. CASE CancelSave(w)
    BY <1>8, MarkRowsTyped, FinishTyped DEF CancelSave, TypeOK, Statuses
  <1>9. CASE RemoveApply(w)
    BY <1>9, FinishTyped DEF RemoveApply, TypeOK
  <1>10. CASE PromoteApply(w)
    <2>1. t.target \in Users
      BY <1>0, <1>10, TaskShapes DEF PromoteApply, RoleTask
    <2> QED
      BY <1>10, <2>1, MarkRowsTyped, FinishTyped DEF PromoteApply, TypeOK, Statuses
  <1>11. CASE DemoteApply(w)
    BY <1>11, FinishTyped DEF DemoteApply, TypeOK
  <1>12. CASE LeaveApply(w)
    BY <1>12, FinishTyped DEF LeaveApply, TypeOK
  <1>13. CASE EditSave(w)
    <2>1. t \in EditTask
      BY <1>0, <1>13, TaskShapes DEF EditSave
    <2> QED
      BY <1>13, <2>1, FinishTyped
         DEF EditSave, TypeOK, EditTask, PatchType, Written, Team, NewOwners, NewManagers
  <1>14. CASE EditList(w)
    <2>1. t \in EditTask
      BY <1>0, <1>14, TaskShapes DEF EditList
    <2>2. [kind |-> "autoApprove", owner |-> t.owner, patch |-> t.patch, rows |-> Pending]
            \in Task
      BY <2>1 DEF EditTask, AutoTask, Task, Pending
    <2> QED
      BY <1>14, <2>2, BecomeTyped DEF EditList, TypeOK
  <1>15. CASE EditCommit(w)
    <2>1. t \in AutoTask
      BY <1>0, <1>15, TaskShapes DEF EditCommit
    <2>2. Requesters(t.rows) \subseteq Users
      BY <2>1 DEF AutoTask, Requesters, Requests
    <2>3. status' \in [Requests -> Statuses]
      BY <1>15, MarkRowsTyped DEF EditCommit, Statuses
    <2>4. task' \in [Workers -> Task]
      BY <1>15, FinishTyped DEF EditCommit
    <2>5. owner' \in Users /\ policy' \in Policies /\ managers' \in SUBSET Users
      BY <1>15, <2>1 DEF EditCommit, TypeOK, AutoTask, PatchType, Written, Team, Policies
    <2>6. members' \in SUBSET Users
      BY <1>15, <2>1, <2>2
         DEF EditCommit, TypeOK, AutoTask, PatchType, NewOwners, NewManagers
    <2> QED
      BY <1>15, <2>3, <2>4, <2>5, <2>6 DEF EditCommit, TypeOK
  <1> QED
    BY <1>1, <1>2, <1>3, <1>4, <1>5, <1>6, <1>7, <1>8, <1>9, <1>10, <1>11, <1>12, <1>13,
       <1>14, <1>15 DEF Continue

LEMMA AtOnceTyped ==
  ASSUME TypeOK, AtOnce
  PROVE  TypeOK'
  <1> USE DEF domainVars
  <1>1. ASSUME NEW link \in links, DecideApprove(link)
        PROVE  TypeOK'
    <2>1. link[1] \in Requests /\ Requesters({link[1]}) \subseteq Users
      BY <1>1 DEF TypeOK, Requesters, Requests
    <2> QED
      BY <1>1, <2>1, MarkRowsTyped DEF DecideApprove, TypeOK, Statuses
  <1>2. ASSUME NEW link \in links, DecideReject(link)
        PROVE  TypeOK'
    BY <1>2, MarkRowsTyped DEF DecideReject, TypeOK, Statuses
  <1>3. ASSUME NEW u \in Users, PreferencesLeave(u)
        PROVE  TypeOK'
    BY <1>3 DEF PreferencesLeave, TypeOK
  <1>4. ASSUME NEW u \in Users, PreferencesJoin(u)
        PROVE  TypeOK'
    <2>1. CASE policy = "auto"
      BY <1>4, <2>1 DEF PreferencesJoin, TypeOK
    <2>2. CASE policy # "auto"
      <3>1. Approvers(owner, policy) \in SUBSET Users
        BY ApproversTyped DEF TypeOK
      <3>2. status' \in [Requests -> Statuses] /\ links' \in SUBSET (Requests \X Users)
        BY <1>4, <2>2, <3>1, InsertRowEffect DEF PreferencesJoin, TypeOK, Statuses
      <3> QED
        BY <1>4, <2>2, <3>2 DEF PreferencesJoin, TypeOK
    <2> QED
      BY <2>1, <2>2
  <1>5. ASSUME NEW rows \in SUBSET Requests, Sweep(rows)
        PROVE  TypeOK'
    BY <1>5, MarkRowsTyped DEF Sweep, TypeOK, Statuses
  <1> QED
    BY <1>1, <1>2, <1>3, <1>4, <1>5 DEF AtOnce

LEMMA TypeStep == TypeOK /\ [Next]_vars => TypeOK'
  <1> SUFFICES ASSUME TypeOK, [Next]_vars
               PROVE  TypeOK'
    OBVIOUS
  <1>1. CASE AtOnce
    BY <1>1, AtOnceTyped
  <1>2. ASSUME NEW w \in Workers, Call(w)
        PROVE  TypeOK'
    BY <1>2, BeginsTyped, BecomeTyped DEF Begin, TypeOK, domainVars
  <1>3. ASSUME NEW w \in Workers, Continue(w)
        PROVE  TypeOK'
    BY <1>3, ContinueTyped
  <1>4. CASE UNCHANGED vars
    BY <1>4 DEF vars, TypeOK
  <1> QED
    BY <1>1, <1>2, <1>3, <1>4 DEF Next

\* The tables and the handlers' tasks keep their types in every interleaving.
THEOREM TypeCorrect == Spec => []TypeOK
  BY TypeInit, TypeStep, PTL DEF Spec

-----------------------------------------------------------------------------
(* Every step is a step of the ledger *)

LedgerStep == [Ledger!Next]_(Ledger!vars)

LEMMA ApproveIsLedgerStep ==
  ASSUME TypeOK, TypeOK', NEW rows \in SUBSET Existing,
         MarkRows(rows, "approved"), members \cup Requesters(rows) \subseteq members'
  PROVE  LedgerStep
  <1>1. Ledger!Approve(rows)
    BY DEF Ledger!Approve, MarkRows, Requesters, TypeOK, Requests, Ledger!Requests
  <1> QED
    BY <1>1 DEF LedgerStep, Ledger!Next, Existing, Ledger!Existing, Requests, Ledger!Requests

LEMMA RejectIsLedgerStep ==
  ASSUME TypeOK, NEW rows \in SUBSET Existing,
         MarkRows(rows, "rejected"), \A r \in rows : status[r] # "approved",
         UNCHANGED members
  PROVE  LedgerStep
  <1>1. Ledger!Reject(rows)
    BY DEF Ledger!Reject, MarkRows, Requests, Ledger!Requests
  <1> QED
    BY <1>1 DEF LedgerStep, Ledger!Next, Existing, Ledger!Existing, Requests, Ledger!Requests

LEMMA OverturnIsLedgerStep ==
  ASSUME TypeOK, NEW r \in Requests,
         MarkRows({r}, "rejected"), status[r] = "approved", members' = members \ Requesters({r})
  PROVE  LedgerStep
  <1>1. Ledger!Overturn(r)
    <2>1. status' = [status EXCEPT ![r] = "rejected"]
      BY DEF MarkRows, TypeOK
    <2>2. members' = members \ {r[1]}
      BY DEF Requesters
    <2> QED
      BY <2>1, <2>2 DEF Ledger!Overturn
  <1> QED
    BY <1>1 DEF LedgerStep, Ledger!Next, Requests, Ledger!Requests

LEMMA WithdrawIsLedgerStep ==
  ASSUME TypeOK, NEW rows \in SUBSET Existing,
         MarkRows(rows, "cancelled"), UNCHANGED members
  PROVE  LedgerStep
  <1>1. Ledger!Withdraw(rows)
    BY DEF Ledger!Withdraw, MarkRows, Requests, Ledger!Requests
  <1> QED
    BY <1>1 DEF LedgerStep, Ledger!Next, Existing, Ledger!Existing, Requests, Ledger!Requests

LEMMA SubmitIsLedgerStep ==
  ASSUME TypeOK, NEW u \in Users, NEW recipients \in SUBSET Users,
         PendingOf(u) = {}, InsertRow(u, recipients), UNCHANGED members
  PROVE  LedgerStep
  <1>1. PICK r \in Requests :
          /\ r[1] = u
          /\ status[r] = "absent"
          /\ status' = [status EXCEPT ![r] = "pending"]
    BY InsertRowEffect
  <1>2. Ledger!PendingOf(r[1]) = {}
    BY <1>1 DEF PendingOf, Pending, Ledger!PendingOf, Requests, Ledger!Requests
  <1>3. Ledger!Submit(r)
    BY <1>1, <1>2 DEF Ledger!Submit
  <1> QED
    BY <1>3 DEF LedgerStep, Ledger!Next, Requests, Ledger!Requests

LEMMA ComeAndGoIsLedgerStep ==
  ASSUME TypeOK', UNCHANGED status
  PROVE  LedgerStep
  BY DEF LedgerStep, Ledger!Next, Ledger!ComeAndGo, TypeOK

LEMMA PendingExists == Pending \subseteq Existing /\ Pending \subseteq Requests
  BY DEF Pending, Existing

\* The rows a task names are rows of the table.
LEMMA TaskRowsExist ==
  ASSUME TypeOK, NoGhostRows, NEW w \in Workers
  PROVE  /\ Doing(w, "cancel") => task[w].row \in Existing
         /\ Doing(w, "autoApprove") => task[w].rows \in SUBSET Existing
  BY TaskShapes DEF TypeOK, NoGhostRows, Doing

LEMMA ContinueIsLedgerStep ==
  ASSUME TypeOK, TypeOK', NoGhostRows, NEW w \in Workers, Continue(w)
  PROVE  LedgerStep
  <1> DEFINE t == task[w]
  <1>0. t \in Task
    BY DEF TypeOK
  <1>1. CASE UNCHANGED status
    BY <1>1, ComeAndGoIsLedgerStep
  <1>2. CASE JoinInsert(w)
    <2>1. t.user \in Users /\ Approvers(t.owner, t.policy) \in SUBSET Users
      BY <1>0, <1>2, TaskShapes, ApproversTyped DEF JoinInsert, JoinTask, Doing
    <2> QED
      BY <1>2, <2>1, SubmitIsLedgerStep DEF JoinInsert
  <1>3. CASE ApproveApply(w)
    <2>1. t.rows \cap Pending \in SUBSET Existing
      BY PendingExists
    <2> QED
      BY <1>3, <2>1, ApproveIsLedgerStep DEF ApproveApply
  <1>4. CASE RejectApply(w)
    <2>1. t.rows \cap Pending \in SUBSET Existing
      BY PendingExists
    <2>2. \A r \in t.rows \cap Pending : status[r] # "approved"
      BY DEF Pending
    <2> QED
      BY <1>4, <2>1, <2>2, RejectIsLedgerStep DEF RejectApply
  <1>5. CASE CancelSave(w)
    <2>1. {t.row} \in SUBSET Existing
      BY <1>5, TaskRowsExist DEF CancelSave
    <2> QED
      BY <1>5, <2>1, WithdrawIsLedgerStep DEF CancelSave
  <1>6. CASE PromoteApply(w)
    <2>1. PendingOf(t.target) \in SUBSET Existing
      BY PendingExists DEF PendingOf
    <2>2. members \cup Requesters(PendingOf(t.target)) \subseteq members'
      BY <1>6 DEF PromoteApply, Requesters, PendingOf
    <2> QED
      BY <1>6, <2>1, <2>2, ApproveIsLedgerStep DEF PromoteApply
  <1>7. CASE EditCommit(w)
    <2>1. t.rows \in SUBSET Existing
      BY <1>7, TaskRowsExist DEF EditCommit
    <2>2. members \cup Requesters(t.rows) \subseteq members'
      BY <1>7 DEF EditCommit
    <2> QED
      BY <1>7, <2>1, <2>2, ApproveIsLedgerStep DEF EditCommit
  <1> QED
    BY <1>1, <1>2, <1>3, <1>4, <1>5, <1>6, <1>7
       DEF Continue, JoinAuto, JoinLookup, JoinConflict, JoinDropped, JoinRefetch, RemoveApply,
           RemoveRefused, DemoteApply, LeaveApply, EditSave, EditList

LEMMA AtOnceIsLedgerStep ==
  ASSUME TypeOK, TypeOK', NoGhostRows, AtOnce
  PROVE  LedgerStep
  <1>1. ASSUME NEW link \in links, DecideApprove(link)
        PROVE  LedgerStep
    <2>1. {link[1]} \in SUBSET Existing
      BY DEF NoGhostRows
    <2> QED
      BY <1>1, <2>1, ApproveIsLedgerStep DEF DecideApprove
  <1>2. ASSUME NEW link \in links, DecideReject(link)
        PROVE  LedgerStep
    <2>1. link[1] \in Requests /\ {link[1]} \in SUBSET Existing
      BY DEF NoGhostRows, Existing
    <2>2. CASE status[link[1]] = "approved"
      BY <1>2, <2>1, <2>2, OverturnIsLedgerStep DEF DecideReject
    <2>3. CASE status[link[1]] # "approved"
      BY <1>2, <2>1, <2>3, RejectIsLedgerStep DEF DecideReject
    <2> QED
      BY <2>2, <2>3
  <1>3. ASSUME NEW u \in Users, PreferencesLeave(u)
        PROVE  LedgerStep
    BY <1>3, ComeAndGoIsLedgerStep DEF PreferencesLeave
  <1>4. ASSUME NEW u \in Users, PreferencesJoin(u)
        PROVE  LedgerStep
    <2>1. Approvers(owner, policy) \in SUBSET Users
      BY ApproversTyped DEF TypeOK
    <2> QED
      BY <1>4, <2>1, ComeAndGoIsLedgerStep, SubmitIsLedgerStep DEF PreferencesJoin
  <1>5. ASSUME NEW rows \in SUBSET Requests, Sweep(rows)
        PROVE  LedgerStep
    <2>1. rows \in SUBSET Existing
      BY <1>5, PendingExists DEF Sweep
    <2> QED
      BY <1>5, <2>1, WithdrawIsLedgerStep DEF Sweep
  <1> QED
    BY <1>1, <1>2, <1>3, <1>4, <1>5 DEF AtOnce

LEMMA NextIsLedgerStep ==
  ASSUME TypeOK, TypeOK', NoGhostRows, [Next]_vars
  PROVE  LedgerStep
  <1>1. CASE AtOnce
    BY <1>1, AtOnceIsLedgerStep
  <1>2. ASSUME NEW w \in Workers, Call(w)
        PROVE  LedgerStep
    BY <1>2, BeginsTyped, ComeAndGoIsLedgerStep
  <1>3. ASSUME NEW w \in Workers, Continue(w)
        PROVE  LedgerStep
    BY <1>3, ContinueIsLedgerStep
  <1>4. CASE UNCHANGED vars
    BY <1>4, ComeAndGoIsLedgerStep DEF vars
  <1> QED
    BY <1>1, <1>2, <1>3, <1>4 DEF Next

-----------------------------------------------------------------------------
(* What the ledger's steps keep *)

\* A row never leaves the table, and no step makes a user wait twice.
LEMMA LedgerStepKeeps ==
  ASSUME TypeOK, LedgerStep
  PROVE  /\ Existing \subseteq Existing'
         /\ OnePendingPerUser => OnePendingPerUser'
  <1> USE DEF Existing, Ledger!Existing, OnePendingPerUser, Pending, Requests, Ledger!Requests
  <1>1. ASSUME NEW r \in Ledger!Requests, Ledger!Submit(r)
        PROVE  /\ Existing \subseteq Existing'
               /\ OnePendingPerUser => OnePendingPerUser'
    <2>1. \A q \in Requests : status'[q] = IF q = r THEN "pending" ELSE status[q]
      BY <1>1 DEF Ledger!Submit, TypeOK
    <2>2. \A q \in Requests : q[1] = r[1] => status[q] # "pending"
      BY <1>1 DEF Ledger!Submit, Ledger!PendingOf
    <2> QED
      BY <2>1, <2>2
  <1>2. ASSUME NEW r \in Ledger!Requests, Ledger!Overturn(r)
        PROVE  /\ Existing \subseteq Existing'
               /\ OnePendingPerUser => OnePendingPerUser'
    <2>1. \A q \in Requests : status'[q] = IF q = r THEN "rejected" ELSE status[q]
      BY <1>2 DEF Ledger!Overturn, TypeOK
    <2> QED
      BY <2>1
  <1>3. ASSUME NEW rows \in SUBSET Ledger!Existing,
               Ledger!Approve(rows) \/ Ledger!Reject(rows) \/ Ledger!Withdraw(rows)
        PROVE  /\ Existing \subseteq Existing'
               /\ OnePendingPerUser => OnePendingPerUser'
    <2>1. PICK s \in {"approved", "rejected", "cancelled"} :
            \A q \in Requests : status'[q] = IF q \in rows THEN s ELSE status[q]
      BY <1>3 DEF Ledger!Approve, Ledger!Reject, Ledger!Withdraw
    <2> QED
      BY <2>1
  <1>4. CASE UNCHANGED status
    BY <1>4
  <1> QED
    BY <1>1, <1>2, <1>3, <1>4 DEF LedgerStep, Ledger!Next, Ledger!ComeAndGo, Ledger!vars

-----------------------------------------------------------------------------
(* No link and no task names a row that was never inserted *)

\* What TypeOK and NoGhostRows say of one task.
Names(t) == CASE t \in ModerateTask \cup AutoTask -> t.rows
              [] t \in CancelTask -> {t.row}
              [] OTHER -> {}

LEMMA NamesByKind ==
  ASSUME NEW t \in Task
  PROVE  /\ t \in ModerateTask \cup AutoTask => Names(t) = t.rows
         /\ t \in CancelTask => Names(t) = {t.row}
         /\ t \notin ModerateTask \cup AutoTask \cup CancelTask => Names(t) = {}
  BY TaskShapes DEF Names, ModerateTask, AutoTask, CancelTask, Verdicts

LEMMA GhostsByNames ==
  ASSUME task \in [Workers -> Task]
  PROVE  NoGhostRows <=> /\ \A link \in links : link[1] \in Existing
                         /\ \A w \in Workers : Names(task[w]) \subseteq Existing
  BY NamesByKind DEF NoGhostRows

LEMMA GhostsByNamesPrimed ==
  ASSUME task' \in [Workers -> Task]
  PROVE  NoGhostRows' <=> /\ \A link \in links' : link[1] \in Existing'
                          /\ \A w \in Workers : Names(task'[w]) \subseteq Existing'
  BY NamesByKind DEF NoGhostRows

\* A step that replaces one task by one that names existing rows keeps the tasks clean.
LEMMA BecomeKeepsNames ==
  ASSUME TypeOK, TypeOK', NoGhostRows, Existing \subseteq Existing',
         NEW w \in Workers, NEW t \in Task, Become(w, t), Names(t) \subseteq Existing'
  PROVE  \A v \in Workers : Names(task'[v]) \subseteq Existing'
  <1>1. \A v \in Workers : task'[v] = IF v = w THEN t ELSE task[v]
    BY DEF Become, TypeOK
  <1> QED
    BY <1>1, GhostsByNames DEF TypeOK

\* The links of a step that inserts a row, or mails nothing, name existing rows.
LEMMA LinksKept ==
  ASSUME TypeOK, NoGhostRows, Existing \subseteq Existing',
         \/ UNCHANGED links
         \/ \E u \in Users, recipients \in SUBSET Users : InsertRow(u, recipients)
  PROVE  \A link \in links' : link[1] \in Existing'
  <1>1. CASE UNCHANGED links
    BY <1>1 DEF NoGhostRows
  <1>2. ASSUME NEW u \in Users, NEW recipients \in SUBSET Users, InsertRow(u, recipients)
        PROVE  \A link \in links' : link[1] \in Existing'
    <2>1. PICK r \in Requests :
            /\ status' = [status EXCEPT ![r] = "pending"]
            /\ links' \subseteq links \cup ({r} \X Users)
      BY <1>2, InsertRowEffect
    <2>2. r \in Existing'
      BY <2>1 DEF Existing, TypeOK
    <2>3. \A link \in {r} \X Users : link[1] = r
      OBVIOUS
    <2> QED
      BY <2>1, <2>2, <2>3 DEF NoGhostRows
  <1> QED
    BY <1>1, <1>2

\* What a continuation does to its own task.
LEMMA ContinuesBy ==
  ASSUME TypeOK, NEW w \in Workers, Continue(w)
  PROVE  /\ \E t \in Task : Become(w, t) /\ Names(t) \subseteq Existing
         /\ \/ UNCHANGED links
            \/ \E u \in Users, recipients \in SUBSET Users : InsertRow(u, recipients)
  <1>0. task[w] \in Task
    BY DEF TypeOK
  <1>1. Idle \in Task /\ Names(Idle) \subseteq Existing
    <2>1. Idle \in Task /\ Idle \notin ModerateTask \cup AutoTask \cup CancelTask
      BY DEF Task, Idle, ModerateTask, AutoTask, CancelTask, Verdicts
    <2> QED
      BY <2>1, NamesByKind
  <1>2. ASSUME NEW s \in {"insert", "refetch"}, NEW x \in JoinTask
        PROVE  JoinAt(s, x) \in Task /\ Names(JoinAt(s, x)) \subseteq Existing
    <2>1. JoinAt(s, x) \in Task /\ JoinAt(s, x) \notin ModerateTask \cup AutoTask \cup CancelTask
      BY DEF Task, JoinAt, JoinTask, ModerateTask, AutoTask, CancelTask, Verdicts
    <2> QED
      BY <2>1, NamesByKind
  <1>3. CASE Finish(w) /\ UNCHANGED links
    BY <1>1, <1>3 DEF Finish
  <1>4. CASE JoinLookup(w)
    <2>1. task[w] \in JoinTask
      BY <1>0, <1>4, TaskShapes DEF JoinLookup, Doing
    <2> QED
      BY <1>1, <1>2, <1>4, <2>1 DEF JoinLookup, Finish
  <1>5. CASE JoinConflict(w)
    <2>1. task[w] \in JoinTask
      BY <1>0, <1>5, TaskShapes DEF JoinConflict, Doing
    <2> QED
      BY <1>2, <1>5, <2>1 DEF JoinConflict
  <1>6. CASE JoinInsert(w)
    <2>1. /\ task[w].user \in Users
          /\ Approvers(task[w].owner, task[w].policy) \in SUBSET Users
      BY <1>0, <1>6, TaskShapes, ApproversTyped DEF JoinInsert, JoinTask, Doing
    <2> QED
      BY <1>1, <1>6, <2>1 DEF JoinInsert, Finish
  <1>7. CASE EditList(w)
    <2>1. task[w] \in EditTask
      BY <1>0, <1>7, TaskShapes DEF EditList, Doing
    <2> DEFINE t == [kind |-> "autoApprove", owner |-> task[w].owner,
                     patch |-> task[w].patch, rows |-> Pending]
    <2>2. t \in AutoTask
      BY <2>1, PendingExists DEF EditTask, AutoTask
    <2>3. t \in Task /\ Names(t) = Pending
      BY <2>2, NamesByKind DEF Task
    <2> QED
      BY <1>7, <2>3, PendingExists DEF EditList
  <1> QED
    BY <1>3, <1>4, <1>5, <1>6, <1>7
       DEF Continue, JoinAuto, JoinDropped, JoinRefetch, ApproveApply, RejectApply, CancelSave,
           RemoveApply, RemoveRefused, PromoteApply, DemoteApply, LeaveApply, EditSave,
           EditCommit

\* What a call puts into its task names existing rows only.
LEMMA CallNames ==
  ASSUME TypeOK, NEW w \in Workers, Call(w)
  PROVE  \E t \in Task : Become(w, t) /\ Names(t) \subseteq Existing
  <1>1. ASSUME NEW a \in Users, NEW v \in Verdicts, NEW rows \in SUBSET Existing,
               ModerateCheck(w, a, v, rows)
        PROVE  \E t \in Task : Become(w, t) /\ Names(t) \subseteq Existing
    <2> DEFINE t == [kind |-> v, rows |-> rows]
    <2>1. t \in ModerateTask
      BY DEF ModerateTask, Existing
    <2>2. t \in Task /\ Names(t) = rows
      BY <2>1, NamesByKind DEF Task
    <2> QED
      BY <1>1, <2>2 DEF ModerateCheck, Begin
  <1>2. ASSUME NEW r \in Requests, CancelCheck(w, r)
        PROVE  \E t \in Task : Become(w, t) /\ Names(t) \subseteq Existing
    <2> DEFINE t == [kind |-> "cancel", row |-> r]
    <2>1. t \in CancelTask
      BY DEF CancelTask
    <2>2. t \in Task /\ Names(t) = {r}
      BY <2>1, NamesByKind DEF Task
    <2> QED
      BY <1>2, <2>2, PendingExists DEF CancelCheck, Begin
  <1>3. ASSUME NEW t \in JoinTask \cup RoleTask \cup LeaveTask \cup EditTask
        PROVE  t \in Task /\ Names(t) \subseteq Existing
    <2>1. t \in Task /\ t \notin ModerateTask \cup AutoTask \cup CancelTask
      BY <1>3 DEF Task, JoinTask, RoleTask, LeaveTask, EditTask, ModerateTask, AutoTask,
                  CancelTask, Verdicts
    <2> QED
      BY <2>1, NamesByKind
  <1>4. ASSUME NEW u \in Users, JoinCheck(w, u)
        PROVE  \E t \in JoinTask : Become(w, t)
    BY <1>4 DEF JoinCheck, Begin, TypeOK, JoinTask
  <1>5. ASSUME NEW a \in Users, NEW t \in Users, NEW k \in {"remove", "promote", "demote"},
               RoleCheck(w, a, t, k)
        PROVE  \E x \in RoleTask : Become(w, x)
    BY <1>5 DEF RoleCheck, Begin, RoleTask
  <1>6. ASSUME NEW u \in Users, LeaveCheck(w, u)
        PROVE  \E t \in LeaveTask : Become(w, t)
    BY <1>6 DEF LeaveCheck, Begin, LeaveTask
  <1>7. ASSUME NEW a \in Users, NEW p \in Patches, EditCheck(w, a, p)
        PROVE  \E t \in EditTask : Become(w, t)
    BY <1>7, PatchesAssumption DEF EditCheck, Begin, TypeOK, EditTask
  <1> QED
    BY <1>1, <1>2, <1>3, <1>4, <1>5, <1>6, <1>7 DEF Call

LEMMA AtOnceLinks ==
  ASSUME TypeOK, AtOnce
  PROVE  /\ UNCHANGED task
         /\ \/ UNCHANGED links
            \/ \E u \in Users, recipients \in SUBSET Users : InsertRow(u, recipients)
  <1>1. Approvers(owner, policy) \in SUBSET Users
    BY ApproversTyped DEF TypeOK
  <1> QED
    BY <1>1 DEF AtOnce, DecideApprove, DecideReject, PreferencesLeave, PreferencesJoin, Sweep

-----------------------------------------------------------------------------
(* The inductive invariant *)

Inv == TypeOK /\ NoGhostRows /\ OnePendingPerUser

LEMMA InvInit == Init => Inv
  <1> SUFFICES ASSUME Init PROVE Inv
    OBVIOUS
  <1>1. TypeOK
    BY TypeInit
  <1>2. NoGhostRows
    BY DEF Init, NoGhostRows, Idle, ModerateTask, AutoTask, CancelTask, Verdicts
  <1>3. OnePendingPerUser
    BY DEF Init, OnePendingPerUser, Pending
  <1> QED
    BY <1>1, <1>2, <1>3 DEF Inv

LEMMA InvStep == Inv /\ [Next]_vars => Inv' /\ LedgerStep
  <1> SUFFICES ASSUME TypeOK, NoGhostRows, OnePendingPerUser, [Next]_vars
               PROVE  Inv' /\ LedgerStep
    BY DEF Inv
  <1>1. TypeOK'
    BY TypeStep
  <1>2. LedgerStep
    BY <1>1, NextIsLedgerStep
  <1>3. Existing \subseteq Existing' /\ OnePendingPerUser'
    BY <1>2, LedgerStepKeeps
  <1>4. NoGhostRows'
    <2> USE <1>1, <1>3
    <2>0. task' \in [Workers -> Task]
      BY DEF TypeOK
    <2>1. CASE AtOnce
      <3>1. UNCHANGED task /\ \A link \in links' : link[1] \in Existing'
        BY <2>1, AtOnceLinks, LinksKept
      <3>2. \A w \in Workers : Names(task'[w]) \subseteq Existing'
        BY <3>1, GhostsByNames DEF TypeOK
      <3> QED
        BY <2>0, <3>1, <3>2, GhostsByNamesPrimed
    <2>2. ASSUME NEW w \in Workers, Call(w)
          PROVE  NoGhostRows'
      <3>1. \A link \in links' : link[1] \in Existing'
        BY <2>2, BeginsTyped, LinksKept
      <3>2. \A v \in Workers : Names(task'[v]) \subseteq Existing'
        BY <2>2, CallNames, BecomeKeepsNames
      <3> QED
        BY <2>0, <3>1, <3>2, GhostsByNamesPrimed
    <2>3. ASSUME NEW w \in Workers, Continue(w)
          PROVE  NoGhostRows'
      <3>1. \A link \in links' : link[1] \in Existing'
        BY <2>3, ContinuesBy, LinksKept
      <3>2. \A v \in Workers : Names(task'[v]) \subseteq Existing'
        BY <2>3, ContinuesBy, BecomeKeepsNames
      <3> QED
        BY <2>0, <3>1, <3>2, GhostsByNamesPrimed
    <2>4. CASE UNCHANGED vars
      BY <2>4 DEF vars, NoGhostRows, Existing
    <2> QED
      BY <2>1, <2>2, <2>3, <2>4 DEF Next
  <1> QED
    BY <1>1, <1>2, <1>3, <1>4 DEF Inv

LEMMA InvAlways == Spec => []Inv
  BY InvInit, InvStep, PTL DEF Spec

\* However many calls race, a user has at most one request waiting.
THEOREM NobodyWaitsTwice == Spec => []OnePendingPerUser
  <1>1. Inv => OnePendingPerUser
    BY DEF Inv
  <1> QED
    BY <1>1, InvAlways, PTL

\* No decision link and no running handler names a row that was never inserted.
THEOREM NoGhosts == Spec => []NoGhostRows
  <1>1. Inv => NoGhostRows
    BY DEF Inv
  <1> QED
    BY <1>1, InvAlways, PTL

\* The endpoints, links, forms and sweeps together implement the ledger: no
\* interleaving of them approves a row without admitting its requester.
THEOREM ImplementsLedger == Spec => KeepsLedger
  <1>1. Init => Ledger!Init
    BY CreatorAssumption DEF Init, Ledger!Init, Requests, Ledger!Requests
  <1>2. Inv /\ [Next]_vars => [Ledger!Next]_(Ledger!vars)
    BY InvStep DEF LedgerStep
  <1> QED
    BY <1>1, <1>2, InvAlways, PTL DEF Spec, KeepsLedger, Ledger!Spec

-----------------------------------------------------------------------------
(* Action properties *)

DecisionStands(r) ==
  status[r] \in {"approved", "rejected"} /\ status'[r] # status[r] =>
    \/ \E link \in links : link[1] = r /\ (DecideApprove(link) \/ DecideReject(link))
    \/ \E w \in Workers : /\ Completes(w, {"cancel"})
                           /\ task[w].row = r /\ status'[r] = "cancelled"
    \/ \E w \in Workers : /\ Completes(w, {"autoApprove"})
                           /\ r \in task[w].rows /\ status'[r] = "approved"

\* Marking rows leaves a decided row alone unless it is one of them.
LEMMA MarkedOrKept ==
  ASSUME NEW rows, NEW s, MarkRows(rows, s), NEW r \in Requests
  PROVE  status'[r] = IF r \in rows THEN s ELSE status[r]
  BY DEF MarkRows

LEMMA AtOnceStands ==
  ASSUME TypeOK, AtOnce, NEW r \in Requests
  PROVE  DecisionStands(r)
  <1>1. ASSUME NEW link \in links, DecideApprove(link) \/ DecideReject(link)
        PROVE  DecisionStands(r)
    <2>1. status'[r] # status[r] => link[1] = r
      BY <1>1, MarkedOrKept DEF DecideApprove, DecideReject
    <2> QED
      BY <1>1, <2>1 DEF DecisionStands
  <1>2. ASSUME NEW u \in Users, PreferencesLeave(u) \/ PreferencesJoin(u)
        PROVE  DecisionStands(r)
    <2>1. Approvers(owner, policy) \in SUBSET Users
      BY ApproversTyped DEF TypeOK
    <2>2. CASE UNCHANGED status
      BY <2>2 DEF DecisionStands
    <2>3. ASSUME NEW q \in Requests, status[q] = "absent",
                 status' = [status EXCEPT ![q] = "pending"]
          PROVE  DecisionStands(r)
      BY <2>3 DEF DecisionStands, TypeOK
    <2> QED
      BY <1>2, <2>1, <2>2, <2>3, InsertRowEffect DEF PreferencesLeave, PreferencesJoin
  <1>3. ASSUME NEW rows \in SUBSET Requests, Sweep(rows)
        PROVE  DecisionStands(r)
    BY <1>3, MarkedOrKept DEF Sweep, Pending, DecisionStands
  <1> QED
    BY <1>1, <1>2, <1>3 DEF AtOnce

LEMMA ContinueStands ==
  ASSUME TypeOK, NEW w \in Workers, Continue(w), NEW r \in Requests
  PROVE  DecisionStands(r)
  <1>0. task[w] \in Task
    BY DEF TypeOK
  <1>1. CASE UNCHANGED status
    BY <1>1 DEF DecisionStands
  <1>2. CASE JoinInsert(w)
    <2>1. /\ task[w].user \in Users
          /\ Approvers(task[w].owner, task[w].policy) \in SUBSET Users
      BY <1>0, <1>2, TaskShapes, ApproversTyped DEF JoinInsert, JoinTask, Doing
    <2>2. PICK q \in Requests : /\ status[q] = "absent"
                                /\ status' = [status EXCEPT ![q] = "pending"]
      BY <1>2, <2>1, InsertRowEffect DEF JoinInsert
    <2> QED
      BY <2>2 DEF DecisionStands, TypeOK
  <1>3. CASE ApproveApply(w) \/ RejectApply(w)
    BY <1>3, MarkedOrKept DEF ApproveApply, RejectApply, Pending, DecisionStands
  <1>4. CASE CancelSave(w)
    <2>1. Completes(w, {"cancel"})
      BY <1>4 DEF CancelSave, Doing, Completes
    <2> QED
      BY <1>4, <2>1, MarkedOrKept DEF CancelSave, DecisionStands
  <1>5. CASE PromoteApply(w)
    BY <1>5, MarkedOrKept DEF PromoteApply, PendingOf, Pending, DecisionStands
  <1>6. CASE EditCommit(w)
    <2>1. Completes(w, {"autoApprove"})
      BY <1>6 DEF EditCommit, Doing, Completes
    <2> QED
      BY <1>6, <2>1, MarkedOrKept DEF EditCommit, DecisionStands
  <1> QED
    BY <1>1, <1>2, <1>3, <1>4, <1>5, <1>6
       DEF Continue, JoinAuto, JoinLookup, JoinConflict, JoinDropped, JoinRefetch, RemoveApply,
           RemoveRefused, DemoteApply, LeaveApply, EditSave, EditList

LEMMA MembershipStands ==
  ASSUME TypeOK, Next, NEW r \in Requests
  PROVE  DecisionStands(r)
  <1>1. ASSUME NEW w \in Workers, Call(w)
        PROVE  DecisionStands(r)
    BY <1>1, BeginsTyped DEF DecisionStands
  <1> QED
    BY <1>1, AtOnceStands, ContinueStands DEF Next

\* A moderator's verdict in the application, a promotion and the sweep never
\* overturn a decision that was taken while they were on their way.
THEOREM DecisionsAlwaysStand == Spec => DecisionsStand
  <1>1. TypeOK /\ [Next]_vars => [\A r \in Requests : DecisionStands(r)]_vars
    BY MembershipStands
  <1> QED
    BY <1>1, TypeCorrect, PTL DEF Spec, DecisionsStand, DecisionStands

\* Roles, leaving, PATCH and moderation keep managers among the members.
LEMMA ContinueKeepsManagers ==
  ASSUME TypeOK, NEW w \in Workers, Continue(w), ManagersAreMembers
  PROVE  ManagersAreMembers'
  <1> DEFINE t == task[w]
  <1>0. t \in Task
    BY DEF TypeOK
  <1> USE DEF ManagersAreMembers, domainVars
  <1>1. CASE UNCHANGED managers /\ members \subseteq members'
    BY <1>1
  <1>2. CASE RemoveApply(w) \/ DemoteApply(w) \/ LeaveApply(w)
    BY <1>2 DEF RemoveApply, DemoteApply, LeaveApply
  <1>3. CASE PromoteApply(w)
    BY <1>3 DEF PromoteApply
  <1>4. CASE EditSave(w) \/ EditCommit(w)
    <2>1. t \in EditTask \cup AutoTask
      BY <1>0, <1>4, TaskShapes DEF EditSave, EditCommit, Doing
    <2>2. t.patch.managers \in (SUBSET Users) \cup {{Keep}}
      BY <2>1 DEF EditTask, AutoTask, PatchType
    <2>3. managers' = Team(t.patch) /\ members \cup NewManagers(t.patch) \subseteq members'
      BY <1>4 DEF EditSave, EditCommit
    <2> QED
      BY <2>2, <2>3, KeepAssumption DEF Team, NewManagers
  <1> QED
    BY <1>1, <1>2, <1>3, <1>4
       DEF Continue, JoinAuto, JoinLookup, JoinInsert, JoinConflict, JoinDropped, JoinRefetch,
           ApproveApply, RejectApply, CancelSave, RemoveRefused, EditList

LEMMA MembershipDoors ==
  ASSUME TypeOK, Next, ManagersAreMembers, ~ManagersAreMembers'
  PROVE  \/ "email" \in Endpoints /\ \E link \in links : DecideReject(link)
         \/ "preferences" \in Endpoints /\ \E u \in Users : PreferencesLeave(u)
  <1>1. ASSUME NEW w \in Workers, Call(w)
        PROVE  FALSE
    BY <1>1, BeginsTyped DEF ManagersAreMembers, domainVars
  <1>2. ASSUME NEW w \in Workers, Continue(w)
        PROVE  FALSE
    BY <1>2, ContinueKeepsManagers
  <1>3. AtOnce
    BY <1>1, <1>2 DEF Next
  <1> QED
    BY <1>3 DEF AtOnce, DecideApprove, PreferencesJoin, Sweep, ManagersAreMembers, domainVars

\* Only a rejection link and the profile form can leave a manager outside the domain.
THEOREM TwoDoorsOnly == Spec => OnlyTwoDoorsOrphanManagers
  <1> DEFINE Doors == ManagersAreMembers /\ ~ManagersAreMembers' =>
                        \/ \E link \in links : DecideReject(link)
                        \/ \E u \in Users : PreferencesLeave(u)
  <1>1. TypeOK /\ [Next]_vars => [Doors]_vars
    BY MembershipDoors
  <1> QED
    BY <1>1, TypeCorrect, PTL DEF Spec, OnlyTwoDoorsOrphanManagers

Earned(u) ==
  \/ policy = "auto"
  \/ \E w \in Workers : /\ Completes(w, {"join"})
                         /\ task[w].user = u /\ task[w].policy = "auto"
  \/ \E r \in PendingOf(u) : status'[r] = "approved"
  \/ \E link \in links : link[1][1] = u /\ DecideApprove(link)
  \/ \E w \in Workers : Completes(w, {"autoApprove"}) /\ u \in Requesters(task[w].rows)
  \/ \E w \in Workers : Completes(w, {"promote"}) /\ task[w].target = u
  \/ \E w \in Workers : /\ Completes(w, {"edit", "autoApprove"})
                         /\ \/ u = task[w].patch.owner
                            \/ u \in task[w].patch.managers

LEMMA ContinueEarns ==
  ASSUME TypeOK, NEW w \in Workers, Continue(w), NEW u \in members' \ members
  PROVE  Earned(u)
  <1> DEFINE t == task[w]
  <1> USE DEF Doing, Completes
  <1>1. CASE members' \subseteq members
    BY <1>1
  <1>2. CASE JoinAuto(w)
    BY <1>2 DEF JoinAuto, Earned
  <1>3. CASE ApproveApply(w)
    <2>1. PICK r \in t.rows \cap Pending : r[1] = u
      BY <1>3 DEF ApproveApply, Requesters
    <2>2. r \in PendingOf(u) /\ r \in Requests
      BY <2>1 DEF PendingOf, Pending
    <2>3. status'[r] = "approved"
      BY <1>3, <2>1, <2>2, MarkedOrKept DEF ApproveApply
    <2> QED
      BY <2>2, <2>3 DEF Earned
  <1>4. CASE PromoteApply(w)
    BY <1>4 DEF PromoteApply, Earned
  <1>5. CASE EditSave(w)
    BY <1>5 DEF EditSave, NewOwners, NewManagers, Earned
  <1>6. CASE EditCommit(w)
    <2>1. CASE u \in Requesters(t.rows)
      BY <1>6, <2>1 DEF EditCommit, Earned
    <2>2. CASE u \in NewOwners(t.patch) \cup NewManagers(t.patch)
      BY <1>6, <2>2 DEF EditCommit, NewOwners, NewManagers, Earned
    <2> QED
      BY <1>6, <2>1, <2>2 DEF EditCommit
  <1> QED
    BY <1>1, <1>2, <1>3, <1>4, <1>5, <1>6
       DEF Continue, JoinLookup, JoinInsert, JoinConflict, JoinDropped, JoinRefetch,
           RejectApply, CancelSave, RemoveApply, RemoveRefused, DemoteApply, LeaveApply,
           EditList

LEMMA AtOnceEarns ==
  ASSUME AtOnce, NEW u \in members' \ members
  PROVE  Earned(u)
  <1>1. ASSUME NEW link \in links, DecideApprove(link)
        PROVE  Earned(u)
    <2>1. u = link[1][1]
      BY <1>1 DEF DecideApprove, Requesters
    <2> QED
      BY <1>1, <2>1 DEF Earned
  <1>2. ASSUME NEW v \in Users, PreferencesJoin(v)
        PROVE  Earned(u)
    BY <1>2 DEF PreferencesJoin, Earned
  <1> QED
    BY <1>1, <1>2 DEF AtOnce, DecideReject, PreferencesLeave, Sweep

LEMMA MembershipEarns ==
  ASSUME TypeOK, Next, NEW u \in members' \ members
  PROVE  Earned(u)
  <1>1. ASSUME NEW w \in Workers, Call(w)
        PROVE  Earned(u)
    BY <1>1, BeginsTyped
  <1> QED
    BY <1>1, AtOnceEarns, ContinueEarns DEF Next

\* Nobody enters the domain unless a policy, a verdict or a named grant let them in.
THEOREM EntryAlwaysEarned == Spec => EntryIsEarned
  <1>1. TypeOK /\ [Next]_vars => [\A u \in members' \ members : Earned(u)]_vars
    BY MembershipEarns
  <1> QED
    BY <1>1, TypeCorrect, PTL DEF Spec, EntryIsEarned, Earned

-----------------------------------------------------------------------------
(* Where managers and owner cannot get lost *)

\* Where no client uses the decision links and the profile form, a manager is a member
\* at all times: roles, leaving, PATCH and moderation keep
\* Domain.ensure_managers_are_members however their unlocked checks interleave.
THEOREM ManagersStayMembers ==
  ASSUME "email" \notin Endpoints, "preferences" \notin Endpoints
  PROVE  Spec => []ManagersAreMembers
  <1>1. Init => ManagersAreMembers
    BY DEF Init, ManagersAreMembers
  <1>2. TypeOK /\ ManagersAreMembers /\ [Next]_vars => ManagersAreMembers'
    BY MembershipDoors DEF vars, ManagersAreMembers
  <1> QED
    BY <1>1, <1>2, TypeCorrect, PTL DEF Spec

\* A row enters the table by an insert of the join endpoint or of the profile form.
LEMMA NewRowsAreJoins ==
  ASSUME TypeOK, NoGhostRows, Next, NEW r \in Requests,
         status[r] = "absent", status'[r] # "absent"
  PROVE  \/ \E w \in Workers : Doing(w, "insert") /\ task[w].user = r[1]
         \/ "preferences" \in Endpoints
  <1>1. ASSUME NEW rows \in SUBSET Existing, NEW s, MarkRows(rows, s)
        PROVE  FALSE
    BY <1>1, MarkedOrKept DEF Existing
  <1>2. ASSUME NEW w \in Workers, Continue(w)
        PROVE  Doing(w, "insert") /\ task[w].user = r[1]
    <2>0. task[w] \in Task
      BY DEF TypeOK
    <2>1. CASE JoinInsert(w)
      <3>1. /\ task[w].user \in Users
            /\ Approvers(task[w].owner, task[w].policy) \in SUBSET Users
        BY <2>0, <2>1, TaskShapes, ApproversTyped DEF JoinInsert, JoinTask, Doing
      <3>2. PICK q \in Requests : /\ q[1] = task[w].user
                                  /\ status' = [status EXCEPT ![q] = "pending"]
        BY <2>1, <3>1, InsertRowEffect DEF JoinInsert
      <3> QED
        BY <2>1, <3>2 DEF JoinInsert, TypeOK
    <2>2. CASE ApproveApply(w) \/ RejectApply(w)
      <3>1. task[w].rows \cap Pending \in SUBSET Existing
        BY PendingExists
      <3> QED
        BY <1>1, <2>2, <3>1 DEF ApproveApply, RejectApply
    <2>3. CASE PromoteApply(w)
      <3>1. PendingOf(task[w].target) \in SUBSET Existing
        BY PendingExists DEF PendingOf
      <3> QED
        BY <1>1, <2>3, <3>1 DEF PromoteApply
    <2>4. CASE CancelSave(w)
      <3>1. {task[w].row} \in SUBSET Existing
        BY <2>4, TaskRowsExist DEF CancelSave
      <3> QED
        BY <1>1, <2>4, <3>1 DEF CancelSave
    <2>5. CASE EditCommit(w)
      BY <1>1, <2>5, TaskRowsExist DEF EditCommit
    <2> QED
      BY <1>2, <2>1, <2>2, <2>3, <2>4, <2>5
         DEF Continue, JoinAuto, JoinLookup, JoinConflict, JoinDropped, JoinRefetch,
             RemoveApply, RemoveRefused, DemoteApply, LeaveApply, EditSave, EditList
  <1>3. CASE AtOnce
    <2>1. ASSUME NEW link \in links, DecideApprove(link) \/ DecideReject(link)
          PROVE  FALSE
      <3>1. {link[1]} \in SUBSET Existing
        BY DEF NoGhostRows
      <3> QED
        BY <1>1, <2>1, <3>1 DEF DecideApprove, DecideReject
    <2>2. ASSUME NEW rows \in SUBSET Requests, Sweep(rows)
          PROVE  FALSE
      BY <1>1, <2>2, PendingExists DEF Sweep
    <2> QED
      BY <1>3, <2>1, <2>2 DEF AtOnce
  <1>4. ASSUME NEW w \in Workers, Call(w)
        PROVE  FALSE
    BY <1>4, BeginsTyped
  <1> QED
    BY <1>2, <1>3, <1>4 DEF Next

\* A task that cannot take Creator out of the domain, nor move the domain.
HarmlessTask(t) ==
  /\ t.kind \in {"join", "insert", "refetch", "leave"} => t.user # Creator
  /\ t.kind = "remove" => t.target # Creator
  /\ t.kind \in {"edit", "autoApprove"} => t.owner = Creator /\ t.patch \in Patches

CreatorStays == owner = Creator /\ Creator \in members

CreatorInv ==
  /\ CreatorStays
  /\ \A r \in Requests : r[1] = Creator => status[r] = "absent"
  /\ \A w \in Workers : HarmlessTask(task[w])

LEMMA CallIsHarmless ==
  ASSUME TypeOK, CreatorInv, NEW w \in Workers, Call(w)
  PROVE  \E t \in Task : Become(w, t) /\ HarmlessTask(t)
  <1>0. owner = Creator /\ Creator \in members
    BY DEF CreatorInv, CreatorStays
  <1>1. PICK t \in Task : Begin(w, t)
    BY BeginsTyped
  <1>2. Become(w, t) /\ task'[w] = t
    BY <1>1 DEF Begin, Become, TypeOK
  <1>3. \A x : Begin(w, x) => task'[w] = x
    BY DEF Begin, Become, TypeOK
  <1>4. ASSUME NEW u \in Users, JoinCheck(w, u) \/ LeaveCheck(w, u)
        PROVE  HarmlessTask(task'[w])
    <2>1. u # Creator
      BY <1>0, <1>4 DEF JoinCheck, LeaveCheck
    <2>2. \/ task'[w] = [kind |-> "join", user |-> u, owner |-> owner, policy |-> policy]
          \/ task'[w] = [kind |-> "leave", user |-> u]
      BY <1>3, <1>4 DEF JoinCheck, LeaveCheck
    <2> QED
      BY <2>1, <2>2 DEF HarmlessTask
  <1>5. ASSUME NEW a \in Users, NEW v \in Verdicts, NEW rows \in SUBSET Existing,
               ModerateCheck(w, a, v, rows)
        PROVE  HarmlessTask(task'[w])
    <2>1. task'[w] = [kind |-> v, rows |-> rows]
      BY <1>3, <1>5 DEF ModerateCheck
    <2> QED
      BY <2>1 DEF HarmlessTask, Verdicts
  <1>6. ASSUME NEW r \in Requests, CancelCheck(w, r)
        PROVE  HarmlessTask(task'[w])
    <2>1. task'[w] = [kind |-> "cancel", row |-> r]
      BY <1>3, <1>6 DEF CancelCheck
    <2> QED
      BY <2>1 DEF HarmlessTask
  <1>7. ASSUME NEW a \in Users, NEW u \in Users, NEW k \in {"remove", "promote", "demote"},
               RoleCheck(w, a, u, k)
        PROVE  HarmlessTask(task'[w])
    <2>1. task'[w] = [kind |-> k, actor |-> a, target |-> u]
      BY <1>3, <1>7 DEF RoleCheck
    <2>2. k = "remove" => u # Creator
      BY <1>0, <1>7 DEF RoleCheck
    <2> QED
      BY <2>1, <2>2 DEF HarmlessTask
  <1>8. ASSUME NEW a \in Users, NEW p \in Patches, EditCheck(w, a, p)
        PROVE  HarmlessTask(task'[w])
    <2>1. task'[w] = [kind |-> "edit", owner |-> Creator, policy |-> policy, patch |-> p]
      BY <1>0, <1>3, <1>8 DEF EditCheck
    <2> QED
      BY <2>1 DEF HarmlessTask
  <1> QED
    BY <1>2, <1>4, <1>5, <1>6, <1>7, <1>8 DEF Call

LEMMA ContinueIsHarmless ==
  ASSUME TypeOK, CreatorInv, NEW w \in Workers, Continue(w)
  PROVE  \E t \in Task : Become(w, t) /\ HarmlessTask(t)
  <1>0. HarmlessTask(task[w]) /\ task[w] \in Task
    BY DEF CreatorInv, TypeOK
  <1>1. PICK t \in Task : Become(w, t)
    BY ContinuesBy
  <1>2. task'[w] = t
    BY <1>1 DEF Become, TypeOK
  <1>3. HarmlessTask(Idle)
    BY DEF HarmlessTask, Idle
  <1>4. Finish(w) => task'[w] = Idle
    BY DEF Finish, Become, TypeOK
  <1>5. CASE JoinLookup(w) \/ JoinConflict(w)
    <2>1. task[w].user # Creator
      BY <1>0, <1>5 DEF JoinLookup, JoinConflict, Doing, HarmlessTask
    <2>2. \/ Finish(w)
          \/ Become(w, JoinAt("insert", task[w]))
          \/ Become(w, JoinAt("refetch", task[w]))
      BY <1>5 DEF JoinLookup, JoinConflict
    <2>3. ASSUME NEW s \in {"insert", "refetch"}, Become(w, JoinAt(s, task[w]))
          PROVE  HarmlessTask(t)
      <3>1. t = JoinAt(s, task[w])
        BY <1>2, <2>3 DEF Become, TypeOK
      <3> QED
        BY <2>1, <3>1 DEF JoinAt, HarmlessTask
    <2> QED
      BY <1>1, <1>2, <1>3, <1>4, <2>2, <2>3
  <1>6. CASE EditList(w)
    <2>1. t = [kind |-> "autoApprove", owner |-> task[w].owner, patch |-> task[w].patch,
               rows |-> Pending]
      BY <1>2, <1>6 DEF EditList, Become, TypeOK
    <2>2. task[w].owner = Creator /\ task[w].patch \in Patches
      BY <1>0, <1>6 DEF EditList, Doing, HarmlessTask
    <2>3. HarmlessTask(t)
      BY <2>1, <2>2 DEF HarmlessTask
    <2> QED
      BY <1>1, <2>3
  <1> QED
    BY <1>1, <1>2, <1>3, <1>4, <1>5, <1>6
       DEF Continue, JoinAuto, JoinInsert, JoinDropped, JoinRefetch, ApproveApply, RejectApply,
           CancelSave, RemoveApply, RemoveRefused, PromoteApply, DemoteApply, LeaveApply,
           EditSave, EditCommit

LEMMA CreatorStep ==
  ASSUME Inv, CreatorInv, [Next]_vars,
         "preferences" \notin Endpoints, \A p \in Patches : p.owner \in {Keep, Creator}
  PROVE  CreatorInv'
  <1> USE DEF Inv
  <1>1. \A w \in Workers : HarmlessTask(task'[w])
    <2>1. ASSUME NEW w \in Workers, NEW t \in Task, Become(w, t), HarmlessTask(t)
          PROVE  \A v \in Workers : HarmlessTask(task'[v])
      <3>1. \A v \in Workers : task'[v] = IF v = w THEN t ELSE task[v]
        BY <2>1 DEF Become, TypeOK
      <3> QED
        BY <2>1, <3>1 DEF CreatorInv
    <2>2. CASE UNCHANGED task
      BY <2>2 DEF CreatorInv
    <2> QED
      BY <2>1, <2>2, CallIsHarmless, ContinueIsHarmless, AtOnceLinks DEF Next, vars
  <1>2. \A r \in Requests : r[1] = Creator => status'[r] = "absent"
    <2> SUFFICES ASSUME NEW r \in Requests, r[1] = Creator, status'[r] # "absent"
                 PROVE  FALSE
      OBVIOUS
    <2>1. status[r] = "absent" /\ Next
      BY DEF CreatorInv, vars
    <2>2. PICK w \in Workers : Doing(w, "insert") /\ task[w].user = Creator
      BY <2>1, NewRowsAreJoins
    <2> QED
      BY <2>2 DEF CreatorInv, HarmlessTask, Doing
  <1>3. CreatorStays'
    <2> USE DEF CreatorStays, domainVars
    <2>0. owner = Creator /\ Creator \in members
      BY DEF CreatorInv
    <2>1. CASE UNCHANGED <<owner, members>>
      BY <2>0, <2>1
    <2>2. ASSUME NEW w \in Workers, Continue(w)
          PROVE  CreatorStays'
      <3>0. HarmlessTask(task[w])
        BY DEF CreatorInv
      <3>1. CASE RemoveApply(w) \/ LeaveApply(w)
        BY <2>0, <3>0, <3>1 DEF RemoveApply, LeaveApply, Doing, HarmlessTask
      <3>2. CASE EditSave(w) \/ EditCommit(w)
        <4>1. task[w].owner = Creator /\ task[w].patch.owner \in {Keep, Creator}
          BY <3>0, <3>2 DEF EditSave, EditCommit, Doing, HarmlessTask
        <4>2. owner' = Written(task[w].patch.owner, task[w].owner) /\ members \subseteq members'
          BY <3>2 DEF EditSave, EditCommit
        <4> QED
          BY <2>0, <4>1, <4>2 DEF Written
      <3> QED
        BY <2>0, <2>2, <3>1, <3>2
           DEF Continue, JoinAuto, JoinLookup, JoinInsert, JoinConflict, JoinDropped,
               JoinRefetch, ApproveApply, RejectApply, CancelSave, RemoveRefused, PromoteApply,
               DemoteApply, EditList
    <2>3. ASSUME NEW link \in links, DecideReject(link)
          PROVE  CreatorStays'
      <3>1. link[1] \in Requests /\ status[link[1]] # "absent"
        BY DEF NoGhostRows, Existing
      <3>2. Creator \notin Requesters({link[1]})
        BY <3>1 DEF CreatorInv, Requesters
      <3> QED
        BY <2>0, <2>3, <3>2 DEF DecideReject
    <2>4. CASE AtOnce
      BY <2>0, <2>3, <2>4 DEF AtOnce, DecideApprove, Sweep
    <2>5. ASSUME NEW w \in Workers, Call(w)
          PROVE  UNCHANGED <<owner, members>>
      BY <2>5, BeginsTyped
    <2> QED
      BY <2>1, <2>2, <2>4, <2>5 DEF Next, vars
  <1> QED
    BY <1>1, <1>2, <1>3 DEF CreatorInv

\* The checks of the owner that roles, leaving and PATCH make before they write go wrong
\* only when the domain changes hands: where no PATCH names another owner (and the
\* profile form is not used) the owner stays owner and member, however stale the
\* Domain instances that the handlers hold.
THEOREM FixedOwnerStaysInside ==
  ASSUME "preferences" \notin Endpoints, \A p \in Patches : p.owner \in {Keep, Creator}
  PROVE  Spec => []CreatorStays
  <1>1. Init => CreatorInv
    <2> SUFFICES ASSUME Init PROVE CreatorInv
      OBVIOUS
    <2>1. HarmlessTask(Idle)
      BY DEF HarmlessTask, Idle
    <2> QED
      BY <2>1 DEF Init, CreatorInv, CreatorStays
  <1>2. Inv /\ CreatorInv /\ [Next]_vars => CreatorInv'
    BY CreatorStep
  <1>3. CreatorInv => CreatorStays
    BY DEF CreatorInv
  <1> QED
    BY <1>1, <1>2, <1>3, InvAlways, PTL DEF Spec
===============================================================================
