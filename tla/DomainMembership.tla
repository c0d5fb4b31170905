--------------------------- MODULE DomainMembership ---------------------------
(***************************************************************************)
(* Membership of one active, public domain: join requests and their        *)
(* moderation in the application and by signed e-mail links, roles, leaving*)
(* the PATCH of the domain, the profile form and the nightly sweep.        *)
(*                                                                         *)
(* A database transaction is one step, taken when it commits.  What a      *)
(* handler reads before its transaction (the Domain instance, permissions, *)
(* an unlocked row) is a step of its own: the value read stays in the      *)
(* handler's task while other handlers run.  The two places where a        *)
(* transaction reads rows it does not lock and writes them in a later      *)
(* statement (the insert of a request, auto-approval) are split as well.   *)
(***************************************************************************)
EXTENDS Naturals, FiniteSets

CONSTANTS
  Users,        \* accounts with a confirmed address
  Superusers,   \* those with is_superuser
  Creator,      \* who created the domain
  MaxRequests,  \* bound: join requests one user may make
  Workers,      \* bound: requests the server handles at once
  Endpoints,    \* what the clients of the instance call
  Patches,      \* payloads they send to PATCH /domain/{id}/
  Keep          \* a field a payload leaves out ({Keep} for the set of managers)

Policies == {"auto", "owner", "owner_managers"}
Statuses == {"absent", "pending", "approved", "rejected", "cancelled"}
Verdicts == {"approve", "reject"}

PatchType == [owner    : Users \cup {Keep},
              policy   : Policies \cup {Keep},
              managers : (SUBSET Users) \cup {{Keep}}]

ASSUME SuperusersAssumption == Superusers \subseteq Users
ASSUME CreatorAssumption == Creator \in Users
ASSUME MaxRequestsAssumption == MaxRequests \in Nat
ASSUME PatchesAssumption == Patches \subseteq PatchType
ASSUME KeepAssumption == Keep \notin Users /\ Keep \notin Policies

Requests == Users \X (1..MaxRequests)   \* <<u, n>>: the n-th request of u

VARIABLES
  owner, managers, members, policy,   \* the Domain row and its two M2M tables
  status,                             \* DomainJoinRequest.status, "absent" before the insert
  links,                              \* <<row, recipient>> of the decision links mailed out
  task                                \* what each handler has read and not yet written

domainVars == <<owner, managers, policy>>
vars == <<owner, managers, members, policy, status, links, task>>

-----------------------------------------------------------------------------
(* What a handler remembers between two of its steps. *)

Idle == [kind |-> "idle"]

JoinTask == [kind : {"join", "insert", "refetch"},
             user : Users, owner : Users, policy : Policies]
JoinAt(stage, t) ==
  [kind |-> stage, user |-> t.user, owner |-> t.owner, policy |-> t.policy]
ModerateTask == [kind : Verdicts, rows : SUBSET Requests]
CancelTask == [kind : {"cancel"}, row : Requests]
RoleTask == [kind : {"remove", "promote", "demote"}, actor : Users, target : Users]
LeaveTask == [kind : {"leave"}, user : Users]
EditTask == [kind : {"edit"}, owner : Users, policy : Policies, patch : PatchType]
AutoTask == [kind : {"autoApprove"}, owner : Users, patch : PatchType,
             rows : SUBSET Requests]

Task == {Idle} \cup JoinTask \cup ModerateTask \cup CancelTask \cup RoleTask
        \cup LeaveTask \cup EditTask \cup AutoTask

Doing(w, kind) == task[w].kind = kind
Become(w, t) == task' = [task EXCEPT ![w] = t]
Begin(w, t) == Doing(w, "idle") /\ Become(w, t)
Finish(w) == Become(w, Idle)

-----------------------------------------------------------------------------
Pending == {r \in Requests : status[r] = "pending"}
Existing == {r \in Requests : status[r] # "absent"}
PendingOf(u) == {r \in Pending : r[1] = u}
Requesters(rows) == {r[1] : r \in rows}

\* CanApproveJoinRequest and IsDomainOwnerOrManager
CanApprove(u) == \/ u \in Superusers \cup {owner}
                 \/ policy = "owner_managers" /\ u \in managers
IsOwnerOrManager(u) == u \in Superusers \cup {owner} \cup managers

\* users_who_can_approve, on the Domain instance the caller holds
Approvers(o, p) == {o} \cup (IF p = "owner_managers" THEN managers ELSE {})

MarkRows(rows, s) ==
  status' = [r \in Requests |-> IF r \in rows THEN s ELSE status[r]]

\* The row u's next insert creates, pending, with its links mailed to the approvers.
InsertRow(u, recipients) ==
  \E n \in 1..MaxRequests :
    /\ status[<<u, n>>] = "absent"
    /\ \A m \in 1..(n - 1) : status[<<u, m>>] # "absent"
    /\ MarkRows({<<u, n>>}, "pending")
    /\ links' = links \cup ({<<u, n>>} \X recipients)

-----------------------------------------------------------------------------
(* POST join-request/ *)

JoinCheck(w, u) ==
  /\ u # owner
  /\ u \notin members
  /\ Begin(w, [kind |-> "join", user |-> u, owner |-> owner, policy |-> policy])
  /\ UNCHANGED <<domainVars, members, status, links>>

\* Faulty form: every policy but owner validation is taken for automatic.
JoinAutoLoose(w) ==
  /\ Doing(w, "join")
  /\ task[w].policy # "owner"
  /\ members' = members \cup {task[w].user}
  /\ Finish(w)
  /\ UNCHANGED <<domainVars, status, links>>

JoinAuto(w) ==
  /\ Doing(w, "join")
  /\ task[w].policy = "auto"
  /\ members' = members \cup {task[w].user}
  /\ Finish(w)
  /\ UNCHANGED <<domainVars, status, links>>

\* Faulty form: the moderators are mailed before the row exists.
JoinLookupMailing(w) ==
  /\ Doing(w, "join")
  /\ task[w].policy # "auto"
  /\ PendingOf(task[w].user) = {}
  /\ Become(w, JoinAt("insert", task[w]))
  /\ links' = links \cup ({<<task[w].user, 1>>} \X Approvers(task[w].owner, task[w].policy))
  /\ UNCHANGED <<domainVars, members, status>>

\* The SELECT ... FOR UPDATE: it locks a pending row but not the absence of one.
JoinLookup(w) ==
  /\ Doing(w, "join")
  /\ task[w].policy # "auto"
  /\ IF PendingOf(task[w].user) = {}
       THEN Become(w, JoinAt("insert", task[w]))
       ELSE Finish(w)
  /\ UNCHANGED <<domainVars, members, status, links>>

\* Faulty form: the partial unique constraint is missing.
JoinInsertUnconstrained(w) ==
  /\ Doing(w, "insert")
  /\ InsertRow(task[w].user, Approvers(task[w].owner, task[w].policy))
  /\ Finish(w)
  /\ UNCHANGED <<domainVars, members>>

JoinInsert(w) ==
  /\ Doing(w, "insert")
  /\ PendingOf(task[w].user) = {}
  /\ InsertRow(task[w].user, Approvers(task[w].owner, task[w].policy))
  /\ Finish(w)
  /\ UNCHANGED <<domainVars, members>>

\* uniq_pending_join_request_per_domain_user refuses the insert.
JoinConflict(w) ==
  /\ Doing(w, "insert")
  /\ PendingOf(task[w].user) # {}
  /\ Become(w, JoinAt("refetch", task[w]))
  /\ UNCHANGED <<domainVars, members, status, links>>

\* No row is left below the bound MaxRequests: the instance drops the call.
JoinDropped(w) ==
  /\ Doing(w, "insert")
  /\ PendingOf(task[w].user) = {}
  /\ \A n \in 1..MaxRequests : status[<<task[w].user, n>>] # "absent"
  /\ Finish(w)
  /\ UNCHANGED <<domainVars, members, status, links>>

JoinRefetch(w) ==
  /\ Doing(w, "refetch")
  /\ Finish(w)
  /\ UNCHANGED <<domainVars, members, status, links>>

-----------------------------------------------------------------------------
(* POST join-request/{id}/approve|reject/ and bulk-approve|reject/ *)

ModerateCheck(w, a, verdict, rows) ==
  /\ CanApprove(a)
  /\ Begin(w, [kind |-> verdict, rows |-> rows])
  /\ UNCHANGED <<domainVars, members, status, links>>

\* Faulty form: the status is not read again under the lock.
ApproveApplyUnchecked(w) ==
  /\ Doing(w, "approve")
  /\ MarkRows(task[w].rows, "approved")
  /\ members' = members \cup Requesters(task[w].rows)
  /\ Finish(w)
  /\ UNCHANGED <<domainVars, links>>

ApproveApply(w) ==
  /\ Doing(w, "approve")
  /\ LET rows == task[w].rows \cap Pending
     IN  /\ MarkRows(rows, "approved")
         /\ members' = members \cup Requesters(rows)
  /\ Finish(w)
  /\ UNCHANGED <<domainVars, links>>

\* Faulty form: a status that is not one of STATUS_CHOICES, which update_fields lets through.
RejectApplyMisspelt(w) ==
  /\ Doing(w, "reject")
  /\ MarkRows(task[w].rows \cap Pending, "declined")
  /\ Finish(w)
  /\ UNCHANGED <<domainVars, members, links>>

RejectApply(w) ==
  /\ Doing(w, "reject")
  /\ MarkRows(task[w].rows \cap Pending, "rejected")
  /\ Finish(w)
  /\ UNCHANGED <<domainVars, members, links>>

(* POST join-request/{id}/cancel/, by the requester, without a lock *)

CancelCheck(w, r) ==
  /\ r \in Pending
  /\ Begin(w, [kind |-> "cancel", row |-> r])
  /\ UNCHANGED <<domainVars, members, status, links>>

CancelSave(w) ==
  /\ Doing(w, "cancel")
  /\ MarkRows({task[w].row}, "cancelled")
  /\ Finish(w)
  /\ UNCHANGED <<domainVars, members, links>>

(* POST of a decision link: the last decision wins, whatever the status. *)

DecideApprove(link) ==
  /\ CanApprove(link[2])
  /\ MarkRows({link[1]}, "approved")
  /\ members' = members \cup Requesters({link[1]})
  /\ UNCHANGED <<domainVars, links, task>>

\* Faulty form: the overturned approval leaves the requester inside.
DecideRejectKeeping(link) ==
  /\ CanApprove(link[2])
  /\ MarkRows({link[1]}, "rejected")
  /\ UNCHANGED <<domainVars, members, links, task>>

DecideReject(link) ==
  /\ CanApprove(link[2])
  /\ MarkRows({link[1]}, "rejected")
  /\ members' = IF status[link[1]] = "approved"
                  THEN members \ Requesters({link[1]})
                  ELSE members
  /\ UNCHANGED <<domainVars, links, task>>

-----------------------------------------------------------------------------
(* POST member-role/ : the owner and the target's membership are read first. *)

RoleCheck(w, a, t, kind) ==
  /\ IsOwnerOrManager(a)
  /\ t \in members \cup {owner}
  /\ IF kind = "remove"
       THEN t # owner /\ (a \in Superusers \/ t # a)
       ELSE a \in Superusers \cup {owner}
  /\ Begin(w, [kind |-> kind, actor |-> a, target |-> t])
  /\ UNCHANGED <<domainVars, members, status, links>>

RemoveApply(w) ==
  /\ Doing(w, "remove")
  /\ \/ task[w].actor \in Superusers
     \/ task[w].target \notin managers
  /\ managers' = managers \ {task[w].target}
  /\ members' = members \ {task[w].target}
  /\ Finish(w)
  /\ UNCHANGED <<owner, policy, status, links>>

RemoveRefused(w) ==
  /\ Doing(w, "remove")
  /\ task[w].actor \notin Superusers
  /\ task[w].target \in managers
  /\ Finish(w)
  /\ UNCHANGED <<domainVars, members, status, links>>

PromoteApply(w) ==
  /\ Doing(w, "promote")
  /\ managers' = managers \cup {task[w].target}
  /\ members' = members \cup {task[w].target}
  /\ MarkRows(PendingOf(task[w].target), "approved")
  /\ Finish(w)
  /\ UNCHANGED <<owner, policy, links>>

DemoteApply(w) ==
  /\ Doing(w, "demote")
  /\ managers' = managers \ {task[w].target}
  /\ Finish(w)
  /\ UNCHANGED <<owner, policy, members, status, links>>

(* POST leave/ *)

LeaveCheck(w, u) ==
  /\ u # owner
  /\ u \in members
  /\ Begin(w, [kind |-> "leave", user |-> u])
  /\ UNCHANGED <<domainVars, members, status, links>>

\* Faulty form: the role survives the departure.
LeaveApplyKeepingRole(w) ==
  /\ Doing(w, "leave")
  /\ members' = members \ {task[w].user}
  /\ Finish(w)
  /\ UNCHANGED <<domainVars, status, links>>

LeaveApply(w) ==
  /\ Doing(w, "leave")
  /\ managers' = managers \ {task[w].user}
  /\ members' = members \ {task[w].user}
  /\ Finish(w)
  /\ UNCHANGED <<owner, policy, status, links>>

-----------------------------------------------------------------------------
(* PATCH /domain/{id}/ : get_object and validation, then a save of the whole row. *)

EditCheck(w, a, patch) ==
  /\ IsOwnerOrManager(a)
  /\ \/ a \in Superusers \cup {owner}
     \/ patch.policy = Keep /\ patch.owner \in {Keep, owner}
  /\ Begin(w, [kind |-> "edit", owner |-> owner, policy |-> policy, patch |-> patch])
  /\ UNCHANGED <<domainVars, members, status, links>>

Written(field, read) == IF field = Keep THEN read ELSE field
NewOwners(patch) == {patch.owner} \ {Keep}
NewManagers(patch) == patch.managers \ (managers \cup {Keep})
Team(patch) == IF patch.managers = {Keep} THEN managers ELSE patch.managers

OpensUp(t) == t.policy # "auto" /\ Written(t.patch.policy, t.policy) = "auto"

EditSave(w) ==
  LET t == task[w]
  IN  /\ Doing(w, "edit")
      /\ ~OpensUp(t)
      /\ owner' = Written(t.patch.owner, t.owner)
      /\ policy' = Written(t.patch.policy, t.policy)
      /\ managers' = Team(t.patch)
      /\ members' = members \cup NewOwners(t.patch) \cup NewManagers(t.patch)
      /\ Finish(w)
      /\ UNCHANGED <<status, links>>

\* A change to "auto": auto_approve_pending_requests lists the pending rows,
EditList(w) ==
  LET t == task[w]
  IN  /\ Doing(w, "edit")
      /\ OpensUp(t)
      /\ Become(w, [kind |-> "autoApprove", owner |-> t.owner, patch |-> t.patch,
                    rows |-> Pending])
      /\ UNCHANGED <<domainVars, members, status, links>>

\* Faulty form: the requesters are not added to the members.
EditCommitRowsOnly(w) ==
  LET t == task[w]
  IN  /\ Doing(w, "autoApprove")
      /\ owner' = Written(t.patch.owner, t.owner)
      /\ policy' = "auto"
      /\ managers' = Team(t.patch)
      /\ members' = members \cup NewOwners(t.patch) \cup NewManagers(t.patch)
      /\ MarkRows(t.rows, "approved")
      /\ Finish(w)
      /\ UNCHANGED links

\* ... then updates the listed ids, in the same transaction.
EditCommit(w) ==
  LET t == task[w]
  IN  /\ Doing(w, "autoApprove")
      /\ owner' = Written(t.patch.owner, t.owner)
      /\ policy' = "auto"
      /\ managers' = Team(t.patch)
      /\ members' = members \cup NewOwners(t.patch) \cup NewManagers(t.patch)
                            \cup Requesters(t.rows)
      /\ MarkRows(t.rows, "approved")
      /\ Finish(w)
      /\ UNCHANGED links

-----------------------------------------------------------------------------
(* The list of domains in the profile form: reconcile_user_domain_membership *)

PreferencesLeave(u) ==
  /\ u \in members
  /\ members' = members \ {u}
  /\ UNCHANGED <<domainVars, status, links, task>>

PreferencesJoin(u) ==
  /\ u \notin members
  /\ \/ /\ policy = "auto"
        /\ members' = members \cup {u}
        /\ UNCHANGED <<status, links>>
     \/ /\ policy # "auto"
        /\ PendingOf(u) = {}
        /\ InsertRow(u, Approvers(owner, policy))
        /\ UNCHANGED members
  /\ UNCHANGED <<domainVars, task>>

(* The daily auto_decline_stale_join_requests_task: any set of rows may be old enough. *)

\* Faulty form: domains with automatic admission are taken to have no queue.
SweepClosedDomains(rows) ==
  /\ "sweep" \in Endpoints
  /\ policy # "auto"
  /\ rows \subseteq Pending
  /\ rows # {}
  /\ MarkRows(rows, "cancelled")
  /\ UNCHANGED <<domainVars, members, links, task>>

Sweep(rows) ==
  /\ "sweep" \in Endpoints
  /\ rows \subseteq Pending
  /\ rows # {}
  /\ MarkRows(rows, "cancelled")
  /\ UNCHANGED <<domainVars, members, links, task>>

-----------------------------------------------------------------------------
Init ==
  /\ owner = Creator
  /\ managers = {Creator}
  /\ members = {Creator}
  /\ policy \in Policies
  /\ status = [r \in Requests |-> "absent"]
  /\ links = {}
  /\ task = [w \in Workers |-> Idle]

\* The first half of a handler, taken when a client calls it.
Call(w) ==
  \/ "join" \in Endpoints /\ \E u \in Users : JoinCheck(w, u)
  \/ /\ "moderate" \in Endpoints
     /\ \E a \in Users, v \in Verdicts, rows \in SUBSET Existing :
          rows # {} /\ ModerateCheck(w, a, v, rows)
  \/ "cancel" \in Endpoints /\ \E r \in Requests : CancelCheck(w, r)
  \/ /\ "role" \in Endpoints
     /\ \E a, t \in Users, k \in {"remove", "promote", "demote"} : RoleCheck(w, a, t, k)
  \/ "leave" \in Endpoints /\ \E u \in Users : LeaveCheck(w, u)
  \/ "edit" \in Endpoints /\ \E a \in Users, p \in Patches : EditCheck(w, a, p)

\* What a handler does after its first reads.
Continue(w) ==
  \/ JoinAuto(w) \/ JoinLookup(w) \/ JoinInsert(w) \/ JoinConflict(w) \/ JoinDropped(w)
  \/ JoinRefetch(w)
  \/ ApproveApply(w) \/ RejectApply(w) \/ CancelSave(w)
  \/ RemoveApply(w) \/ RemoveRefused(w) \/ PromoteApply(w) \/ DemoteApply(w)
  \/ LeaveApply(w)
  \/ EditSave(w) \/ EditList(w) \/ EditCommit(w)

\* Handlers that are one transaction from the first read to the last write.
AtOnce ==
  \/ "email" \in Endpoints /\ \E link \in links : DecideApprove(link) \/ DecideReject(link)
  \/ /\ "preferences" \in Endpoints
     /\ \E u \in Users : PreferencesLeave(u) \/ PreferencesJoin(u)
  \/ \E rows \in SUBSET Requests : Sweep(rows)

Next == AtOnce \/ \E w \in Workers : Call(w) \/ Continue(w)

Spec == Init /\ [][Next]_vars

\* Celery beat runs the sweep every day, so a row that stays pending is swept.
Fairness == \A r \in Requests : WF_vars(\E rows \in SUBSET Requests : r \in rows /\ Sweep(rows))

FairSpec == Spec /\ Fairness
-----------------------------------------------------------------------------
(* Properties *)

\* This step ends a task of one of these kinds.
Completes(w, kinds) == task[w].kind \in kinds /\ Finish(w)

TypeOK ==
  /\ owner \in Users
  /\ managers \in SUBSET Users
  /\ members \in SUBSET Users
  /\ policy \in Policies
  /\ status \in [Requests -> Statuses]
  /\ links \in SUBSET (Requests \X Users)
  /\ task \in [Workers -> Task]

\* No user ever waits twice: the .get() of the create endpoint and
\* flip_pending_to_approved rely on it, whichever of the two ways in (join
\* request, profile form) and however many concurrent calls made the rows.
OnePendingPerUser == \A q, r \in Pending : q[1] = r[1] => q = r

\* A link or a running handler names a row only after its insert committed, so
\* that neither can bring to life a row that was never created.
NoGhostRows ==
  /\ \A link \in links : link[1] \in Existing
  /\ \A w \in Workers :
       /\ task[w] \in ModerateTask \cup AutoTask => task[w].rows \subseteq Existing
       /\ task[w] \in CancelTask => task[w].row \in Existing

\* A decision taken in the application is overturned only by a decision link, by
\* a cancellation or an auto-approval that had read the row before: a moderator's
\* approve or reject, single or bulk, never does, however stale the list the
\* moderator clicked on, and neither do a promotion and the sweep.
DecisionsStand ==
  [][\A r \in Requests :
       status[r] \in {"approved", "rejected"} /\ status'[r] # status[r] =>
         \/ \E link \in links : link[1] = r /\ (DecideApprove(link) \/ DecideReject(link))
         \/ \E w \in Workers : /\ Completes(w, {"cancel"})
                                /\ task[w].row = r /\ status'[r] = "cancelled"
         \/ \E w \in Workers : /\ Completes(w, {"autoApprove"})
                                /\ r \in task[w].rows /\ status'[r] = "approved"]_vars

\* Who enters the domain was let in: by a policy that was automatic when the
\* handler read it, by a verdict on a request of theirs in the same step, or by
\* the role endpoint or a PATCH that names them.
EntryIsEarned ==
  [][\A u \in members' \ members :
       \/ policy = "auto"
       \/ \E w \in Workers : /\ Completes(w, {"join"})
                              /\ task[w].user = u /\ task[w].policy = "auto"
       \/ \E r \in PendingOf(u) : status'[r] = "approved"
       \/ \E link \in links : link[1][1] = u /\ DecideApprove(link)
       \/ \E w \in Workers : Completes(w, {"autoApprove"}) /\ u \in Requesters(task[w].rows)
       \/ \E w \in Workers : Completes(w, {"promote"}) /\ task[w].target = u
       \/ \E w \in Workers : /\ Completes(w, {"edit", "autoApprove"})
                              /\ \/ u = task[w].patch.owner
                                 \/ u \in task[w].patch.managers]_vars

ManagersAreMembers == managers \subseteq members

\* A manager stops being a member only through a rejection link or the profile
\* form: roles, leaving, PATCH and moderation keep the rule of
\* Domain.ensure_managers_are_members in every interleaving.
OnlyTwoDoorsOrphanManagers ==
  [][ManagersAreMembers /\ ~ManagersAreMembers' =>
       \/ \E link \in links : DecideReject(link)
       \/ \E u \in Users : PreferencesLeave(u)]_vars

\* The row table keeps the promises of JoinLedger.
Ledger == INSTANCE JoinLedger
KeepsLedger == Ledger!Spec

\* Nobody waits for ever: with no moderator acting, the daily sweep closes the row,
\* under every policy (a request can be left pending under "auto" by a race).
PendingIsDecided == \A r \in Requests : status[r] = "pending" ~> status[r] # "pending"
===============================================================================
