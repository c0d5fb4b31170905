-------------------------------- MODULE Outbox --------------------------------
(***************************************************************************)
(* The outbox of e-mails: queue_email inserts an OutboundEmail, a commit   *)
(* hook asks Celery to deliver, and whoever delivers walks through the due *)
(* rows, one transaction per row, holding the row while the message is     *)
(* handed to the mail server.                                              *)
(*                                                                         *)
(* A delivery is split where a failure makes a difference: the row is      *)
(* taken, the server accepts the message, the outcome is committed.        *)
(***************************************************************************)
EXTENDS Naturals, FiniteSets

CONSTANTS
  MaxEmails,    \* bound: messages the application queues
  Workers,      \* Celery workers
  Web,          \* web processes; they queue messages and deliver when the broker is down
  Retries,      \* max_retries of the delivery task
  Limit,        \* messages one call of process_pending_outbound_emails may send
  Events,       \* what the environment may do
  MaxMishaps,   \* bound: refusals, crashes and database errors together
  None          \* no message

AllEvents == {"refusal", "crash", "database", "broker", "operator", "purge"}

ASSUME NatAssumption ==
  MaxEmails \in Nat /\ Retries \in Nat /\ Limit \in Nat \ {0} /\ MaxMishaps \in Nat
ASSUME EventsAssumption == Events \subseteq AllEvents
ASSUME ProcsAssumption == Workers \cap Web = {}
ASSUME NoneAssumption == None \notin Nat

Emails == 1..MaxEmails   \* in the order they are created
Procs == Workers \cup Web

VARIABLES
  row,         \* the OutboundEmail: "none" before the insert, "purged" once deleted
  due,         \* available_at <= now
  tasks,       \* tasks[k]: delivery tasks at the broker with k retries left
  pc, mail,    \* where each process is, and the row it holds locked
  sent,        \* messages it has sent in this call
  tries,       \* retries left to the task it runs
  copies,      \* messages the mail server accepted, for each row
  unrecorded,  \* those whose acceptance was never committed
  mishaps

rowVars == <<row, due>>
procVars == <<pc, mail, sent, tries>>
mailVars == <<copies, unrecorded>>
vars == <<rowVars, tasks, procVars, mailVars, mishaps>>

-----------------------------------------------------------------------------
Locked == {mail[p] : p \in Procs} \ {None}
Queued == {e \in Emails : row[e] = "queued"}

\* Faulty form: the rows another delivery holds are not skipped.
CandidatesShared == {e \in Queued : due[e]}

\* select_for_update(skip_locked=True).filter(sent_at__isnull=True, available_at__lte=now)
Candidates == {e \in Queued : due[e] /\ e \notin Locked}

Goto(p, label) == pc' = [pc EXCEPT ![p] = label]
Mishap == mishaps < MaxMishaps /\ mishaps' = mishaps + 1

\* p stops: its transaction is over and it holds nothing.
Release(p) == mail' = [mail EXCEPT ![p] = None]

\* p enters process_pending_outbound_emails, from a task with k retries left.
EnterLoop(p, k) ==
  /\ Goto(p, "pick")
  /\ sent' = [sent EXCEPT ![p] = 0]
  /\ tries' = [tries EXCEPT ![p] = k]
  /\ UNCHANGED mail

-----------------------------------------------------------------------------
(* Queueing *)

Enqueue(p, e) ==
  /\ p \in Web
  /\ pc[p] = "idle"
  /\ row[e] = "none"
  /\ \A d \in 1..(e - 1) : row[d] # "none"
  /\ row' = [row EXCEPT ![e] = "queued"]
  /\ Goto(p, "hook")
  /\ UNCHANGED <<due, tasks, mail, sent, tries, mailVars, mishaps>>

Trigger(p) ==
  /\ pc[p] = "hook"
  /\ tasks' = [tasks EXCEPT ![Retries] = @ + 1]
  /\ Goto(p, "idle")
  /\ UNCHANGED <<rowVars, mail, sent, tries, mailVars, mishaps>>

\* Faulty form: an unreachable broker is only logged.
TriggerLogged(p) ==
  /\ pc[p] = "hook"
  /\ "broker" \in Events
  /\ Goto(p, "idle")
  /\ UNCHANGED <<rowVars, tasks, mail, sent, tries, mailVars, mishaps>>

\* The broker is unreachable: the process delivers by itself.
TriggerFallback(p) ==
  /\ pc[p] = "hook"
  /\ "broker" \in Events
  /\ EnterLoop(p, 0)
  /\ UNCHANGED <<rowVars, tasks, mailVars, mishaps>>

\* deliver_outbound_emails_task, acknowledged as it starts.
StartTask(w, k) ==
  /\ w \in Workers
  /\ pc[w] = "idle"
  /\ tasks[k] > 0
  /\ tasks' = [tasks EXCEPT ![k] = @ - 1]
  /\ EnterLoop(w, k)
  /\ UNCHANGED <<rowVars, mailVars, mishaps>>

\* manage.py process_outbound_email
RunCommand(p) ==
  /\ "operator" \in Events
  /\ p \in Web
  /\ pc[p] = "idle"
  /\ EnterLoop(p, 0)
  /\ UNCHANGED <<rowVars, tasks, mailVars, mishaps>>

-----------------------------------------------------------------------------
(* process_pending_outbound_emails *)

\* Faulty form: the filter on sent_at is lost.
PickAny(p) ==
  /\ pc[p] = "pick"
  /\ sent[p] < Limit
  /\ \E e \in Emails :
       /\ row[e] \in {"queued", "sent"} /\ due[e] /\ e \notin Locked
       /\ mail' = [mail EXCEPT ![p] = e]
  /\ Goto(p, "send")
  /\ UNCHANGED <<rowVars, tasks, sent, tries, mailVars, mishaps>>

Pick(p) ==
  /\ pc[p] = "pick"
  /\ sent[p] < Limit
  /\ \E e \in Candidates :
       /\ \A d \in Candidates : e <= d
       /\ mail' = [mail EXCEPT ![p] = e]
  /\ Goto(p, "send")
  /\ UNCHANGED <<rowVars, tasks, sent, tries, mailVars, mishaps>>

LeaveLoop(p) ==
  /\ pc[p] = "pick"
  /\ sent[p] >= Limit \/ Candidates = {}
  /\ Goto(p, "idle")
  /\ UNCHANGED <<rowVars, tasks, mail, sent, tries, mailVars, mishaps>>

Send(p) ==
  /\ pc[p] = "send"
  /\ copies' = [copies EXCEPT ![mail[p]] = @ + 1]
  /\ Goto(p, "record")
  /\ UNCHANGED <<rowVars, tasks, mail, sent, tries, unrecorded, mishaps>>

\* Faulty form: the row of a message the server refused is closed.
RefusedClosed(p) ==
  /\ pc[p] = "send"
  /\ "refusal" \in Events
  /\ Mishap
  /\ row' = [row EXCEPT ![mail[p]] = "sent"]
  /\ Release(p)
  /\ Goto(p, "pick")
  /\ UNCHANGED <<due, tasks, sent, tries, mailVars>>

\* msg.send raises; the server may have accepted the message all the same (a
\* timeout on its answer).  The row is put off for a minute.
Refused(p) ==
  /\ pc[p] = "send"
  /\ "refusal" \in Events
  /\ Mishap
  /\ \/ UNCHANGED mailVars
     \/ /\ copies' = [copies EXCEPT ![mail[p]] = @ + 1]
        /\ unrecorded' = [unrecorded EXCEPT ![mail[p]] = @ + 1]
  /\ due' = [due EXCEPT ![mail[p]] = FALSE]
  /\ Release(p)
  /\ Goto(p, "pick")
  /\ UNCHANGED <<row, tasks, sent, tries>>

\* Faulty form: sent_at is given a value outside its column.
RecordMistyped(p) ==
  /\ pc[p] = "record"
  /\ row' = [row EXCEPT ![mail[p]] = "delivered"]
  /\ Release(p)
  /\ sent' = [sent EXCEPT ![p] = @ + 1]
  /\ Goto(p, "pick")
  /\ UNCHANGED <<due, tasks, tries, mailVars, mishaps>>

Record(p) ==
  /\ pc[p] = "record"
  /\ row' = [row EXCEPT ![mail[p]] = "sent"]
  /\ Release(p)
  /\ sent' = [sent EXCEPT ![p] = @ + 1]
  /\ Goto(p, "pick")
  /\ UNCHANGED <<due, tasks, tries, mailVars, mishaps>>

\* p's open transaction is rolled back; an accepted message stays accepted.
RollBack(p) ==
  /\ unrecorded' = IF pc[p] = "record"
                     THEN [unrecorded EXCEPT ![mail[p]] = @ + 1]
                     ELSE unrecorded
  /\ Release(p)
  /\ Goto(p, "idle")
  /\ UNCHANGED <<rowVars, sent, tries, copies>>

\* p is killed: a hook not yet run is lost, and so is the task it had acknowledged.
Crash(p) ==
  /\ "crash" \in Events
  /\ pc[p] # "idle"
  /\ Mishap
  /\ RollBack(p)
  /\ UNCHANGED tasks

\* The database fails under the loop: the exception reaches Celery, which
\* re-queues the task while it has retries left, or the caller of the web process.
DatabaseError(p) ==
  /\ "database" \in Events
  /\ pc[p] \in {"pick", "send", "record"}
  /\ Mishap
  /\ RollBack(p)
  /\ tasks' = IF tries[p] > 0 THEN [tasks EXCEPT ![tries[p] - 1] = @ + 1] ELSE tasks

-----------------------------------------------------------------------------
(* The clock and purge_expired_personal_data *)

MinutePasses(e) ==
  /\ row[e] = "queued" /\ ~due[e]
  /\ due' = [due EXCEPT ![e] = TRUE]
  /\ UNCHANGED <<row, tasks, procVars, mailVars, mishaps>>

\* Any old row, sent or not; a DELETE waits for the row's lock.
Purge(e) ==
  /\ "purge" \in Events
  /\ row[e] \in {"queued", "sent"}
  /\ e \notin Locked
  /\ row' = [row EXCEPT ![e] = "purged"]
  /\ UNCHANGED <<due, tasks, procVars, mailVars, mishaps>>

-----------------------------------------------------------------------------
Init ==
  /\ row = [e \in Emails |-> "none"]
  /\ due = [e \in Emails |-> TRUE]
  /\ tasks = [k \in 0..Retries |-> 0]
  /\ pc = [p \in Procs |-> "idle"]
  /\ mail = [p \in Procs |-> None]
  /\ sent = [p \in Procs |-> 0]
  /\ tries = [p \in Procs |-> 0]
  /\ copies = [e \in Emails |-> 0]
  /\ unrecorded = [e \in Emails |-> 0]
  /\ mishaps = 0

Hook(p) == Trigger(p) \/ TriggerFallback(p)
Loop(p) == Pick(p) \/ LeaveLoop(p) \/ Send(p) \/ Record(p)
Start(w) == \E k \in 0..Retries : StartTask(w, k)

Next ==
  \/ \E p \in Procs :
       \/ \E e \in Emails : Enqueue(p, e)
       \/ Hook(p) \/ Start(p) \/ RunCommand(p) \/ Loop(p)
       \/ Refused(p) \/ Crash(p) \/ DatabaseError(p)
  \/ \E e \in Emails : MinutePasses(e) \/ Purge(e)

Spec == Init /\ [][Next]_vars

\* Processes run, a worker takes the tasks that wait, and time passes.
Fairness ==
  /\ \A p \in Procs : WF_vars(Hook(p)) /\ WF_vars(Loop(p))
  /\ \A w \in Workers : WF_vars(Start(w))
  /\ \A e \in Emails : WF_vars(MinutePasses(e))

FairSpec == Spec /\ Fairness

-----------------------------------------------------------------------------
(* Properties *)

TypeOK ==
  /\ row \in [Emails -> {"none", "queued", "sent", "purged"}]
  /\ due \in [Emails -> BOOLEAN]
  /\ tasks \in [0..Retries -> Nat]
  /\ pc \in [Procs -> {"idle", "hook", "pick", "send", "record"}]
  /\ mail \in [Procs -> Emails \cup {None}]
  /\ sent \in [Procs -> 0..Limit]
  /\ tries \in [Procs -> 0..Retries]
  /\ copies \in [Emails -> Nat]
  /\ unrecorded \in [Emails -> Nat]
  /\ mishaps \in 0..MaxMishaps

\* Beyond the copies a failure hid from the database, a message is handed to the
\* mail server at most once, however many workers, fallbacks and manual commands
\* deliver at the same time.
CopiesAccounted == \A e \in Emails : copies[e] <= unrecorded[e] + 1

\* A row is marked sent only after the server accepted a copy of it.
SentWasAccepted == \A e \in Emails : row[e] = "sent" => copies[e] > unrecorded[e]

\* A message whose sending was recorded, or whose row is gone, is never sent again.
SentForGood ==
  [][\A e \in Emails : row[e] \in {"sent", "purged"} =>
       /\ copies'[e] = copies[e]
       /\ row'[e] \in {row[e], "purged"}]_vars

\* No failure yet, or database errors only, no more of them than the delivery task
\* has retries, and every delivery made by that task.
WithinRetries ==
  \/ mishaps = 0
  \/ mishaps <= Retries /\ Events \subseteq {"database", "purge"}

Quiet == (\A p \in Procs : pc[p] = "idle") /\ (\A k \in 0..Retries : tasks[k] = 0)

\* When nobody delivers any more, and no delivery is asked for, nothing waits: the call
\* that each message brings with it is enough, though a call may be cut off by its
\* limit, skip what others hold, or find its own message gone and send another.
NothingStranded == WithinRetries /\ Quiet => Queued = {}

\* Every queued message ends up sent.
QueuedIsSent == \A e \in Emails : row[e] = "queued" ~> row[e] = "sent"
===============================================================================
