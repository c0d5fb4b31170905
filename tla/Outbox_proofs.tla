----------------------------- MODULE Outbox_proofs -----------------------------
(* Theorems about Outbox, for every value of its constants. *)
EXTENDS Outbox, TLAPS

-----------------------------------------------------------------------------
(* The inductive invariant *)

\* A process holds a row exactly while it sends or records, with room under the limit.
Holding ==
  \A p \in Procs :
    /\ mail[p] # None <=> pc[p] \in {"send", "record"}
    /\ mail[p] # None => sent[p] < Limit

\* What is held is held by one process, and still queued.
HeldByOne ==
  \A p \in Procs :
    mail[p] # None =>
      /\ row[mail[p]] = "queued"
      /\ \A q \in Procs : mail[q] = mail[p] => q = p

InFlight(e) == \E p \in Procs : mail[p] = e /\ pc[p] = "record"

\* What the mail server accepted is recorded, in flight, or hidden by a failure.
Accounts ==
  \A e \in Emails :
    /\ row[e] = "sent" => copies[e] = unrecorded[e] + 1
    /\ row[e] = "purged" => copies[e] <= unrecorded[e] + 1
    /\ row[e] \in {"none", "queued"} =>
         copies[e] = unrecorded[e] + (IF InFlight(e) THEN 1 ELSE 0)

Inv == TypeOK /\ Holding /\ HeldByOne /\ Accounts

-----------------------------------------------------------------------------
LEMMA EmailsNotNone == None \notin Emails
  BY NatAssumption, NoneAssumption DEF Emails

LEMMA InvInit == Init => Inv
  <1> SUFFICES ASSUME Init PROVE Inv
    OBVIOUS
  <1>1. TypeOK
    BY NatAssumption DEF Init, TypeOK
  <1>2. Holding /\ HeldByOne
    BY NatAssumption DEF Init, Holding, HeldByOne
  <1>3. Accounts
    BY NatAssumption DEF Init, Accounts, InFlight
  <1> QED
    BY <1>1, <1>2, <1>3 DEF Inv

\* Only the process that holds a row changes its row and its copies.
LEMMA HolderOwns ==
  ASSUME Inv, NEW p \in Procs, pc[p] \in {"send", "record"}
  PROVE  /\ mail[p] \in Emails
         /\ row[mail[p]] = "queued"
         /\ sent[p] < Limit
         /\ \A q \in Procs : mail[q] = mail[p] => q = p
         /\ copies[mail[p]] =
              unrecorded[mail[p]] + (IF pc[p] = "record" THEN 1 ELSE 0)
  <1>1. /\ mail[p] \in Emails
        /\ row[mail[p]] = "queued"
        /\ sent[p] < Limit
        /\ \A q \in Procs : mail[q] = mail[p] => q = p
    BY DEF Inv, TypeOK, Holding, HeldByOne
  <1>2. InFlight(mail[p]) <=> pc[p] = "record"
    BY <1>1 DEF InFlight
  <1> QED
    BY <1>1, <1>2 DEF Inv, Accounts

\* A step that moves p among the places where it holds nothing.
LEMMA MovesFree ==
  ASSUME Inv, TypeOK', NEW p \in Procs, NEW label \in {"idle", "hook", "pick"},
         Goto(p, label), mail[p] = None, UNCHANGED <<mail, copies, unrecorded>>,
         \A q \in Procs \ {p} : sent'[q] = sent[q],
         \A e \in Emails : row'[e] = row[e] \/ (row[e] = "none" /\ row'[e] = "queued")
  PROVE  Inv'
  <1>1. \A q \in Procs : pc'[q] = IF q = p THEN label ELSE pc[q]
    BY DEF Goto, Inv, TypeOK
  <1>2. Holding'
    BY <1>1 DEF Inv, Holding
  <1>3. HeldByOne'
    BY EmailsNotNone, SMTT(30) DEF Inv, HeldByOne, TypeOK
  <1>4. \A e \in Emails : InFlight(e)' <=> InFlight(e)
    BY <1>1, EmailsNotNone DEF InFlight
  <1>5. Accounts'
    BY <1>4 DEF Inv, Accounts, TypeOK
  <1> QED
    BY <1>2, <1>3, <1>5 DEF Inv

\* A step that takes a candidate.
LEMMA PickKeeps ==
  ASSUME Inv, NEW p \in Procs, Pick(p)
  PROVE  Inv'
  <1>1. PICK e \in Candidates : mail' = [mail EXCEPT ![p] = e]
    BY DEF Pick
  <1>2. e \in Emails /\ row[e] = "queued" /\ \A q \in Procs : mail[q] # e
    BY <1>1, EmailsNotNone DEF Candidates, Queued, Locked
  <1>3. \A q \in Procs : /\ pc'[q] = IF q = p THEN "send" ELSE pc[q]
                         /\ mail'[q] = IF q = p THEN e ELSE mail[q]
    BY <1>1 DEF Pick, Goto, Inv, TypeOK
  <1>4. UNCHANGED <<rowVars, sent, tries, tasks, mailVars, mishaps>> /\ sent[p] < Limit
    BY DEF Pick
  <1>5. TypeOK'
    BY <1>1, <1>2, <1>4 DEF Pick, Goto, Inv, TypeOK, rowVars, mailVars
  <1>6. Holding'
    BY <1>2, <1>3, <1>4, EmailsNotNone DEF Inv, Holding
  <1>7. HeldByOne'
    BY <1>2, <1>3, <1>4 DEF Inv, HeldByOne, rowVars
  <1>8. \A d \in Emails : InFlight(d)' <=> InFlight(d)
    <2>1. mail[p] = None
      BY DEF Pick, Inv, Holding
    <2> QED
      BY <1>2, <1>3, <2>1, EmailsNotNone DEF InFlight
  <1>9. Accounts'
    BY <1>4, <1>8 DEF Inv, Accounts, rowVars, mailVars
  <1> QED
    BY <1>5, <1>6, <1>7, <1>9 DEF Inv

LEMMA SendKeeps ==
  ASSUME Inv, NEW p \in Procs, Send(p)
  PROVE  Inv'
  <1> DEFINE m == mail[p]
  <1>0. /\ pc[p] = "send"
        /\ UNCHANGED <<rowVars, tasks, mail, sent, tries, unrecorded, mishaps>>
    BY DEF Send
  <1>1. /\ m \in Emails /\ row[m] = "queued"
        /\ copies[m] = unrecorded[m] + 0
        /\ \A q \in Procs : mail[q] = m => q = p
    BY <1>0, HolderOwns
  <1>2. \A q \in Procs : pc'[q] = IF q = p THEN "record" ELSE pc[q]
    BY DEF Send, Goto, Inv, TypeOK
  <1>3. \A e \in Emails : copies'[e] = IF e = m THEN copies[e] + 1 ELSE copies[e]
    BY DEF Send, Inv, TypeOK
  <1>4. TypeOK'
    <2>1. copies' \in [Emails -> Nat]
      BY <1>1 DEF Send, Inv, TypeOK
    <2> QED
      BY <1>0, <2>1 DEF Send, Goto, Inv, TypeOK, rowVars
  <1>5. Holding'
    BY <1>0, <1>2 DEF Inv, Holding
  <1>6. HeldByOne'
    BY <1>0 DEF Inv, HeldByOne, rowVars
  <1>7. \A e \in Emails : InFlight(e)' <=> e = m \/ InFlight(e)
    BY <1>0, <1>1, <1>2 DEF InFlight
  <1>8. Accounts'
    BY <1>0, <1>1, <1>3, <1>7 DEF Inv, Accounts, rowVars, TypeOK
  <1> QED
    BY <1>4, <1>5, <1>6, <1>8 DEF Inv

\* A step in which p lets go of the row it holds.
LEMMA LetGo ==
  ASSUME Inv, TypeOK', NEW p \in Procs, NEW label \in {"idle", "hook", "pick"},
         Goto(p, label), Release(p),
         \A q \in Procs \ {p} : sent'[q] = sent[q],
         \A e \in Emails \ {mail[p]} :
           row'[e] = row[e] /\ copies'[e] = copies[e] /\ unrecorded'[e] = unrecorded[e],
         mail[p] \in Emails =>
           \/ row'[mail[p]] = "queued" /\ copies'[mail[p]] = unrecorded'[mail[p]]
           \/ row'[mail[p]] = "sent" /\ copies'[mail[p]] = unrecorded'[mail[p]] + 1
  PROVE  Inv'
  <1>1. \A q \in Procs : /\ pc'[q] = IF q = p THEN label ELSE pc[q]
                         /\ mail'[q] = IF q = p THEN None ELSE mail[q]
    BY DEF Goto, Release, Inv, TypeOK
  <1>2. Holding'
    BY <1>1 DEF Inv, Holding
  <1>3. HeldByOne'
    <2> SUFFICES ASSUME NEW q \in Procs, mail'[q] # None
                 PROVE  /\ row'[mail'[q]] = "queued"
                        /\ \A r \in Procs : mail'[r] = mail'[q] => r = q
      BY DEF HeldByOne
    <2>1. q # p /\ mail'[q] = mail[q] /\ mail[q] \in Emails
      BY <1>1 DEF Inv, TypeOK
    <2>2. mail[q] # mail[p]
      BY <2>1, EmailsNotNone DEF Inv, HeldByOne
    <2> QED
      BY <1>1, <2>1, <2>2 DEF Inv, HeldByOne
  <1>4. \A e \in Emails : InFlight(e)' <=> InFlight(e) /\ e # mail[p]
    BY <1>1, EmailsNotNone DEF InFlight, Inv, HeldByOne
  <1>5. Accounts'
    <2> SUFFICES ASSUME NEW e \in Emails
                 PROVE  /\ row'[e] = "sent" => copies'[e] = unrecorded'[e] + 1
                        /\ row'[e] = "purged" => copies'[e] <= unrecorded'[e] + 1
                        /\ row'[e] \in {"none", "queued"} =>
                             copies'[e] = unrecorded'[e] + (IF InFlight(e)' THEN 1 ELSE 0)
      BY DEF Accounts
    <2>1. CASE e = mail[p]
      <3>1. ~InFlight(e)' /\ unrecorded'[e] \in Nat
        BY <1>4, <2>1 DEF TypeOK
      <3> QED
        BY <2>1, <3>1
    <2>2. CASE e # mail[p]
      <3>1. InFlight(e)' <=> InFlight(e)
        BY <1>4, <2>2
      <3> QED
        BY <2>2, <3>1 DEF Inv, Accounts
    <2> QED
      BY <2>1, <2>2
  <1> QED
    BY <1>2, <1>3, <1>5 DEF Inv

\* A process that neither sends nor records holds nothing.
LEMMA HoldsNothing ==
  ASSUME Inv, NEW p \in Procs, pc[p] \in {"idle", "hook", "pick"}
  PROVE  mail[p] = None
  BY DEF Inv, Holding

LEMMA QueueingKeeps ==
  ASSUME Inv, NEW p \in Procs,
         \/ \E e \in Emails : Enqueue(p, e)
         \/ Hook(p) \/ Start(p) \/ RunCommand(p) \/ LeaveLoop(p)
  PROVE  Inv'
  <1> USE NatAssumption DEF rowVars, mailVars
  <1>1. ASSUME NEW e \in Emails, Enqueue(p, e)
        PROVE  Inv'
    <2>1. TypeOK'
      BY <1>1, SMTT(30) DEF Enqueue, Goto, Inv, TypeOK
    <2>2. mail[p] = None
      BY <1>1, HoldsNothing DEF Enqueue
    <2>3. \A d \in Emails : row'[d] = row[d] \/ (row[d] = "none" /\ row'[d] = "queued")
      BY <1>1 DEF Enqueue, Inv, TypeOK
    <2> QED
      BY <1>1, <2>1, <2>2, <2>3, MovesFree DEF Enqueue
  <1>2. CASE Trigger(p)
    <2>1. TypeOK'
      BY <1>2, SMTT(30) DEF Trigger, Goto, Inv, TypeOK
    <2> QED
      BY <1>2, <2>1, HoldsNothing, MovesFree DEF Trigger
  <1>3. ASSUME NEW k \in 0..Retries, EnterLoop(p, k), pc[p] \in {"idle", "hook"},
               UNCHANGED <<row, due, copies, unrecorded, mishaps>>, tasks' \in [0..Retries -> Nat]
        PROVE  Inv'
    <2>1. TypeOK'
      BY <1>3, SMTT(30) DEF EnterLoop, Goto, Inv, TypeOK
    <2>2. \A q \in Procs \ {p} : sent'[q] = sent[q]
      BY <1>3 DEF EnterLoop, Inv, TypeOK
    <2> QED
      BY <1>3, <2>1, <2>2, HoldsNothing, MovesFree DEF EnterLoop
  <1>4. CASE TriggerFallback(p) \/ RunCommand(p)
    <2>1. 0 \in 0..Retries /\ tasks \in [0..Retries -> Nat]
      BY DEF Inv, TypeOK
    <2>2. /\ EnterLoop(p, 0) /\ pc[p] \in {"idle", "hook"}
          /\ UNCHANGED <<row, due, tasks, copies, unrecorded, mishaps>>
      BY <1>4 DEF TriggerFallback, RunCommand
    <2> QED
      BY <1>3, <2>1, <2>2
  <1>5. ASSUME NEW k \in 0..Retries, StartTask(p, k)
        PROVE  Inv'
    <2>1. tasks' \in [0..Retries -> Nat]
      BY <1>5 DEF StartTask, Inv, TypeOK
    <2> QED
      BY <1>3, <1>5, <2>1 DEF StartTask
  <1>6. CASE LeaveLoop(p)
    <2>1. TypeOK'
      BY <1>6 DEF LeaveLoop, Goto, Inv, TypeOK
    <2> QED
      BY <1>6, <2>1, HoldsNothing, MovesFree DEF LeaveLoop
  <1> QED
    BY <1>1, <1>2, <1>4, <1>5, <1>6 DEF Hook, Start

LEMMA RefusedKeeps ==
  ASSUME Inv, NEW p \in Procs, Refused(p)
  PROVE  Inv'
  <1> DEFINE m == mail[p]
  <1>1. /\ m \in Emails /\ row[m] = "queued"
        /\ copies[m] = unrecorded[m] + 0
    BY HolderOwns DEF Refused
  <1>2. copies' \in [Emails -> Nat] /\ unrecorded' \in [Emails -> Nat]
    <2>1. CASE UNCHANGED mailVars
      BY <2>1 DEF mailVars, Inv, TypeOK
    <2>2. CASE /\ copies' = [copies EXCEPT ![m] = @ + 1]
               /\ unrecorded' = [unrecorded EXCEPT ![m] = @ + 1]
      BY <1>1, <2>2 DEF Inv, TypeOK
    <2> QED
      BY <2>1, <2>2 DEF Refused
  <1>3. mishaps' \in 0..MaxMishaps
    BY NatAssumption DEF Refused, Mishap, Inv, TypeOK
  <1>4. TypeOK'
    BY <1>2, <1>3 DEF Refused, Goto, Release, Inv, TypeOK
  <1>5. \A e \in Emails \ {m} : copies'[e] = copies[e] /\ unrecorded'[e] = unrecorded[e]
    BY DEF Refused, mailVars, Inv, TypeOK
  <1>6. copies'[m] = unrecorded'[m]
    BY <1>1 DEF Refused, mailVars, Inv, TypeOK
  <1> QED
    BY <1>1, <1>4, <1>5, <1>6, LetGo DEF Refused

LEMMA RecordKeeps ==
  ASSUME Inv, NEW p \in Procs, Record(p)
  PROVE  Inv'
  <1> DEFINE m == mail[p]
  <1>1. /\ m \in Emails /\ sent[p] < Limit
        /\ copies[m] = unrecorded[m] + 1
    BY HolderOwns DEF Record
  <1>2. sent' \in [Procs -> 0..Limit]
    BY <1>1, NatAssumption DEF Record, Inv, TypeOK
  <1>3. TypeOK'
    BY <1>2 DEF Record, Goto, Release, Inv, TypeOK, mailVars
  <1>4. row'[m] = "sent" /\ \A e \in Emails \ {m} : row'[e] = row[e]
    BY <1>1 DEF Record, Inv, TypeOK
  <1>5. \A q \in Procs \ {p} : sent'[q] = sent[q]
    BY DEF Record, Inv, TypeOK
  <1> QED
    BY <1>1, <1>3, <1>4, <1>5, LetGo DEF Record, mailVars

LEMMA RollBackKeeps ==
  ASSUME Inv, NEW p \in Procs, Crash(p) \/ DatabaseError(p)
  PROVE  Inv'
  <1> DEFINE m == mail[p]
  <1>0. RollBack(p) /\ mishaps' \in 0..MaxMishaps
    BY NatAssumption DEF Crash, DatabaseError, Mishap, Inv, TypeOK
  <1>1. unrecorded' \in [Emails -> Nat]
    <2>1. pc[p] = "record" => m \in Emails
      BY HolderOwns
    <2> QED
      BY <1>0, <2>1 DEF RollBack, Inv, TypeOK
  <1>2. tasks' \in [0..Retries -> Nat]
    <2>1. tries[p] \in 0..Retries /\ tasks \in [0..Retries -> Nat]
      BY DEF Inv, TypeOK
    <2>2. CASE tasks' = tasks
      BY <2>1, <2>2
    <2>3. CASE tries[p] > 0 /\ tasks' = [tasks EXCEPT ![tries[p] - 1] = @ + 1]
      <3>1. tries[p] - 1 \in 0..Retries
        BY <2>1, <2>3, NatAssumption
      <3> QED
        BY <2>1, <2>3, <3>1
    <2> QED
      BY <2>2, <2>3 DEF Crash, DatabaseError
  <1>3. TypeOK'
    BY <1>0, <1>1, <1>2 DEF RollBack, Goto, Release, Inv, TypeOK, rowVars
  <1>4. \A e \in Emails \ {m} : unrecorded'[e] = unrecorded[e]
    BY <1>0 DEF RollBack, Inv, TypeOK
  <1>5. ASSUME m \in Emails
        PROVE  row[m] = "queued" /\ copies[m] = unrecorded'[m]
    <2>0. pc[p] \in {"send", "record"}
      BY <1>5, EmailsNotNone DEF Inv, Holding
    <2>1. /\ row[m] = "queued"
          /\ copies[m] = unrecorded[m] + (IF pc[p] = "record" THEN 1 ELSE 0)
      BY <2>0, HolderOwns
    <2>2. CASE pc[p] = "record"
      BY <1>0, <1>5, <2>1, <2>2 DEF RollBack, Inv, TypeOK
    <2>3. CASE pc[p] = "send"
      <3>1. unrecorded[m] \in Nat
        BY <1>5 DEF Inv, TypeOK
      <3> QED
        BY <1>0, <2>1, <2>3, <3>1 DEF RollBack
    <2> QED
      BY <2>0, <2>2, <2>3
  <1> QED
    BY <1>0, <1>3, <1>4, <1>5, LetGo DEF RollBack, rowVars

LEMMA ModestCopies ==
  ASSUME TypeOK, Accounts, NEW e \in Emails
  PROVE  copies[e] <= unrecorded[e] + 1
  <1>1. copies[e] \in Nat /\ unrecorded[e] \in Nat
    BY DEF TypeOK
  <1>2. \/ copies[e] = unrecorded[e] + 1
        \/ copies[e] <= unrecorded[e] + 1
        \/ copies[e] = unrecorded[e] + 0
    BY DEF TypeOK, Accounts
  <1> QED
    BY <1>1, <1>2

LEMMA PurgeKeeps ==
  ASSUME Inv, NEW e \in Emails, Purge(e)
  PROVE  Inv'
  <1>1. /\ \A q \in Procs : mail[q] # e
        /\ \A d \in Emails : row'[d] = IF d = e THEN "purged" ELSE row[d]
        /\ UNCHANGED <<due, tasks, pc, mail, sent, tries, copies, unrecorded, mishaps>>
    BY EmailsNotNone DEF Purge, Locked, Inv, TypeOK, procVars, mailVars
  <1>2. TypeOK'
    BY <1>1 DEF Purge, Inv, TypeOK
  <1>3. Holding' /\ HeldByOne'
    BY <1>1 DEF Inv, Holding, HeldByOne, TypeOK
  <1>4. \A d \in Emails : InFlight(d)' <=> InFlight(d)
    BY <1>1 DEF InFlight
  <1>5. copies[e] <= unrecorded[e] + 1
    BY ModestCopies DEF Inv
  <1>6. Accounts'
    BY <1>1, <1>4, <1>5 DEF Inv, Accounts
  <1> QED
    BY <1>2, <1>3, <1>6 DEF Inv

LEMMA InvStep == Inv /\ [Next]_vars => Inv'
  <1> SUFFICES ASSUME Inv, [Next]_vars
               PROVE  Inv'
    OBVIOUS
  <1>1. ASSUME NEW p \in Procs,
               \/ \E e \in Emails : Enqueue(p, e)
               \/ Hook(p) \/ Start(p) \/ RunCommand(p) \/ Loop(p)
               \/ Refused(p) \/ Crash(p) \/ DatabaseError(p)
        PROVE  Inv'
    BY <1>1, QueueingKeeps, PickKeeps, SendKeeps, RecordKeeps, RefusedKeeps, RollBackKeeps
       DEF Loop
  <1>2. ASSUME NEW e \in Emails, MinutePasses(e)
        PROVE  Inv'
    BY <1>2 DEF MinutePasses, Inv, TypeOK, Holding, HeldByOne, Accounts, InFlight, procVars,
                mailVars
  <1>3. ASSUME NEW e \in Emails, Purge(e)
        PROVE  Inv'
    BY <1>3, PurgeKeeps
  <1>4. CASE UNCHANGED vars
    BY <1>4 DEF vars, rowVars, procVars, mailVars, Inv, TypeOK, Holding, HeldByOne, Accounts,
                InFlight
  <1> QED
    BY <1>1, <1>2, <1>3, <1>4 DEF Next

LEMMA InvAlways == Spec => []Inv
  BY InvInit, InvStep, PTL DEF Spec

\* Rows, processes and counters keep their types.
THEOREM TypeCorrect == Spec => []TypeOK
  <1>1. Inv => TypeOK
    BY DEF Inv
  <1> QED
    BY <1>1, InvAlways, PTL

\* Beyond what a failure hid, no message is handed to the mail server twice, for
\* any number of workers, fallbacks and manual runs.
THEOREM CopiesAlwaysAccounted == Spec => []CopiesAccounted
  <1>1. Inv => CopiesAccounted
    BY ModestCopies DEF Inv, CopiesAccounted
  <1> QED
    BY <1>1, InvAlways, PTL

\* No row is marked sent before the server accepted its message.
THEOREM SentAlwaysAccepted == Spec => []SentWasAccepted
  <1>1. Inv => SentWasAccepted
    BY DEF Inv, Accounts, SentWasAccepted, TypeOK
  <1> QED
    BY <1>1, InvAlways, PTL

StaysClosed(e) ==
  row[e] \in {"sent", "purged"} =>
    /\ copies'[e] = copies[e]
    /\ row'[e] \in {row[e], "purged"}

\* Once recorded or purged, a message is never sent again.
THEOREM NeverSentAgain == Spec => SentForGood
  <1>1. Inv /\ [Next]_vars => [\A e \in Emails : StaysClosed(e)]_vars
    <2> SUFFICES ASSUME Inv, Next, NEW e \in Emails, row[e] \in {"sent", "purged"}
                 PROVE  copies'[e] = copies[e] /\ row'[e] \in {row[e], "purged"}
      BY DEF StaysClosed
    <2> USE DEF rowVars, mailVars
    <2>1. ASSUME NEW p \in Procs, Send(p) \/ Refused(p) \/ Record(p)
          PROVE  copies'[e] = copies[e] /\ row'[e] = row[e]
      <3>1. mail[p] \in Emails /\ mail[p] # e
        BY <2>1, HolderOwns DEF Send, Refused, Record
      <3> QED
        BY <2>1, <3>1 DEF Send, Refused, Record, Inv, TypeOK
    <2>2. ASSUME NEW p \in Procs, NEW d \in Emails, Enqueue(p, d)
          PROVE  copies'[e] = copies[e] /\ row'[e] = row[e]
      BY <2>2 DEF Enqueue, Inv, TypeOK
    <2>3. ASSUME NEW d \in Emails, MinutePasses(d) \/ Purge(d)
          PROVE  copies'[e] = copies[e] /\ row'[e] \in {row[e], "purged"}
      BY <2>3 DEF MinutePasses, Purge, Inv, TypeOK
    <2> QED
      BY <2>1, <2>2, <2>3
         DEF Next, Hook, Loop, Start, Trigger, TriggerFallback, StartTask, RunCommand, Pick,
             LeaveLoop, Crash, DatabaseError, RollBack
  <1> QED
    BY <1>1, InvAlways, PTL DEF Spec, SentForGood, StaysClosed

-----------------------------------------------------------------------------
(* Failures bound the copies *)

FewUnrecorded == \A e \in Emails : unrecorded[e] <= mishaps

LEMMA FewUnrecordedStep ==
  ASSUME Inv, FewUnrecorded, [Next]_vars
  PROVE  FewUnrecorded'
  <1> USE DEF rowVars, mailVars, procVars
  <1>0. unrecorded \in [Emails -> Nat] /\ mishaps \in Nat
    BY NatAssumption DEF Inv, TypeOK
  <1>1. CASE UNCHANGED unrecorded /\ mishaps' \in {mishaps, mishaps + 1}
    BY <1>0, <1>1 DEF FewUnrecorded
  <1>2. ASSUME NEW p \in Procs, mishaps' = mishaps + 1, mail[p] \in Emails,
               unrecorded' = [unrecorded EXCEPT ![mail[p]] = @ + 1]
        PROVE  FewUnrecorded'
    BY <1>0, <1>2 DEF FewUnrecorded
  <1>3. ASSUME NEW p \in Procs, Refused(p)
        PROVE  FewUnrecorded'
    <2>1. mail[p] \in Emails
      BY <1>3, HolderOwns DEF Refused
    <2> QED
      BY <1>1, <1>2, <1>3, <2>1 DEF Refused, Mishap
  <1>4. ASSUME NEW p \in Procs, Crash(p) \/ DatabaseError(p)
        PROVE  FewUnrecorded'
    <2>1. pc[p] = "record" => mail[p] \in Emails
      BY HolderOwns
    <2> QED
      BY <1>1, <1>2, <1>4, <2>1 DEF Crash, DatabaseError, RollBack, Mishap
  <1> QED
    BY <1>1, <1>3, <1>4
       DEF Next, vars, Enqueue, Hook, Trigger, TriggerFallback, Start, StartTask, RunCommand,
           Loop, Pick, LeaveLoop, Send, Record, MinutePasses, Purge

CopiesBounded == \A e \in Emails : copies[e] <= mishaps + 1

\* A recipient never gets a message more often than once plus once for every failure
\* there has been so far, of whatever kind and wherever it fell.
THEOREM CopiesBoundedByFailures == Spec => []CopiesBounded
  <1>1. Init => FewUnrecorded
    BY NatAssumption DEF Init, FewUnrecorded
  <1>2. Inv /\ FewUnrecorded /\ [Next]_vars => FewUnrecorded'
    BY FewUnrecordedStep
  <1>3. Inv /\ FewUnrecorded => CopiesBounded
    <2> SUFFICES ASSUME Inv, FewUnrecorded, NEW e \in Emails
                 PROVE  copies[e] <= mishaps + 1
      BY DEF CopiesBounded
    <2>1. copies[e] \in Nat /\ unrecorded[e] \in Nat /\ mishaps \in Nat
      BY NatAssumption DEF Inv, TypeOK
    <2>2. copies[e] <= unrecorded[e] + 1 /\ unrecorded[e] <= mishaps
      BY ModestCopies DEF Inv, FewUnrecorded
    <2> QED
      BY <2>1, <2>2
  <1> QED
    BY <1>1, <1>2, <1>3, InvAlways, PTL DEF Spec

ExactlyOnce ==
  mishaps = 0 =>
    \A e \in Emails : copies[e] <= 1 /\ (row[e] = "sent" => copies[e] = 1)

\* As long as nothing fails, delivery is exactly once.
THEOREM ExactlyOnceWithoutFailures == Spec => []ExactlyOnce
  <1>1. Inv /\ CopiesBounded => ExactlyOnce
    <2> SUFFICES ASSUME Inv, CopiesBounded, mishaps = 0, NEW e \in Emails
                 PROVE  copies[e] <= 1 /\ (row[e] = "sent" => copies[e] = 1)
      BY DEF ExactlyOnce
    <2>1. copies[e] \in Nat /\ unrecorded[e] \in Nat /\ copies[e] <= 1
      BY DEF Inv, TypeOK, CopiesBounded
    <2>2. row[e] = "sent" => copies[e] = unrecorded[e] + 1
      BY DEF Inv, Accounts
    <2> QED
      BY <2>1, <2>2
  <1> QED
    BY <1>1, InvAlways, CopiesBoundedByFailures, PTL

-----------------------------------------------------------------------------
(* Every message that waits has a delivery call of its own to come *)

\* Each element of U has an element of H to itself.
Injects(U, H) == \E f \in [U -> H] : \A d, e \in U : f[d] = f[e] => d = e

LEMMA InjectsNone ==
  ASSUME NEW H
  PROVE  Injects({}, H)
  <1> DEFINE g == [e \in {} |-> e]
  <1>1. g \in [{} -> H]
    OBVIOUS
  <1> QED
    BY <1>1 DEF Injects

LEMMA InjectsWider ==
  ASSUME NEW U, NEW H, NEW V \in SUBSET U, NEW K, H \subseteq K, Injects(U, H)
  PROVE  Injects(V, K)
  <1>1. PICK f \in [U -> H] : \A d, e \in U : f[d] = f[e] => d = e
    BY DEF Injects
  <1> DEFINE g == [e \in V |-> f[e]]
  <1>2. g \in [V -> K] /\ \A d, e \in V : g[d] = g[e] => d = e
    BY <1>1
  <1> QED
    BY <1>2 DEF Injects

\* One more to serve, and one more to serve it.
LEMMA InjectsMore ==
  ASSUME NEW U, NEW H, NEW u, NEW h, h \notin H, Injects(U, H)
  PROVE  Injects(U \cup {u}, H \cup {h})
  <1>1. PICK f \in [U -> H] : \A d, e \in U : f[d] = f[e] => d = e
    BY DEF Injects
  <1> DEFINE g == [e \in U \cup {u} |-> IF e \in U THEN f[e] ELSE h]
  <1>2. g \in [U \cup {u} -> H \cup {h}]
    BY <1>1
  <1>3. ASSUME NEW d \in U \cup {u}, NEW e \in U \cup {u}, g[d] = g[e]
        PROVE  d = e
    <2>1. \A x \in U : g[x] = f[x] /\ f[x] \in H
      BY <1>1
    <2>2. \A x \in {u} \ U : g[x] = h
      OBVIOUS
    <2> QED
      BY <1>1, <1>3, <2>1, <2>2
  <1> QED
    BY <1>2, <1>3 DEF Injects

\* One less to serve, by whoever serves.
LEMMA InjectsLess ==
  ASSUME NEW U, NEW H, NEW u \in U, NEW h, Injects(U, H)
  PROVE  Injects(U \ {u}, H \ {h})
  <1>1. PICK f \in [U -> H] : \A d, e \in U : f[d] = f[e] => d = e
    BY DEF Injects
  <1> DEFINE g == [e \in U \ {u} |-> IF f[e] = h THEN f[u] ELSE f[e]]
  <1>2. ASSUME NEW e \in U \ {u}
        PROVE  /\ g[e] = IF f[e] = h THEN f[u] ELSE f[e]
               /\ f[e] \in H /\ f[u] \in H /\ f[u] # f[e]
    BY <1>1
  <1>3. g \in [U \ {u} -> H \ {h}]
    BY <1>2
  <1>4. ASSUME NEW d \in U \ {u}, NEW e \in U \ {u}, g[d] = g[e]
        PROVE  d = e
    BY <1>1, <1>2, <1>4
  <1> QED
    BY <1>3, <1>4 DEF Injects

\* One server takes the place of another.
LEMMA InjectsSwap ==
  ASSUME NEW U, NEW H, NEW h, NEW k, k \notin H, Injects(U, H)
  PROVE  Injects(U, (H \ {h}) \cup {k})
  <1>1. PICK f \in [U -> H] : \A d, e \in U : f[d] = f[e] => d = e
    BY DEF Injects
  <1> DEFINE g == [e \in U |-> IF f[e] = h THEN k ELSE f[e]]
  <1>2. g \in [U -> (H \ {h}) \cup {k}]
    BY <1>1
  <1>3. ASSUME NEW d \in U, NEW e \in U, g[d] = g[e]
        PROVE  d = e
    <2>1. \A x \in U : (g[x] = IF f[x] = h THEN k ELSE f[x]) /\ f[x] \in H
      BY <1>1
    <2> QED
      BY <1>1, <1>3, <2>1
  <1> QED
    BY <1>2, <1>3 DEF Injects

\* What will still serve a message: a delivery task at the broker, a process whose
\* commit hook has yet to run, one about to look for a message, with room for it.
TaskHelp(k, i) == <<"task", <<k, i>>>>
ProcHelp(p) == <<"process", p>>
Ready(p) == pc[p] = "hook" \/ (pc[p] = "pick" /\ sent[p] < Limit)

TasksWaiting == {t \in (0..Retries) \X (Nat \ {0}) : t[2] <= tasks[t[1]]}

Helpers ==
  {ProcHelp(p) : p \in {q \in Procs : Ready(q)}} \cup {TaskHelp(t[1], t[2]) : t \in TasksWaiting}

Unheld == Queued \ Locked

LEMMA HelpsDistinct ==
  /\ \A p, q : ProcHelp(p) = ProcHelp(q) => p = q
  /\ \A p, k, i : ProcHelp(p) # TaskHelp(k, i)
  /\ \A k, i, m, j : TaskHelp(k, i) = TaskHelp(m, j) => k = m /\ i = j
  BY DEF ProcHelp, TaskHelp

HelperSorted ==
  /\ \A p \in Procs : ProcHelp(p) \in Helpers <=> Ready(p)
  /\ \A k \in 0..Retries, i \in Nat \ {0} : TaskHelp(k, i) \in Helpers <=> i <= tasks[k]
  /\ \A h \in Helpers : \/ \E p \in Procs : h = ProcHelp(p)
                        \/ \E k \in 0..Retries, i \in Nat \ {0} : h = TaskHelp(k, i)

LEMMA HelperSorts == HelperSorted
  <1>1. \A k \in 0..Retries, i \in Nat \ {0} : <<k, i>> \in TasksWaiting <=> i <= tasks[k]
    BY DEF TasksWaiting
  <1>2. \A t \in TasksWaiting : t[1] \in 0..Retries /\ t[2] \in Nat \ {0} /\ t = <<t[1], t[2]>>
    BY DEF TasksWaiting
  <1>3. \A h : h \in Helpers <=> \/ \E p \in Procs : Ready(p) /\ h = ProcHelp(p)
                                 \/ \E t \in TasksWaiting : h = TaskHelp(t[1], t[2])
    BY DEF Helpers
  <1>4. \A p \in Procs : ProcHelp(p) \in Helpers <=> Ready(p)
    BY <1>3, HelpsDistinct
  <1>5. ASSUME NEW k \in 0..Retries, NEW i \in Nat \ {0}
        PROVE  TaskHelp(k, i) \in Helpers <=> <<k, i>> \in TasksWaiting
    <2>1. ASSUME <<k, i>> \in TasksWaiting
          PROVE  TaskHelp(k, i) \in Helpers
      <3>1. <<k, i>>[1] = k /\ <<k, i>>[2] = i
        OBVIOUS
      <3> QED
        BY <1>3, <2>1, <3>1
    <2>2. ASSUME TaskHelp(k, i) \in Helpers
          PROVE  <<k, i>> \in TasksWaiting
      <3>1. PICK t \in TasksWaiting : TaskHelp(k, i) = TaskHelp(t[1], t[2])
        BY <1>3, <2>2, HelpsDistinct
      <3>2. k = t[1] /\ i = t[2]
        BY <3>1, HelpsDistinct
      <3> QED
        BY <1>2, <3>1, <3>2
    <2> QED
      BY <2>1, <2>2
  <1>6. \A h \in Helpers : \/ \E p \in Procs : h = ProcHelp(p)
                           \/ \E k \in 0..Retries, i \in Nat \ {0} : h = TaskHelp(k, i)
    BY <1>2, <1>3
  <1> QED
    BY <1>1, <1>4, <1>5, <1>6 DEF HelperSorted

\* The same of the state after a step.
LEMMA HelperSortsPrimed == HelperSorted'
  BY HelperSorts, PTL

\* A step of p takes no helper away but p.
LEMMA HelpersKept ==
  ASSUME TypeOK, TypeOK', NEW p \in Procs,
         \A q \in Procs \ {p} : pc'[q] = pc[q] /\ sent'[q] = sent[q],
         UNCHANGED tasks \/ \A k \in 0..Retries : tasks[k] <= tasks'[k]
  PROVE  Helpers \ {ProcHelp(p)} \subseteq Helpers'
  <1>1. ASSUME NEW h \in Helpers, h # ProcHelp(p)
        PROVE  h \in Helpers'
    <2>1. ASSUME NEW q \in Procs, h = ProcHelp(q)
          PROVE  h \in Helpers'
      BY <1>1, <2>1, HelperSorts, HelperSortsPrimed DEF Ready, HelperSorted
    <2>2. ASSUME NEW k \in 0..Retries, NEW i \in Nat \ {0}, h = TaskHelp(k, i)
          PROVE  h \in Helpers'
      <3>1. tasks[k] \in Nat /\ tasks'[k] \in Nat
        BY DEF TypeOK
      <3>2. i <= tasks[k] /\ (tasks[k] = tasks'[k] \/ tasks[k] <= tasks'[k])
        BY <1>1, <2>2, HelperSorts DEF HelperSorted
      <3>3. i <= tasks'[k]
        BY <3>1, <3>2
      <3> QED
        BY <2>2, <3>3, HelperSortsPrimed DEF HelperSorted
    <2> QED
      BY <1>1, <2>1, <2>2, HelperSorts DEF HelperSorted
  <1> QED
    BY <1>1

\* A step that sends a new task to the broker, p standing back.
LEMMA NewTaskHelps ==
  ASSUME TypeOK, TypeOK', NEW p \in Procs,
         \A q \in Procs \ {p} : pc'[q] = pc[q] /\ sent'[q] = sent[q],
         NEW k \in 0..Retries, tasks' = [tasks EXCEPT ![k] = @ + 1]
  PROVE  \E h : h \notin Helpers /\ (Helpers \ {ProcHelp(p)}) \cup {h} \subseteq Helpers'
  <1> DEFINE h == TaskHelp(k, tasks[k] + 1)
  <1>1. tasks[k] + 1 \in Nat \ {0} /\ ~(tasks[k] + 1 <= tasks[k]) /\ tasks'[k] = tasks[k] + 1
    <2>1. tasks \in [0..Retries -> Nat]
      BY DEF TypeOK
    <2>2. tasks[k] \in Nat /\ tasks'[k] = tasks[k] + 1
      BY <2>1
    <2> QED
      BY <2>2
  <1>2. h \notin Helpers
    BY <1>1, HelperSorts DEF HelperSorted
  <1>3. h \in Helpers'
    BY <1>1, HelperSortsPrimed DEF HelperSorted
  <1>4. \A m \in 0..Retries : tasks[m] <= tasks'[m]
    <2>1. tasks \in [0..Retries -> Nat]
      BY DEF TypeOK
    <2>2. \A m \in 0..Retries : tasks'[m] = IF m = k THEN tasks[m] + 1 ELSE tasks[m]
      BY <2>1
    <2> QED
      BY <2>1, <2>2
  <1>5. Helpers \ {ProcHelp(p)} \subseteq Helpers'
    BY <1>4, HelpersKept
  <1> QED
    BY <1>2, <1>3, <1>5

\* A worker takes the place of the task it starts.
LEMMA StartedTaskHelps ==
  ASSUME TypeOK, TypeOK', NEW p \in Procs, NEW k \in 0..Retries, StartTask(p, k)
  PROVE  \E h : /\ ProcHelp(p) \notin Helpers
                /\ (Helpers \ {h}) \cup {ProcHelp(p)} \subseteq Helpers'
  <1> DEFINE h == TaskHelp(k, tasks[k])
  <1>1. pc[p] = "idle" /\ pc'[p] = "pick" /\ sent'[p] = 0
    BY DEF StartTask, EnterLoop, Goto, TypeOK
  <1>2. ProcHelp(p) \notin Helpers
    BY <1>1, HelperSorts DEF Ready, HelperSorted
  <1>3. ProcHelp(p) \in Helpers'
    BY <1>1, HelperSortsPrimed, NatAssumption DEF Ready, HelperSorted
  <1>4. ASSUME NEW g \in Helpers, g # h
        PROVE  g \in Helpers'
    <2>1. ASSUME NEW q \in Procs, g = ProcHelp(q)
          PROVE  g \in Helpers'
      <3>1. Ready(q) /\ q # p
        BY <1>2, <2>1, HelperSorts DEF HelperSorted
      <3>2. pc'[q] = pc[q] /\ sent'[q] = sent[q]
        BY <3>1 DEF StartTask, EnterLoop, Goto, TypeOK
      <3> QED
        BY <2>1, <3>1, <3>2, HelperSortsPrimed DEF Ready, HelperSorted
    <2>2. ASSUME NEW m \in 0..Retries, NEW i \in Nat \ {0}, g = TaskHelp(m, i)
          PROVE  g \in Helpers'
      <3>1. i <= tasks[m] /\ tasks[m] \in Nat
        BY <2>2, HelperSorts DEF TypeOK, HelperSorted
      <3>2. m = k => i # tasks[k]
        BY <1>4, <2>2
      <3>3. tasks'[m] = IF m = k THEN tasks[m] - 1 ELSE tasks[m]
        BY DEF StartTask, TypeOK
      <3>4. i <= tasks'[m]
        BY <3>1, <3>2, <3>3
      <3> QED
        BY <2>2, <3>4, HelperSortsPrimed DEF HelperSorted
    <2> QED
      BY <2>1, <2>2, HelperSorts DEF HelperSorted
  <1> QED
    BY <1>2, <1>3, <1>4

LEMMA UnheldOnes ==
  \A e : e \in Unheld <=> e \in Emails /\ row[e] = "queued" /\ \A p \in Procs : mail[p] # e
  BY EmailsNotNone DEF Unheld, Queued, Locked

LEMMA UnheldOnesPrimed ==
  \A e : e \in Unheld' <=> e \in Emails /\ row'[e] = "queued" /\ \A p \in Procs : mail'[p] # e
  BY EmailsNotNone DEF Unheld, Queued, Locked

\* Until there is a failure other than a database error nothing is put off ...
AllDue == WithinRetries => \A e \in Emails : due[e]

\* ... and where there are only database errors, a task has as many retries left as
\* they leave it.
OnlyDatabase == Events \subseteq {"database", "purge"}

Budget ==
  OnlyDatabase =>
    /\ \A k \in 0..Retries : tasks[k] > 0 => k + mishaps >= Retries
    /\ \A p \in Procs : pc[p] \in {"pick", "send", "record"} => tries[p] + mishaps >= Retries

Helped == WithinRetries => Injects(Unheld, Helpers)

LEMMA WithinBefore ==
  ASSUME TypeOK, [Next]_vars, WithinRetries'
  PROVE  WithinRetries
  <1>1. mishaps \in Nat /\ mishaps' \in {mishaps, mishaps + 1}
    BY NatAssumption
       DEF TypeOK, Next, vars, Enqueue, Hook, Trigger, TriggerFallback, Start, StartTask,
           RunCommand, Loop, Pick, LeaveLoop, Send, Record, Refused, Crash, DatabaseError,
           Mishap, MinutePasses, Purge
  <1> QED
    BY <1>1, NatAssumption DEF WithinRetries

LEMMA AllDueStep ==
  ASSUME TypeOK, AllDue, [Next]_vars
  PROVE  AllDue'
  <1> SUFFICES ASSUME WithinRetries'
               PROVE  \A e \in Emails : due'[e]
    BY DEF AllDue
  <1>1. \A e \in Emails : due[e]
    BY WithinBefore DEF AllDue
  <1>2. CASE UNCHANGED due
    BY <1>1, <1>2
  <1>3. ASSUME NEW e \in Emails, MinutePasses(e)
        PROVE  FALSE
    BY <1>1, <1>3 DEF MinutePasses
  <1>4. ASSUME NEW p \in Procs, Refused(p)
        PROVE  FALSE
    <2>1. mishaps \in Nat /\ mishaps' = mishaps + 1
      BY <1>4, NatAssumption DEF Refused, Mishap, TypeOK
    <2> QED
      BY <1>4, <2>1 DEF Refused, WithinRetries
  <1> QED
    BY <1>2, <1>3, <1>4
       DEF Next, vars, rowVars, Enqueue, Hook, Trigger, TriggerFallback, Start, StartTask,
           RunCommand, Loop, Pick, LeaveLoop, Send, Record, Crash, DatabaseError, RollBack, Purge

LEMMA BudgetStep ==
  ASSUME Inv, Budget, [Next]_vars
  PROVE  Budget'
  <1> SUFFICES ASSUME OnlyDatabase
               PROVE  /\ \A k \in 0..Retries : tasks'[k] > 0 => k + mishaps' >= Retries
                      /\ \A p \in Procs : pc'[p] \in {"pick", "send", "record"} =>
                           tries'[p] + mishaps' >= Retries
    BY DEF Budget
  <1> USE NatAssumption
  <1>0. /\ \A k \in 0..Retries : tasks[k] \in Nat /\ (tasks[k] > 0 => k + mishaps >= Retries)
        /\ \A p \in Procs : /\ tries[p] \in 0..Retries
                            /\ pc[p] \in {"pick", "send", "record"} =>
                                 tries[p] + mishaps >= Retries
        /\ mishaps \in Nat
    BY DEF Inv, TypeOK, Budget
  <1>1. ASSUME UNCHANGED <<tasks, tries, mishaps>>,
               NEW p \in Procs, NEW label \in {"idle", "hook", "pick", "send", "record"},
               Goto(p, label), label \in {"idle", "hook"} \/ pc[p] \in {"pick", "send", "record"}
        PROVE  Budget'
    BY <1>0, <1>1 DEF Goto, Inv, TypeOK, Budget
  <1>2. ASSUME UNCHANGED <<tasks, tries, mishaps, pc>>
        PROVE  Budget'
    BY <1>0, <1>2 DEF Budget
  <1>3. ASSUME NEW p \in Procs, Trigger(p)
        PROVE  Budget'
    <2>1. \A k \in 0..Retries : tasks'[k] = IF k = Retries THEN tasks[k] + 1 ELSE tasks[k]
      BY <1>3 DEF Trigger, Inv, TypeOK
    <2>2. UNCHANGED <<tries, mishaps>> /\ \A q \in Procs : pc'[q] \in {"idle", pc[q]}
      BY <1>3 DEF Trigger, Goto, Inv, TypeOK
    <2> QED
      BY <1>0, <2>1, <2>2 DEF Budget
  <1>4. ASSUME NEW p \in Procs, NEW k \in 0..Retries, StartTask(p, k)
        PROVE  Budget'
    <2>1. \A m \in 0..Retries : tasks'[m] = IF m = k THEN tasks[m] - 1 ELSE tasks[m]
      BY <1>4 DEF StartTask, Inv, TypeOK
    <2>2. \A q \in Procs : IF q = p THEN tries'[q] = k
                                     ELSE tries'[q] = tries[q] /\ pc'[q] = pc[q]
      BY <1>4 DEF StartTask, EnterLoop, Goto, Inv, TypeOK
    <2>3. mishaps' = mishaps /\ k + mishaps >= Retries
      BY <1>0, <1>4 DEF StartTask
    <2> QED
      BY <1>0, <2>1, <2>2, <2>3 DEF Budget
  <1>5. ASSUME NEW p \in Procs, DatabaseError(p)
        PROVE  Budget'
    <2>1. mishaps' = mishaps + 1 /\ tries' = tries
      BY <1>5 DEF DatabaseError, Mishap, RollBack
    <2>2. \A q \in Procs : pc'[q] \in {"idle", pc[q]}
      BY <1>5 DEF DatabaseError, RollBack, Goto, Inv, TypeOK
    <2>3. tries[p] + mishaps >= Retries
      BY <1>0, <1>5 DEF DatabaseError
    <2>4. \A k \in 0..Retries : tasks'[k] > 0 => tasks[k] > 0 \/ k = tries[p] - 1
      BY <1>0, <1>5 DEF DatabaseError, Inv, TypeOK
    <2> QED
      BY <1>0, <2>1, <2>2, <2>3, <2>4 DEF Budget
  <1>6. ASSUME NEW p \in Procs,
               TriggerFallback(p) \/ RunCommand(p) \/ Refused(p) \/ Crash(p)
        PROVE  FALSE
    BY <1>6 DEF TriggerFallback, RunCommand, Refused, Crash, OnlyDatabase
  <1>7. Budget'
    BY <1>1, <1>2, <1>3, <1>4, <1>5, <1>6
       DEF Next, vars, procVars, Enqueue, Hook, Start, Loop, Pick, LeaveLoop, Send, Record,
           MinutePasses, Purge
  <1> QED
    BY <1>7 DEF Budget

LEMMA QueueingHelps ==
  ASSUME Inv, TypeOK', Injects(Unheld, Helpers), NEW p \in Procs,
         \/ \E e \in Emails : Enqueue(p, e)
         \/ Hook(p) \/ Start(p) \/ RunCommand(p)
  PROVE  Injects(Unheld, Helpers)'
  <1> USE DEF Inv
  <1>1. ASSUME NEW e \in Emails, Enqueue(p, e)
        PROVE  Injects(Unheld', Helpers')
    <2>1. pc[p] = "idle" /\ pc'[p] = "hook"
      BY <1>1 DEF Enqueue, Goto, TypeOK
    <2>2. ProcHelp(p) \notin Helpers /\ ProcHelp(p) \in Helpers'
      BY <2>1, HelperSorts, HelperSortsPrimed DEF HelperSorted, Ready
    <2>3. Helpers \subseteq Helpers'
      BY <1>1, <2>2, HelpersKept DEF Enqueue, Goto, TypeOK
    <2>4. Unheld' \subseteq Unheld \cup {e}
      BY <1>1, UnheldOnes, UnheldOnesPrimed DEF Enqueue, TypeOK
    <2>5. Injects(Unheld \cup {e}, Helpers \cup {ProcHelp(p)})
      BY <2>2, InjectsMore
    <2> QED
      BY <2>2, <2>3, <2>4, <2>5, InjectsWider
  <1>2. ASSUME UNCHANGED <<row, mail>>
        PROVE  Unheld' = Unheld
    BY <1>2, UnheldOnes, UnheldOnesPrimed
  <1>3. CASE Trigger(p)
    <2>1. Retries \in 0..Retries
      BY NatAssumption
    <2>2. PICK h : h \notin Helpers /\ (Helpers \ {ProcHelp(p)}) \cup {h} \subseteq Helpers'
      BY <1>3, <2>1, NewTaskHelps DEF Trigger, Goto, TypeOK
    <2>3. Injects(Unheld, (Helpers \ {ProcHelp(p)}) \cup {h})
      BY <2>2, InjectsSwap
    <2> QED
      BY <1>2, <1>3, <2>2, <2>3, InjectsWider DEF Trigger, rowVars
  <1>4. CASE TriggerFallback(p) \/ RunCommand(p)
    <2>1. EnterLoop(p, 0) /\ UNCHANGED <<row, mail, tasks>>
      BY <1>4 DEF TriggerFallback, RunCommand, EnterLoop, rowVars
    <2>2. /\ pc'[p] = "pick" /\ sent'[p] = 0
          /\ \A q \in Procs \ {p} : pc'[q] = pc[q] /\ sent'[q] = sent[q]
      BY <2>1 DEF EnterLoop, Goto, TypeOK
    <2>3. ProcHelp(p) \in Helpers'
      BY <2>2, HelperSortsPrimed, NatAssumption DEF HelperSorted, Ready
    <2>4. Helpers \subseteq Helpers'
      BY <2>1, <2>2, <2>3, HelpersKept
    <2> QED
      BY <1>2, <2>1, <2>4, InjectsWider
  <1>5. ASSUME NEW k \in 0..Retries, StartTask(p, k)
        PROVE  Injects(Unheld', Helpers')
    <2>1. PICK h : /\ ProcHelp(p) \notin Helpers
                   /\ (Helpers \ {h}) \cup {ProcHelp(p)} \subseteq Helpers'
      BY <1>5, StartedTaskHelps
    <2>2. Injects(Unheld, (Helpers \ {h}) \cup {ProcHelp(p)})
      BY <2>1, InjectsSwap
    <2> QED
      BY <1>2, <1>5, <2>1, <2>2, InjectsWider DEF StartTask, EnterLoop, rowVars
  <1> QED
    BY <1>1, <1>3, <1>4, <1>5 DEF Hook, Start

\* A delivery call leaves the loop with nothing to send, or with its limit reached: it
\* then helps nobody any more.
LEMMA LoopHelps ==
  ASSUME Inv, TypeOK', \A e \in Emails : due[e], Injects(Unheld, Helpers),
         NEW p \in Procs, Loop(p)
  PROVE  Injects(Unheld, Helpers)'
  <1> USE DEF Inv
  <1>1. CASE Pick(p)
    <2>1. PICK e \in Candidates : mail' = [mail EXCEPT ![p] = e]
      BY <1>1 DEF Pick
    <2>2. e \in Unheld /\ mail[p] = None
      BY <1>1, <2>1, HoldsNothing DEF Candidates, Unheld, Pick
    <2>3. Unheld' \subseteq Unheld \ {e}
      BY <1>1, <2>1, <2>2, EmailsNotNone, UnheldOnes, UnheldOnesPrimed DEF Pick, rowVars, TypeOK
    <2>4. Helpers \ {ProcHelp(p)} \subseteq Helpers'
      BY <1>1, HelpersKept DEF Pick, Goto, TypeOK
    <2>5. Injects(Unheld \ {e}, Helpers \ {ProcHelp(p)})
      BY <2>2, InjectsLess
    <2> QED
      BY <2>3, <2>4, <2>5, InjectsWider
  <1>2. CASE LeaveLoop(p)
    <2>0. Unheld' = Unheld
      BY <1>2, UnheldOnes, UnheldOnesPrimed DEF LeaveLoop, rowVars
    <2>1. CASE Candidates = {}
      <3>1. Unheld = {}
        BY <2>1, UnheldOnes DEF Candidates, Unheld, Queued
      <3> QED
        BY <2>0, <3>1, InjectsNone
    <2>2. CASE sent[p] >= Limit
      <3>0. sent[p] \in Nat /\ ~(sent[p] < Limit)
        BY <2>2, NatAssumption DEF TypeOK
      <3>1. ProcHelp(p) \notin Helpers
        BY <1>2, <3>0, HelperSorts DEF LeaveLoop, HelperSorted, Ready
      <3>2. Helpers \subseteq Helpers'
        BY <1>2, <3>1, HelpersKept DEF LeaveLoop, Goto, TypeOK
      <3> QED
        BY <2>0, <3>2, InjectsWider
    <2> QED
      BY <1>2, <2>1, <2>2 DEF LeaveLoop
  <1>3. CASE Send(p) \/ Record(p)
    <2>1. pc[p] \in {"send", "record"} /\ mail[p] \in Emails
      BY <1>3, HolderOwns DEF Send, Record
    <2>2. ProcHelp(p) \notin Helpers
      BY <2>1, HelperSorts DEF HelperSorted, Ready
    <2>3. Helpers \subseteq Helpers'
      BY <1>3, <2>2, HelpersKept DEF Send, Record, Goto, TypeOK
    <2>4. ASSUME NEW e \in Unheld'
          PROVE  e \in Unheld
      <3>1. e \in Emails /\ row'[e] = "queued" /\ \A q \in Procs : mail'[q] # e
        BY <2>4, UnheldOnesPrimed
      <3>2. row[e] = "queued" /\ \A q \in Procs : mail[q] # e
        BY <1>3, <2>1, <3>1 DEF Send, Record, Release, rowVars, TypeOK
      <3> QED
        BY <3>1, <3>2, UnheldOnes
    <2> QED
      BY <2>3, <2>4, InjectsWider
  <1> QED
    BY <1>1, <1>2, <1>3 DEF Loop

\* A database error within the retries gives the message back with the task that will
\* serve it.
LEMMA ErrorHelps ==
  ASSUME Inv, TypeOK', Injects(Unheld, Helpers),
         NEW p \in Procs, DatabaseError(p), tries[p] > 0
  PROVE  Injects(Unheld, Helpers)'
  <1> USE DEF Inv
  <1>1. tries[p] - 1 \in 0..Retries
    <2>1. tries[p] \in 0..Retries
      BY DEF TypeOK
    <2> HIDE DEF Inv
    <2> QED
      BY <2>1, NatAssumption
  <1>2. PICK h : h \notin Helpers /\ (Helpers \ {ProcHelp(p)}) \cup {h} \subseteq Helpers'
    BY <1>1, NewTaskHelps DEF DatabaseError, RollBack, Goto, TypeOK
  <1>3. CASE pc[p] = "pick"
    <2>1. mail[p] = None
      BY <1>3, HoldsNothing
    <2>2. Unheld' = Unheld
      <3>1. mail' = mail /\ row' = row
        BY <2>1 DEF DatabaseError, RollBack, Release, rowVars, TypeOK
      <3> QED
        BY <3>1, UnheldOnes, UnheldOnesPrimed
    <2>3. Injects(Unheld, (Helpers \ {ProcHelp(p)}) \cup {h})
      BY <1>2, InjectsSwap
    <2> QED
      BY <1>2, <2>2, <2>3, InjectsWider
  <1>4. CASE pc[p] \in {"send", "record"}
    <2>1. ProcHelp(p) \notin Helpers
      BY <1>4, HelperSorts DEF HelperSorted, Ready
    <2>2. Unheld' \subseteq Unheld \cup {mail[p]}
      BY UnheldOnes, UnheldOnesPrimed DEF DatabaseError, RollBack, Release, rowVars, TypeOK
    <2>3. Injects(Unheld \cup {mail[p]}, Helpers \cup {h})
      BY <1>2, InjectsMore
    <2> QED
      BY <1>2, <2>1, <2>2, <2>3, InjectsWider
  <1> QED
    BY <1>3, <1>4 DEF DatabaseError

LEMMA HelpedStep ==
  ASSUME Inv, Inv', AllDue, Budget, Helped, [Next]_vars
  PROVE  Helped'
  <1> SUFFICES ASSUME WithinRetries'
               PROVE  Injects(Unheld', Helpers')
    BY DEF Helped
  <1>0. TypeOK /\ TypeOK' /\ Injects(Unheld, Helpers) /\ \A e \in Emails : due[e]
    BY WithinBefore DEF Inv, AllDue, Helped
  <1>1. ASSUME NEW p \in Procs, Refused(p) \/ Crash(p)
        PROVE  FALSE
    <2>1. mishaps' # 0
      BY <1>0, <1>1, NatAssumption DEF Refused, Crash, Mishap, TypeOK
    <2> QED
      BY <1>1, <2>1 DEF Refused, Crash, WithinRetries
  <1>2. ASSUME NEW p \in Procs, DatabaseError(p)
        PROVE  Injects(Unheld', Helpers')
    <2>1. mishaps \in Nat /\ mishaps' = mishaps + 1 /\ tries[p] \in 0..Retries
      BY <1>0, <1>2, NatAssumption DEF DatabaseError, Mishap, TypeOK
    <2>2. OnlyDatabase /\ mishaps + 1 <= Retries
      BY <2>1 DEF WithinRetries, OnlyDatabase
    <2>3. tries[p] + mishaps >= Retries
      BY <1>2, <2>2 DEF Budget, DatabaseError
    <2>4. tries[p] > 0
      BY <2>1, <2>2, <2>3, NatAssumption
    <2> QED
      BY <1>0, <1>2, <2>4, ErrorHelps
  <1>3. ASSUME Unheld' \subseteq Unheld, UNCHANGED <<pc, sent, tasks>>
        PROVE  Injects(Unheld', Helpers')
    <2>1. Helpers' = Helpers
      BY <1>3 DEF Helpers, TasksWaiting, Ready
    <2> QED
      BY <1>0, <1>3, <2>1, InjectsWider
  <1>4. ASSUME NEW e \in Emails, MinutePasses(e) \/ Purge(e)
        PROVE  Injects(Unheld', Helpers')
    <2>1. UNCHANGED <<pc, mail, sent, tasks>>
      BY <1>4 DEF MinutePasses, Purge, procVars
    <2>2. \A d \in Emails : row'[d] \in {row[d], "purged"}
      BY <1>0, <1>4 DEF MinutePasses, Purge, TypeOK
    <2>3. Unheld' \subseteq Unheld
      BY <2>1, <2>2, UnheldOnes, UnheldOnesPrimed
    <2> QED
      BY <1>3, <2>1, <2>3
  <1>5. CASE UNCHANGED vars
    BY <1>3, <1>5, UnheldOnes, UnheldOnesPrimed DEF vars, rowVars, procVars
  <1> QED
    BY <1>0, <1>1, <1>2, <1>4, <1>5, QueueingHelps, LoopHelps DEF Next

\* However calls are cut off by their limit, skip what others hold and take one another's
\* messages, and whatever the purge deletes meanwhile, no message is left waiting without
\* a call to come, before the first failure and while database errors stay within the
\* retries of the task.
THEOREM NothingIsStranded == Spec => []NothingStranded
  <1>1. Init => AllDue /\ Budget /\ Helped
    <2> SUFFICES ASSUME Init
                 PROVE  AllDue /\ Budget /\ Helped
      OBVIOUS
    <2>1. AllDue /\ Budget
      BY DEF Init, AllDue, Budget
    <2>2. Unheld = {}
      BY UnheldOnes DEF Init
    <2>3. Injects({}, Helpers)
      BY InjectsNone
    <2> QED
      BY <2>1, <2>2, <2>3 DEF Helped
  <1>2. Inv /\ Inv' /\ AllDue /\ Budget /\ Helped /\ [Next]_vars => AllDue' /\ Budget' /\ Helped'
    BY AllDueStep, BudgetStep, HelpedStep DEF Inv
  <1>3. Inv /\ Helped => NothingStranded
    <2> SUFFICES ASSUME Inv, Injects(Unheld, Helpers), Quiet, NEW e \in Queued
                 PROVE  FALSE
      BY DEF NothingStranded, Helped
    <2>1. \A p \in Procs : pc[p] = "idle" /\ mail[p] = None
      BY HoldsNothing DEF Quiet
    <2>2. e \in Unheld
      BY <2>1, EmailsNotNone, UnheldOnes DEF Queued
    <2>3. Helpers = {}
      BY <2>1, HelperSorts DEF HelperSorted, Ready, Quiet
    <2> QED
      BY <2>2, <2>3 DEF Injects
  <1> QED
    BY <1>1, <1>2, <1>3, InvAlways, PTL DEF Spec
===============================================================================
