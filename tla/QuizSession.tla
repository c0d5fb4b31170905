----------------------------- MODULE QuizSession ------------------------------
(***************************************************************************)
(* One quiz session of one learner: started once, answered until it is     *)
(* closed or its time is up, then scored.                                  *)
(*                                                                         *)
(* start and close lock the row of the session; the requests that write an *)
(* answer, and the GET that scores a session found closed, do not: they    *)
(* look at the session, and write later.  A request is cut wherever        *)
(* another one can act in between.  The rows are those of one session; a   *)
(* template that shuffles its questions or caps their number is left out.  *)
(***************************************************************************)
EXTENDS Naturals, FiniteSets

CONSTANTS
  Questions,     \* what may be in the template
  Writers,       \* requests that write an answer
  Viewers,       \* GET and close requests
  WithDuration,  \* the template's with_duration
  Duration,      \* the template's duration
  TemplateEnd,   \* the template's ended_at, or NoTime
  Horizon,       \* bound: how long after the start a session is watched
  NoTime         \* NULL

ASSUME QuestionsAssumption == IsFiniteSet(Questions)
ASSUME TimesAssumption ==
  /\ WithDuration \in BOOLEAN
  /\ Duration \in Nat /\ Horizon \in Nat
  /\ TemplateEnd \in Nat \cup {NoTime}
ASSUME NoTimeAssumption == NoTime \notin Nat

VARIABLES
  clock,                   \* timezone.now(), from the start of the session
  open,                    \* the template's can_answer
  place,                   \* place[q]: position of q in the session, 0 when not in the template
  started, ended, active,  \* the Quiz row
  rows,                    \* questions with a QuizQuestionAnswer
  order, pick, mark,       \* its question_order, its selection, is_correct and the score
  late,                    \* rows written since the session was closed, or during a close
  post,                    \* the answer request in progress
  stage, gaps, plan,       \* the GET or close request in progress: answers to create, marks to write
  closings, notices        \* closes that committed, completion mails queued

templateVars == <<open, place>>
quizVars == <<started, ended, active>>
rowVars == <<rows, order, pick, mark, late>>
viewVars == <<stage, gaps, plan>>
countVars == <<closings, notices>>
vars == <<clock, templateVars, quizVars, rowVars, post, viewVars, countVars>>

Picks == {"right", "wrong"}   \* "right": exactly the correct options are selected
Times == Nat \cup {NoTime}
Stages == {"idle", "fill", "reread", "save", "closing", "notify"}

Posts == [step : {"look", "insert", "edit"}, q : Questions, pick : Picks,
          at : Nat, until : Times, pos : Nat]
NoPost == [step |-> "idle"]

\* The orders in which the template may hold some of the questions.
Placements ==
  {f \in [Questions -> 0..Cardinality(Questions)] :
     {f[q] : q \in Questions} \ {0} = 1..Cardinality({q \in Questions : f[q] > 0})}

-----------------------------------------------------------------------------
(* The session *)

Locked == \E v \in Viewers : stage[v] = "closing"

Earlier(s, t) == IF t = NoTime \/ s < t THEN s ELSE t

\* Quiz.save gives a timed session its end as it starts.
SessionEnd(t) == IF WithDuration THEN Earlier(t + Duration, TemplateEnd) ELSE NoTime

Before(end) == end # NoTime => clock <= end

CanAnswer == active /\ started # NoTime /\ open /\ Before(ended)

\* expire_if_needed finds the time up ...
Due == active /\ ended # NoTime /\ clock >= ended

\* ... and clears active, waiting for a close that holds the row.
ExpireIfNeeded ==
  /\ Due => ~Locked
  /\ active' = (active /\ ~Due)

\* Faulty form: started_at is missing from the fields that are saved.
StartUnstamped ==
  /\ ~Locked
  /\ open
  /\ started = NoTime
  /\ ended' = SessionEnd(clock)
  /\ active' = TRUE
  /\ UNCHANGED <<clock, templateVars, started, rowVars, post, viewVars, countVars>>

\* Faulty form: a session that was started before is started again.
StartAgain ==
  /\ ~Locked
  /\ open
  /\ started' = clock
  /\ ended' = SessionEnd(clock)
  /\ active' = TRUE
  /\ UNCHANGED <<clock, templateVars, rowVars, post, viewVars, countVars>>

\* start locks the row, and leaves a session that was started as it is.
Start ==
  /\ ~Locked
  /\ open
  /\ started = NoTime
  /\ started' = clock
  /\ ended' = SessionEnd(clock)
  /\ active' = TRUE
  /\ UNCHANGED <<clock, templateVars, rowVars, post, viewVars, countVars>>

\* A start or an answer that comes too late: it is refused, and has closed the session.
TooLate ==
  /\ Due
  /\ ExpireIfNeeded
  /\ UNCHANGED <<clock, templateVars, started, ended, rowVars, post, viewVars, countVars>>

-----------------------------------------------------------------------------
(* Writing an answer *)

PositionFree(n, q) == \A p \in rows \ {q} : order[p] # n

\* Faulty form: the serializer does not ask whether the session can be answered.
AdmitUnchecked(w, step, q, p) ==
  /\ post[w] = NoPost
  /\ post' = [post EXCEPT ![w] =
       [step |-> step, q |-> q, pick |-> p, at |-> clock, until |-> ended, pos |-> 0]]
  /\ UNCHANGED <<clock, templateVars, quizVars, rowVars, viewVars, countVars>>

\* The request has been admitted: its serializer found that the session can be answered.
Admit(w, step, q, p) ==
  /\ post[w] = NoPost
  /\ ~Due /\ CanAnswer
  /\ post' = [post EXCEPT ![w] =
       [step |-> step, q |-> q, pick |-> p, at |-> clock, until |-> ended, pos |-> 0]]
  /\ UNCHANGED <<clock, templateVars, quizVars, rowVars, viewVars, countVars>>

AdmitPost(w, q, p) == place[q] > 0 /\ Admit(w, "look", q, p)
AdmitEdit(w, q, p) == q \in rows /\ Admit(w, "edit", q, p)

Finish(w) == post' = [post EXCEPT ![w] = NoPost]

\* selected_options.set(...)
Select(w) ==
  LET q == post[w].q IN
    /\ pick' = [pick EXCEPT ![q] = post[w].pick]
    /\ late' = IF ~active \/ Locked THEN late \cup {q} ELSE late \ {q}

\* create finds the row, and refuses to move it when the session is over or the
\* position taken: full_clean is part of its save.
LookFound(w) ==
  LET q == post[w].q IN
    /\ post[w].step = "look"
    /\ q \in rows
    /\ IF order[q] = place[q] \/ (CanAnswer /\ PositionFree(place[q], q))
         THEN order' = [order EXCEPT ![q] = place[q]] /\ Select(w)
         ELSE UNCHANGED <<order, pick, late>>
    /\ Finish(w)
    /\ UNCHANGED <<clock, templateVars, quizVars, rows, mark, viewVars, countVars>>

\* full_clean looks at the clock, but at the session as it was when it was read.
LookMissing(w) ==
  /\ post[w].step = "look"
  /\ post[w].q \notin rows
  /\ IF Before(post[w].until)
       THEN post' = [post EXCEPT ![w].step = "insert", ![w].pos = place[post[w].q]]
       ELSE Finish(w)
  /\ UNCHANGED <<clock, templateVars, quizVars, rowVars, viewVars, countVars>>

\* A row that appeared since makes the insert fail.
InsertFits(w) ==
  /\ post[w].q \notin rows
  /\ PositionFree(post[w].pos, post[w].q)

\* Its foreign key makes the insert wait for a close.
Insert(w) ==
  /\ post[w].step = "insert"
  /\ ~Locked
  /\ IF InsertFits(w)
       THEN /\ rows' = rows \cup {post[w].q}
            /\ order' = [order EXCEPT ![post[w].q] = post[w].pos]
            /\ Select(w)
       ELSE UNCHANGED <<rows, order, pick, late>>
  /\ Finish(w)
  /\ UNCHANGED <<clock, templateVars, quizVars, mark, viewVars, countVars>>

Edit(w) ==
  /\ post[w].step = "edit"
  /\ Select(w)
  /\ Finish(w)
  /\ UNCHANGED <<clock, templateVars, quizVars, rows, order, mark, viewVars, countVars>>

-----------------------------------------------------------------------------
(* Rows that go away *)

RemoveRow(q) ==
  /\ rows' = rows \ {q}
  /\ order' = [order EXCEPT ![q] = 0]
  /\ pick' = [pick EXCEPT ![q] = "wrong"]
  /\ mark' = [mark EXCEPT ![q] = "unset"]
  /\ late' = late \ {q}

\* A request that holds the key of the row fails, whatever takes its place; a
\* mark for it is written nowhere.
Forget(q, steps) ==
  /\ post' = [w \in Writers |->
       IF post[w].step \in steps /\ post[w].q = q THEN NoPost ELSE post[w]]
  /\ plan' = [v \in Viewers |-> [plan[v] EXCEPT ![q] = "keep"]]

\* The endpoint does not ask whether the session can be answered.
DeleteAnswer(q) ==
  /\ q \in rows
  /\ ExpireIfNeeded
  /\ RemoveRow(q)
  /\ Forget(q, {"edit"})
  /\ UNCHANGED <<clock, templateVars, started, ended, stage, gaps, countVars>>

-----------------------------------------------------------------------------
(* Scoring *)

Gaps == [q \in Questions |-> IF q \notin rows THEN place[q] ELSE 0]
Missing(v) == {q \in Questions : gaps[v][q] > 0}

\* The marks to write: those that differ from what the selection is worth.
Plan == [q \in Questions |-> IF q \in rows /\ mark[q] # pick[q] THEN pick[q] ELSE "keep"]
Nothing == [q \in Questions |-> "keep"]
NoGaps == [q \in Questions |-> 0]

Apply(p) == mark' = [q \in Questions |-> IF p[q] # "keep" THEN p[q] ELSE mark[q]]

\* bulk_create respects both unique constraints.
Fits(v) ==
  \A q \in Missing(v) : q \notin rows /\ PositionFree(gaps[v][q], q)

FillRows(v) ==
  /\ rows' = rows \cup Missing(v)
  /\ order' = [q \in Questions |-> IF q \in Missing(v) THEN gaps[v][q] ELSE order[q]]

Goto(v, s) == stage' = [stage EXCEPT ![v] = s]

Stop(v) ==
  /\ Goto(v, "idle")
  /\ gaps' = [gaps EXCEPT ![v] = NoGaps]
  /\ plan' = [plan EXCEPT ![v] = Nothing]

\* v reads the answers: those to create, or else the marks to write.
Read(v) ==
  /\ gaps' = [gaps EXCEPT ![v] = Gaps]
  /\ plan' = [plan EXCEPT ![v] = IF Gaps = NoGaps THEN Plan ELSE Nothing]

Reconcile(v) ==
  /\ Read(v)
  /\ Goto(v, IF Gaps # NoGaps THEN "fill" ELSE IF Plan # Nothing THEN "save" ELSE "idle")

\* Faulty form: synchronize_closed_quiz_answers does not ask whether the session is closed.
GetOpen(v) ==
  /\ stage[v] = "idle"
  /\ started # NoTime
  /\ ExpireIfNeeded
  /\ Reconcile(v)
  /\ UNCHANGED <<clock, templateVars, started, ended, rowVars, post, countVars>>

\* retrieve: a session that is closed, or found to be over, is reconciled.
Get(v) ==
  /\ stage[v] = "idle"
  /\ started # NoTime
  /\ ~active \/ Due
  /\ ExpireIfNeeded
  /\ Reconcile(v)
  /\ UNCHANGED <<clock, templateVars, started, ended, rowVars, post, countVars>>

Fill(v) ==
  /\ stage[v] = "fill"
  /\ ~Locked
  /\ IF Fits(v)
       THEN /\ FillRows(v)
            /\ late' = late \cup Missing(v)
            /\ Goto(v, "reread")
            /\ UNCHANGED <<pick, mark, gaps, plan>>
       ELSE Stop(v) /\ UNCHANGED rowVars
  /\ UNCHANGED <<clock, templateVars, quizVars, post, countVars>>

Reread(v) ==
  /\ stage[v] = "reread"
  /\ gaps' = [gaps EXCEPT ![v] = NoGaps]
  /\ plan' = [plan EXCEPT ![v] = Plan]
  /\ Goto(v, "save")
  /\ UNCHANGED <<clock, templateVars, quizVars, rowVars, post, countVars>>

Save(v) ==
  /\ stage[v] = "save"
  /\ Apply(plan[v])
  /\ Stop(v)
  /\ UNCHANGED <<clock, templateVars, quizVars, rows, order, pick, late, post, countVars>>

-----------------------------------------------------------------------------
(* Closing *)

\* Faulty form: the session is read without its lock.
CloseUnlocked(v) ==
  /\ stage[v] = "idle"
  /\ started # NoTime /\ active
  /\ Goto(v, "closing")
  /\ Read(v)
  /\ UNCHANGED <<clock, templateVars, quizVars, rowVars, post, countVars>>

\* close locks the row; it does not look at the clock.
Close(v) ==
  /\ stage[v] = "idle"
  /\ ~Locked
  /\ started # NoTime /\ active
  /\ Goto(v, "closing")
  /\ Read(v)
  /\ UNCHANGED <<clock, templateVars, quizVars, rowVars, post, countVars>>

\* Faulty form: the end is the time of the close even when the session was over before.
CloseEndNow == clock
CloseEnd == IF ended = NoTime THEN clock ELSE Earlier(clock, ended)

\* After creating answers, the answers are read again; otherwise what was read first is scored.
CloseCommit(v) ==
  /\ stage[v] = "closing"
  /\ IF Fits(v)
       THEN /\ IF Missing(v) = {}
                 THEN Apply(plan[v]) /\ UNCHANGED <<rows, order>>
                 ELSE /\ FillRows(v)
                      /\ mark' = [q \in Questions |-> IF q \in rows' THEN pick[q] ELSE "unset"]
            /\ active' = FALSE
            /\ ended' = CloseEnd
            /\ closings' = closings + 1
            /\ Goto(v, "notify")
            /\ gaps' = [gaps EXCEPT ![v] = NoGaps]
            /\ plan' = [plan EXCEPT ![v] = Nothing]
       ELSE Stop(v) /\ UNCHANGED <<rows, order, mark, active, ended, closings>>
  /\ UNCHANGED <<clock, templateVars, started, pick, late, post, notices>>

\* The hook of the commit queues the mail; what follows is a GET like any other.
Notify(v) ==
  /\ stage[v] = "notify"
  /\ notices' = notices + 1
  /\ Goto(v, "idle")
  /\ UNCHANGED <<clock, templateVars, quizVars, rowVars, post, gaps, plan, closings>>

-----------------------------------------------------------------------------
(* Around the session *)

\* The process that serves the request dies; a transaction is rolled back.
CrashWriter(w) ==
  /\ post[w] # NoPost
  /\ Finish(w)
  /\ UNCHANGED <<clock, templateVars, quizVars, rowVars, viewVars, countVars>>

CrashViewer(v) ==
  /\ stage[v] # "idle"
  /\ Stop(v)
  /\ UNCHANGED <<clock, templateVars, quizVars, rowVars, post, countVars>>

\* The template is deactivated, reactivated, or its window opens or ends.
Reopen ==
  /\ open' = ~open
  /\ UNCHANGED <<clock, place, quizVars, rowVars, post, viewVars, countVars>>

\* A manager edits the questions; those of Kept stay in the order they were in.
Reorder(Q, Kept) ==
  \E f \in Placements :
    /\ {q \in Questions : f[q] > 0} = Q
    /\ \A p, q \in Kept : f[p] < f[q] <=> place[p] < place[q]
    /\ place' = f

InTemplate == {q \in Questions : place[q] > 0}

AddQuestion(q) ==
  /\ place[q] = 0
  /\ Reorder(InTemplate \cup {q}, InTemplate)
  /\ UNCHANGED <<clock, open, quizVars, rowVars, post, viewVars, countVars>>

MoveQuestion(q) ==
  /\ place[q] > 0
  /\ Reorder(InTemplate, InTemplate \ {q})
  /\ UNCHANGED <<clock, open, quizVars, rowVars, post, viewVars, countVars>>

\* The deletion cascades to the answers; requests that are about to create one fail.
DeleteQuestion(q) ==
  /\ place[q] > 0
  /\ Reorder(InTemplate \ {q}, InTemplate \ {q})
  /\ RemoveRow(q)
  /\ Forget(q, {"look", "insert", "edit"})
  /\ stage' = [v \in Viewers |-> IF gaps[v][q] > 0 /\ stage[v] \in {"fill", "closing"} THEN "idle" ELSE stage[v]]
  /\ gaps' = [v \in Viewers |-> IF gaps[v][q] > 0 THEN NoGaps ELSE gaps[v]]
  /\ UNCHANGED <<clock, open, quizVars, countVars>>

\* Bounds: time is counted from the start, up to Horizon.
Tick ==
  /\ started # NoTime
  /\ clock < Horizon
  /\ clock' = clock + 1
  /\ UNCHANGED <<templateVars, quizVars, rowVars, post, viewVars, countVars>>

-----------------------------------------------------------------------------
Init ==
  /\ clock = 0
  /\ open = TRUE
  /\ place \in {f \in Placements : \E q \in Questions : f[q] > 0}
  /\ started = NoTime /\ ended = NoTime /\ active = FALSE
  /\ rows = {} /\ late = {}
  /\ order = NoGaps
  /\ pick = [q \in Questions |-> "wrong"]
  /\ mark = [q \in Questions |-> "unset"]
  /\ post = [w \in Writers |-> NoPost]
  /\ stage = [v \in Viewers |-> "idle"]
  /\ gaps = [v \in Viewers |-> NoGaps]
  /\ plan = [v \in Viewers |-> Nothing]
  /\ closings = 0 /\ notices = 0

Write(w) ==
  \/ \E q \in Questions, p \in Picks : AdmitPost(w, q, p) \/ AdmitEdit(w, q, p)
  \/ LookFound(w) \/ LookMissing(w) \/ Insert(w) \/ Edit(w)
  \/ CrashWriter(w)

View(v) ==
  \/ Get(v) \/ Fill(v) \/ Reread(v) \/ Save(v)
  \/ Close(v) \/ CloseCommit(v) \/ Notify(v)
  \/ CrashViewer(v)

Manage(q) == DeleteAnswer(q) \/ AddQuestion(q) \/ MoveQuestion(q) \/ DeleteQuestion(q)

Next ==
  \/ Start \/ TooLate \/ Reopen \/ Tick
  \/ \E w \in Writers : Write(w)
  \/ \E v \in Viewers : View(v)
  \/ \E q \in Questions : Manage(q)

Spec == Init /\ [][Next]_vars

-----------------------------------------------------------------------------
(* Properties *)

TypeOK ==
  /\ clock \in Nat /\ open \in BOOLEAN
  /\ place \in [Questions -> Nat]
  /\ started \in Times /\ ended \in Times /\ active \in BOOLEAN
  /\ rows \subseteq Questions /\ late \subseteq rows
  /\ order \in [Questions -> Nat]
  /\ pick \in [Questions -> Picks]
  /\ mark \in [Questions -> Picks \cup {"unset"}]
  /\ post \in [Writers -> Posts \cup {NoPost}]
  /\ stage \in [Viewers -> Stages]
  /\ gaps \in [Viewers -> [Questions -> Nat]]
  /\ plan \in [Viewers -> [Questions -> Picks \cup {"keep"}]]
  /\ closings \in Nat /\ notices \in Nat
  /\ active => started # NoTime

\* The score of an answer is what its selection is worth, unless it was selected
\* after the session was closed (or while it was being closed); once a close has
\* succeeded every answer given before it has a score.
\* (reconcile_quiz_answers, called under the lock and without it)
MarksAreRight ==
  \A q \in rows \ late :
    /\ mark[q] \in {"unset", pick[q]}
    /\ closings > 0 => mark[q] # "unset"

\* A session is completed once, and its completion mailed at most once, whatever
\* requests to close it arrive together. (QuizLifecycleMixin.close)
OneCompletion == closings <= 1 /\ notices <= closings

\* A session that has been closed, or found to be over, is never answered again:
\* it is not reopened and not restarted. (start, expire_if_needed)
ClosedForGood ==
  [][started # NoTime /\ ~active => ~active' /\ started' = started]_vars

\* The recorded end of a session never moves to a later time. (close_quiz_session)
EndOnlyShortens ==
  [][ended # NoTime => ended' # NoTime /\ ended' <= ended]_vars

Lands(w) ==
  post[w] # NoPost /\ post'[w] = NoPost /\ \E q \in rows' : pick'[q] # pick[q] \/ q \notin rows

\* An answer that is written, however late, was sent no later than the end the
\* session records, then and afterwards. (QuizQuestionAnswerWriteSerializer)
SentInTime ==
  [][\A w \in Writers : Lands(w) => ended = NoTime \/ post[w].at <= ended]_vars

\* The answers that reconcile_quiz_answers has to create find their positions free.
\* (quiz/ordering.py: the order is stable for a given session)
PositionsAgree ==
  \A q \in InTemplate \ rows : started # NoTime => PositionFree(place[q], q)
===============================================================================
