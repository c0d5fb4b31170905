------------------------------ MODULE QuizPlayer ------------------------------
(***************************************************************************)
(* The page on which a learner takes a quiz, QuizQuestionView, with the    *)
(* countdown beside it and the server behind it.                           *)
(*                                                                         *)
(* The page shows one question at a time.  Next, previous and finish save  *)
(* the selection and go on when the save is answered; the answer pad goes  *)
(* to another question without saving.  Nothing is disabled while a save   *)
(* is under way.  A save is stored by the server, or not, and the page     *)
(* hears of it, or gives it up: the two are steps of their own.  What the  *)
(* page gives up, the server has stored by then or never stores.           *)
(*                                                                         *)
(* Every question has one option, which is named like the question.  A     *)
(* selection is a set of options: those of another question can be in it.  *)
(***************************************************************************)
EXTENDS Naturals, FiniteSets

CONSTANTS
  Count,      \* number of questions
  Multiple,   \* the questions with checkboxes; the others have radio buttons
  PageSize,   \* answers on the first page of the list the server gives
  Slots       \* bound: a slot for each save that can be under way at a time

ASSUME PlayerAssumption ==
  /\ Count \in Nat \ {0}
  /\ Multiple \subseteq 1..Count
  /\ PageSize \in Nat

VARIABLES
  page,      \* "away", "loading", "listed", "open" or "failed"
  review,    \* reviewMode
  current,   \* the question on the screen
  shown,     \* shown[q]: selectedOptionIds of the item of question q
  asking,    \* what the dialog about finishing will save, or NoSave
  saves,     \* saves[i]: a save under way, or NoSave
  closing,   \* who called closeQuizAndRedirect: "no", "finish" or "timer"
  emitted,   \* didEmitExpired of the countdown
  up,        \* by the clock of the browser, the time is up
  stored,    \* stored[q]: the selection the server has for q
  closed,    \* the server takes no more answers (not can_answer)
  watched,   \* a question somebody watches
  chosen     \* history: did the learner select its option last?

pageVars == <<page, review, current, shown, asking>>
closeVars == <<closing, emitted>>
sessionVars == <<stored, closed>>
watchVars == <<watched, chosen>>
playerVars == <<pageVars, saves, closeVars, up, sessionVars, watchVars>>

Questions == 1..Count
Selections == SUBSET Questions

NoSave == [then |-> "none"]
Payloads == [question : Questions, picked : Selections, then : {"next", "prev", "close"}]
Saves ==
  [question : Questions, picked : Selections, then : {"next", "prev", "close"},
   stage : {"sent", "stored"}]

Under(i) == saves[i] # NoSave

PlayerInit ==
  /\ page = "away" /\ review = FALSE /\ current = 1
  /\ shown = [q \in Questions |-> {}]
  /\ asking = NoSave
  /\ saves = [i \in Slots |-> NoSave]
  /\ closing = "no" /\ emitted = FALSE /\ up = FALSE
  /\ stored = [q \in Questions |-> {}] /\ closed = FALSE
  /\ watched \in Questions /\ chosen = FALSE
-------------------------------------------------------------------------------
(* Opening and leaving the page. *)

Open ==
  /\ page = "away"
  /\ page' = "loading"
  /\ UNCHANGED <<review, current, shown, asking, saves, closeVars, up, sessionVars, watchVars>>

\* The list of the answers, in the order of the questions: only its first page
\* is read, which ends with question last, or later if some have no answer yet.
List ==
  /\ page = "loading"
  /\ page' = "listed"
  /\ \E last \in {Count} \cup (PageSize..Count) :
       shown' = [q \in Questions |-> IF q <= last THEN stored[q] ELSE {}]
  /\ UNCHANGED <<review, current, asking, saves, closeVars, up, sessionVars, watchVars>>

\* The session and the answers are there; a closed session is reviewed.
Loaded ==
  /\ page = "listed"
  /\ page' = "open" /\ review' = closed /\ current' = 1
  /\ chosen' = (watched \in stored[watched])
  /\ UNCHANGED <<watched, shown, asking, saves, closeVars, up, sessionVars>>

LoadFails ==
  /\ page \in {"loading", "listed"}
  /\ page' = "failed"
  /\ UNCHANGED <<review, current, shown, asking, saves, closeVars, up, sessionVars, watchVars>>

\* goBackToQuiz, the finish button of a review, or any other navigation: the
\* page is destroyed, and nobody hears the answers any more.
LeavePage ==
  /\ page' = "away" /\ review' = FALSE /\ current' = 1
  /\ shown' = [q \in Questions |-> {}]
  /\ asking' = NoSave
  /\ closing' = "no" /\ emitted' = FALSE
  /\ saves' = [i \in Slots |-> NoSave]
  /\ chosen' = FALSE

Leave ==
  /\ page # "away"
  /\ LeavePage
  /\ UNCHANGED <<up, sessionVars, watched>>
-------------------------------------------------------------------------------
(* closeQuizAndRedirect and what the learner does. *)

\* Only the first caller is served.
CloseAndRedirect(who) == closing' = IF closing = "no" THEN who ELSE closing

CanAct == page = "open" /\ asking = NoSave
Locked == review \/ closing # "no" \/ up

\* persistAnswer: a locked page closes the session instead.
PersistAnswer(payload) ==
  \/ /\ Locked
     /\ CloseAndRedirect("timer")
     /\ UNCHANGED saves
  \/ /\ ~Locked
     /\ \E i \in Slots :
          /\ ~Under(i)
          /\ saves' = [saves EXCEPT ![i] =
               [question |-> payload.question, picked |-> payload.picked,
                then |-> payload.then, stage |-> "sent"]]
     /\ UNCHANGED closing

Payload(then) == [question |-> current, picked |-> shown[current], then |-> then]

\* A checkbox is toggled, a radio button replaces the selection.
Toggled(selection) ==
  IF current \in Multiple
  THEN (selection \ {current}) \cup ({current} \ selection)
  ELSE {current}
Select ==
  /\ CanAct /\ ~review
  /\ shown' = [shown EXCEPT ![current] = Toggled(@)]
  /\ chosen' = IF current = watched THEN watched \in Toggled(shown[watched]) ELSE chosen
  /\ UNCHANGED <<page, review, current, asking, saves, closeVars, up, sessionVars, watched>>

\* The pad: another question, without a save.
Pad(q) ==
  /\ CanAct /\ q # current
  /\ current' = q
  /\ UNCHANGED <<page, review, shown, asking, saves, closeVars, up, sessionVars, watchVars>>

\* Mutant: next is offered on the last question.
CanTurnPastEnd(then) == (then = "next" /\ current <= Count) \/ (then = "prev" /\ current > 1)

\* hasQuestionNext and hasQuestionPrev.
CanTurn(then) == (then = "next" /\ current < Count) \/ (then = "prev" /\ current > 1)

\* Next and previous; a review goes on without a save.
Turn(then) ==
  /\ CanAct /\ CanTurn(then)
  /\ \/ /\ review
        /\ current' = IF then = "next" THEN current + 1 ELSE current - 1
        /\ UNCHANGED <<saves, closing>>
     \/ /\ ~review
        /\ PersistAnswer(Payload(then))
        /\ UNCHANGED current
  /\ UNCHANGED <<page, review, shown, asking, emitted, up, sessionVars, watchVars>>

\* Finish, or next on the last question: a dialog asks first.
AskFinish ==
  /\ CanAct /\ ~review
  /\ asking' = Payload("close")
  /\ UNCHANGED <<page, review, current, shown, saves, closeVars, up, sessionVars, watchVars>>

CancelFinish ==
  /\ asking # NoSave
  /\ asking' = NoSave
  /\ UNCHANGED <<page, review, current, shown, saves, closeVars, up, sessionVars, watchVars>>

AcceptFinish ==
  /\ asking # NoSave
  /\ asking' = NoSave
  /\ PersistAnswer(asking)
  /\ UNCHANGED <<page, review, current, shown, emitted, up, sessionVars, watchVars>>
-------------------------------------------------------------------------------
(* A save at the server, and at the page. *)

\* Mutant: an answer that exists is not replaced.
StoreOnce(i) ==
  LET q == saves[i].question IN
  /\ Under(i) /\ saves[i].stage = "sent"
  /\ ~closed /\ saves[i].picked \subseteq {q}
  /\ stored' = IF stored[q] = {} THEN [stored EXCEPT ![q] = saves[i].picked] ELSE stored
  /\ saves' = [saves EXCEPT ![i].stage = "stored"]
  /\ UNCHANGED <<pageVars, closeVars, up, closed, watchVars>>

\* Options of another question, or a closed session, are refused.
Store(i) ==
  LET q == saves[i].question IN
  /\ Under(i) /\ saves[i].stage = "sent"
  /\ ~closed /\ saves[i].picked \subseteq {q}
  /\ stored' = [stored EXCEPT ![q] = saves[i].picked]
  /\ saves' = [saves EXCEPT ![i].stage = "stored"]
  /\ UNCHANGED <<pageVars, closeVars, up, closed, watchVars>>

GoesTo(s) ==
  CASE s.then = "next" /\ s.question < Count -> s.question + 1
    [] s.then = "prev" /\ s.question > 1 -> s.question - 1
    [] OTHER -> current

\* setCurrentItem changes the question on the screen, whichever was saved;
\* then the page goes on from the question that was saved.
SaveAnswered(i) ==
  LET s == saves[i] IN
  /\ Under(i) /\ s.stage = "stored"
  /\ saves' = [saves EXCEPT ![i] = NoSave]
  /\ shown' = [shown EXCEPT ![current] = s.picked]
  /\ current' = GoesTo(s)
  /\ IF s.then = "close" THEN CloseAndRedirect("finish") ELSE UNCHANGED closing
  /\ UNCHANGED <<page, review, asking, emitted, up, sessionVars, watchVars>>

\* Mutant: any failure closes the session.
SaveFailsAndCloses(i) ==
  /\ Under(i)
  /\ saves' = [saves EXCEPT ![i] = NoSave]
  /\ CloseAndRedirect("timer")
  /\ UNCHANGED <<pageVars, emitted, up, sessionVars, watchVars>>

\* An error, or no answer within 30 s.  handleSaveError fetches the session and
\* closes it if it takes no answers or, should that fail too, if the time is up.
SaveFails(i) ==
  /\ Under(i)
  /\ saves' = [saves EXCEPT ![i] = NoSave]
  /\ \/ (closed \/ up) /\ CloseAndRedirect("timer")
     \/ ~(closed /\ up) /\ UNCHANGED closing
  /\ UNCHANGED <<pageVars, emitted, up, sessionVars, watchVars>>
-------------------------------------------------------------------------------
(* Time, and the close at the server and at the page. *)

TimePasses ==
  /\ ~up /\ up' = TRUE
  /\ UNCHANGED <<pageVars, saves, closeVars, sessionVars, watchVars>>

\* The countdown emits once.
Tick ==
  /\ page = "open" /\ ~review /\ up /\ ~emitted
  /\ emitted' = TRUE
  /\ CloseAndRedirect("timer")
  /\ UNCHANGED <<pageVars, saves, up, sessionVars, watchVars>>

\* The close of this page; the clock of the server; the end of the template;
\* a close from another tab.
ServerCloses ==
  /\ ~closed /\ closed' = TRUE
  /\ UNCHANGED <<pageVars, saves, closeVars, up, stored, watchVars>>

Closed ==
  /\ closing # "no" /\ closed
  /\ LeavePage
  /\ UNCHANGED <<up, sessionVars, watched>>

\* Mutant: a close that fails leaves the page open, whoever asked for it.
CloseFailsAndStays ==
  /\ closing # "no" /\ closing' = "no"
  /\ UNCHANGED <<pageVars, saves, emitted, up, sessionVars, watchVars>>

\* A close that fails leads to the session too, if the timer asked for it.
CloseFails ==
  /\ closing # "no"
  /\ \/ closing = "timer" /\ LeavePage
     \/ /\ closing = "finish"
        /\ closing' = "no"
        /\ UNCHANGED <<pageVars, saves, emitted, chosen>>
  /\ UNCHANGED <<up, sessionVars, watched>>

PlayerNext ==
  \/ Open \/ List \/ Loaded \/ LoadFails \/ Leave
  \/ Select \/ AskFinish \/ CancelFinish \/ AcceptFinish
  \/ \E q \in Questions : Pad(q)
  \/ \E then \in {"next", "prev"} : Turn(then)
  \/ \E i \in Slots :
       Store(i) \/ SaveAnswered(i) \/ SaveFails(i)
  \/ TimePasses \/ Tick \/ ServerCloses \/ Closed \/ CloseFails

PlayerSpec == PlayerInit /\ [][PlayerNext]_playerVars
-------------------------------------------------------------------------------
PlayerTypeOK ==
  /\ page \in {"away", "loading", "listed", "open", "failed"}
  /\ review \in BOOLEAN /\ current \in Questions
  /\ shown \in [Questions -> Selections]
  /\ asking \in Payloads \cup {NoSave}
  /\ saves \in [Slots -> Saves \cup {NoSave}]
  /\ closing \in {"no", "finish", "timer"} /\ emitted \in BOOLEAN /\ up \in BOOLEAN
  /\ stored \in [Questions -> Selections] /\ closed \in BOOLEAN
  /\ watched \in Questions /\ chosen \in BOOLEAN

\* A save that will bring the selection of the watched question to the server.
Carries(i) ==
  /\ Under(i) /\ saves[i].stage = "sent" /\ saves[i].question = watched
  /\ (watched \in saves[i].picked) = chosen

\* What the learner selected is what the page shows for the question; and it is
\* at the server, or on the screen, or in a save under way.
Settled ==
  /\ page = "open" /\ (watched \in shown[watched]) = chosen
  /\ \/ (watched \in stored[watched]) = chosen
     \/ current = watched
     \/ \E i \in Slots : Carries(i)

Skips == current = watched /\ \E q \in Questions : Pad(q)
Fails == \E i \in Slots : Carries(i) /\ SaveFails(i)
Overtakes == \E i \in Slots : Under(i) /\ saves[i].question = watched /\ ~Carries(i) /\ Store(i)
Overwrites ==
  /\ current = watched
  /\ \E i \in Slots :
       /\ SaveAnswered(i)
       /\ \/ saves[i].question # watched
          \/ chosen # (watched \in saves[i].picked)
          \/ chosen # (watched \in stored[watched])

\* On an open page a selection is parted from what the page shows or from the
\* server in four ways only: the pad leaves the question without a save, the
\* save fails, an older save is stored after a newer one, or the answer to an
\* older save or to that of another question finds the question on the screen,
\* writes what was saved into it and goes on.
\* Next, previous, finish, the dialog, the countdown and saves of other
\* questions that overlap never do.
SelectionsStay ==
  [][Settled /\ page' = "open" /\ ~Settled' =>
       Skips \/ Fails \/ Overtakes \/ Overwrites]_playerVars

\* The page closes a session for want of time only when the time is up or the
\* server takes no more answers, whatever saves, refetches and dialogs overlap.
NeverClosesEarly == closing = "timer" => up \/ closed

\* Once the countdown has spoken, which it does once, the page stays in a close
\* until it is left, unless a finish was already under way then and fails.
TimeUpCloses ==
  [][emitted' /\ page' = "open" /\ closing' = "no" =>
       closing = "finish" \/ (emitted /\ closing = "no")]_playerVars
===============================================================================
