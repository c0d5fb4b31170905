-------------------------- MODULE QuizSession_proofs --------------------------
(* Theorems about QuizSession, for every value of its constants. *)
EXTENDS QuizSession, FiniteSetTheorems, FunctionTheorems, TLAPS

-----------------------------------------------------------------------------
(* Type correctness *)

\* An edit holds the key of a row; it fails when the row goes.
EditsHold == \A w \in Writers : post[w].step = "edit" => post[w].q \in rows

Typed == TypeOK /\ EditsHold

LEMMA PlacementsAreFunctions == Placements \subseteq [Questions -> Nat]
  <1>1. Cardinality(Questions) \in Nat
    BY QuestionsAssumption, FS_CardinalityType
  <1> QED
    BY <1>1 DEF Placements

LEMMA GapsType ==
  ASSUME TypeOK
  PROVE  /\ Gaps \in [Questions -> Nat]
         /\ Plan \in [Questions -> Picks \cup {"keep"}]
         /\ NoGaps \in [Questions -> Nat]
         /\ Nothing \in [Questions -> Picks \cup {"keep"}]
  BY DEF TypeOK, Gaps, Plan, NoGaps, Nothing, Picks

LEMMA InitTyped == Init => Typed
  <1> SUFFICES ASSUME Init PROVE Typed
    OBVIOUS
  <1>1. place \in [Questions -> Nat]
    BY PlacementsAreFunctions DEF Init
  <1> QED
    BY <1>1 DEF Init, Typed, TypeOK, EditsHold, NoGaps, Nothing, NoPost, Picks, Times, Stages

LEMMA SessionEndType == \A t \in Nat : SessionEnd(t) \in Times
  BY TimesAssumption, NoTimeAssumption DEF SessionEnd, Earlier, Times

\* A record of a request has the type of its fields.
LEMMA PostType ==
  ASSUME NEW s \in {"look", "insert", "edit"}, NEW q \in Questions, NEW p \in Picks,
         NEW a \in Nat, NEW u \in Times, NEW n \in Nat
  PROVE  [step |-> s, q |-> q, pick |-> p, at |-> a, until |-> u, pos |-> n] \in Posts
  BY DEF Posts

LEMMA PostFields ==
  ASSUME TypeOK, NEW w \in Writers, post[w].step \in {"look", "insert", "edit"}
  PROVE  /\ post[w] \in Posts
         /\ post[w].q \in Questions /\ post[w].pick \in Picks
         /\ post[w].at \in Nat /\ post[w].until \in Times /\ post[w].pos \in Nat
  <1>1. post[w] \in Posts
    BY DEF TypeOK, NoPost
  <1> QED
    BY <1>1 DEF Posts

LEMMA WriteTyped ==
  ASSUME Typed, NEW w \in Writers, Write(w)
  PROVE  Typed'
  <1> USE DEF Typed
  <1>1. ASSUME NEW q \in Questions, NEW p \in Picks, NEW s \in {"look", "edit"},
               Admit(w, s, q, p), s = "edit" => q \in rows
        PROVE  Typed'
    <2> DEFINE r == [step |-> s, q |-> q, pick |-> p, at |-> clock, until |-> ended, pos |-> 0]
    <2>1. r \in Posts /\ r.step = s /\ r.q = q
      BY <1>1, PostType DEF TypeOK
    <2>2. post' = [post EXCEPT ![w] = r] /\ UNCHANGED <<clock, templateVars, quizVars, rowVars, viewVars, countVars>>
      BY <1>1 DEF Admit
    <2> HIDE DEF r
    <2> QED
      BY <1>1, <2>1, <2>2 DEF TypeOK, EditsHold, templateVars, quizVars, rowVars, viewVars, countVars
  <1>2. CASE LookFound(w)
    <2>1. post[w].q \in Questions /\ post[w].pick \in Picks
      BY <1>2, PostFields DEF LookFound
    <2>2. /\ post' = [post EXCEPT ![w] = NoPost]
          /\ post[w].q \in rows
          /\ UNCHANGED <<clock, templateVars, quizVars, rows, mark, viewVars, countVars>>
      BY <1>2 DEF LookFound, Finish
    <2>3. /\ order' \in [Questions -> Nat] /\ pick' \in [Questions -> Picks]
          /\ late' \subseteq rows
      <3>1. CASE UNCHANGED <<order, pick, late>>
        BY <3>1 DEF TypeOK
      <3>2. CASE order' = [order EXCEPT ![post[w].q] = place[post[w].q]] /\ Select(w)
        BY <3>2, <2>1, <2>2 DEF Select, TypeOK
      <3> QED
        BY <1>2, <3>1, <3>2 DEF LookFound
    <2> QED
      BY <2>2, <2>3 DEF NoPost, TypeOK, EditsHold, templateVars, quizVars, viewVars, countVars
  <1>3. CASE LookMissing(w)
    <2> DEFINE r == [post[w] EXCEPT !.step = "insert", !.pos = place[post[w].q]]
    <2>1. r \in Posts /\ r.step = "insert"
      BY <1>3, PostFields DEF LookMissing, Posts, TypeOK
    <2>2. post' = [post EXCEPT ![w] = r] \/ post' = [post EXCEPT ![w] = NoPost]
      BY <1>3 DEF LookMissing, Finish, TypeOK
    <2>3. UNCHANGED <<clock, templateVars, quizVars, rowVars, viewVars, countVars>>
      BY <1>3 DEF LookMissing
    <2> HIDE DEF r
    <2>4. CASE post' = [post EXCEPT ![w] = r]
      BY <2>1, <2>3, <2>4 DEF TypeOK, EditsHold, templateVars, quizVars, rowVars, viewVars, countVars
    <2>5. CASE post' = [post EXCEPT ![w] = NoPost]
      BY <2>3, <2>5 DEF NoPost, TypeOK, EditsHold, templateVars, quizVars, rowVars, viewVars, countVars
    <2> QED
      BY <2>2, <2>4, <2>5
  <1>4. CASE Insert(w)
    <2>1. post[w].q \in Questions /\ post[w].pick \in Picks /\ post[w].pos \in Nat
      BY <1>4, PostFields DEF Insert
    <2> QED
      BY <1>4, <2>1 DEF Insert, Select, Finish, NoPost, TypeOK, EditsHold,
        templateVars, quizVars, viewVars, countVars
  <1>5. CASE Edit(w)
    <2>1. post[w].q \in rows /\ post[w].pick \in Picks
      BY <1>5, PostFields DEF Edit, EditsHold
    <2> QED
      BY <1>5, <2>1 DEF Edit, Select, Finish, NoPost, TypeOK, EditsHold,
        templateVars, quizVars, viewVars, countVars
  <1>6. CASE CrashWriter(w)
    BY <1>6 DEF CrashWriter, Finish, NoPost, TypeOK, EditsHold,
      templateVars, quizVars, rowVars, viewVars, countVars
  <1> QED
    BY <1>1, <1>2, <1>3, <1>4, <1>5, <1>6 DEF Write, AdmitPost, AdmitEdit

LEMMA ViewTyped ==
  ASSUME Typed, NEW v \in Viewers, View(v)
  PROVE  Typed'
  <1> USE DEF Typed, Goto, Stop, Stages
  <1>a. /\ Gaps \in [Questions -> Nat]
        /\ Plan \in [Questions -> Picks \cup {"keep"}]
        /\ NoGaps \in [Questions -> Nat]
        /\ Nothing \in [Questions -> Picks \cup {"keep"}]
    BY GapsType
  <1>b. Missing(v) \subseteq Questions /\ \A q \in Missing(v) : gaps[v][q] \in Nat
    BY DEF Missing, TypeOK
  <1>c. \A q \in Questions : plan[v][q] # "keep" => plan[v][q] \in Picks
    BY DEF TypeOK
  <1>1. CASE Get(v)
    BY <1>1, <1>a DEF Get, ExpireIfNeeded, Due, Reconcile, Read, TypeOK, EditsHold,
      templateVars, rowVars, countVars
  <1>2. CASE Fill(v)
    <2>1. CASE Fits(v)
      <3>1. /\ rows \subseteq rows' /\ rows' \subseteq Questions
            /\ order' \in [Questions -> Nat] /\ late' \subseteq rows'
        BY <1>2, <1>b, <2>1 DEF Fill, FillRows, TypeOK
      <3>2. /\ stage' = [stage EXCEPT ![v] = "reread"]
            /\ UNCHANGED <<clock, templateVars, quizVars, pick, mark, gaps, plan, post, countVars>>
        BY <1>2, <2>1 DEF Fill
      <3> QED
        BY <3>1, <3>2 DEF TypeOK, EditsHold, templateVars, quizVars, countVars
    <2>2. CASE ~Fits(v)
      <3>1. /\ stage' \in [Viewers -> Stages]
            /\ gaps' \in [Viewers -> [Questions -> Nat]]
            /\ plan' \in [Viewers -> [Questions -> Picks \cup {"keep"}]]
        BY <1>2, <1>a, <2>2 DEF Fill, TypeOK
      <3>2. UNCHANGED <<clock, templateVars, quizVars, rowVars, post, countVars>>
        BY <1>2, <2>2 DEF Fill
      <3> HIDE DEF Stages
      <3> QED
        BY <3>1, <3>2 DEF TypeOK, EditsHold, templateVars, quizVars, rowVars, countVars
    <2> QED
      BY <2>1, <2>2
  <1>3. CASE Reread(v)
    BY <1>3, <1>a DEF Reread, TypeOK, EditsHold, templateVars, quizVars, rowVars, countVars
  <1>4. CASE Save(v)
    BY <1>4, <1>a, <1>c DEF Save, Apply, TypeOK, EditsHold, templateVars, quizVars, countVars
  <1>5. CASE Close(v)
    BY <1>5, <1>a, SMTT(30) DEF Close, Read, TypeOK, EditsHold, templateVars, quizVars, rowVars, countVars
  <1>6. CASE CloseCommit(v)
    <2>1. CloseEnd \in Times
      BY DEF CloseEnd, Earlier, Times, TypeOK
    <2>2. CASE ~Fits(v)
      BY <1>6, <1>a, <2>2 DEF CloseCommit, TypeOK, EditsHold, templateVars
    <2>3. CASE Fits(v)
      <3>1. /\ rows \subseteq rows' /\ rows' \subseteq Questions
            /\ order' \in [Questions -> Nat]
            /\ mark' \in [Questions -> Picks \cup {"unset"}]
        <4>1. CASE Missing(v) = {}
          BY <1>6, <1>c, <2>3, <4>1, SMTT(30) DEF CloseCommit, Apply, TypeOK
        <4>2. CASE Missing(v) # {}
          BY <1>6, <1>b, <2>3, <4>2, SMTT(30) DEF CloseCommit, FillRows, TypeOK
        <4> QED
          BY <4>1, <4>2
      <3>2. /\ active' = FALSE /\ ended' = CloseEnd /\ closings' = closings + 1
            /\ stage' = [stage EXCEPT ![v] = "notify"]
            /\ gaps' = [gaps EXCEPT ![v] = NoGaps]
            /\ plan' = [plan EXCEPT ![v] = Nothing]
            /\ UNCHANGED <<clock, templateVars, started, pick, late, post, notices>>
        BY <1>6, <2>3 DEF CloseCommit
      <3>3. late' \subseteq rows' /\ (active' => started' # NoTime)
        BY <3>1, <3>2 DEF TypeOK
      <3>4. TypeOK'
        <4>1. stage' \in [Viewers -> Stages]
          BY <3>2 DEF TypeOK
        <4>2. /\ gaps' \in [Viewers -> [Questions -> Nat]]
              /\ plan' \in [Viewers -> [Questions -> Picks \cup {"keep"}]]
          BY <1>a, <3>2 DEF TypeOK
        <4>3. /\ clock' \in Nat /\ open' \in BOOLEAN /\ place' \in [Questions -> Nat]
              /\ started' \in Times /\ pick' \in [Questions -> Picks]
              /\ notices' \in Nat /\ closings' \in Nat
          BY <3>2 DEF TypeOK, templateVars
        <4>4. ended' \in Times /\ active' \in BOOLEAN
          BY <2>1, <3>2
        <4>5. post' \in [Writers -> Posts \cup {NoPost}]
          BY <3>2 DEF TypeOK, NoPost, Posts
        <4> QED
          BY <3>1, <3>3, <4>1, <4>2, <4>3, <4>4, <4>5 DEF TypeOK
      <3>5. EditsHold'
        BY <3>1, <3>2 DEF EditsHold
      <3> QED
        BY <3>4, <3>5
    <2> QED
      BY <2>2, <2>3
  <1>7. CASE Notify(v)
    BY <1>7 DEF Notify, TypeOK, EditsHold, templateVars, quizVars, rowVars
  <1>8. CASE CrashViewer(v)
    BY <1>8, <1>a DEF CrashViewer, TypeOK, EditsHold, templateVars, quizVars, rowVars, countVars
  <1> QED
    BY <1>1, <1>2, <1>3, <1>4, <1>5, <1>6, <1>7, <1>8 DEF View

LEMMA ManageTyped ==
  ASSUME Typed, NEW q \in Questions, Manage(q)
  PROVE  Typed'
  <1> USE DEF Typed
  <1>1. CASE DeleteAnswer(q)
    BY <1>1 DEF DeleteAnswer, ExpireIfNeeded, Due, RemoveRow, Forget, NoPost, Picks, TypeOK, EditsHold,
      templateVars, countVars
  <1>2. ASSUME NEW Q, NEW Kept, Reorder(Q, Kept)
        PROVE  place' \in [Questions -> Nat]
    BY <1>2, PlacementsAreFunctions DEF Reorder
  <1>3. CASE AddQuestion(q) \/ MoveQuestion(q)
    BY <1>2, <1>3 DEF AddQuestion, MoveQuestion, TypeOK, EditsHold,
      quizVars, rowVars, viewVars, countVars
  <1>4. CASE DeleteQuestion(q)
    BY <1>2, <1>4 DEF DeleteQuestion, RemoveRow, Forget, NoPost, NoGaps, Picks, Stages, TypeOK, EditsHold,
      quizVars, countVars
  <1> QED
    BY <1>1, <1>3, <1>4 DEF Manage

LEMMA NextTyped == Typed /\ [Next]_vars => Typed'
  <1> SUFFICES ASSUME Typed, [Next]_vars PROVE Typed'
    OBVIOUS
  <1>1. CASE Start
    BY <1>1, SessionEndType, NoTimeAssumption DEF Start, Typed, TypeOK, EditsHold, Times,
      templateVars, rowVars, viewVars, countVars
  <1>2. CASE TooLate
    BY <1>2 DEF TooLate, ExpireIfNeeded, Due, Typed, TypeOK, EditsHold,
      templateVars, rowVars, viewVars, countVars
  <1>3. CASE Reopen
    BY <1>3 DEF Reopen, Typed, TypeOK, EditsHold, quizVars, rowVars, viewVars, countVars
  <1>4. CASE Tick
    BY <1>4 DEF Tick, Typed, TypeOK, EditsHold,
      templateVars, quizVars, rowVars, viewVars, countVars
  <1>5. CASE UNCHANGED vars
    BY <1>5 DEF vars, Typed, TypeOK, EditsHold, templateVars, quizVars, rowVars, viewVars, countVars
  <1> QED
    BY <1>1, <1>2, <1>3, <1>4, <1>5, WriteTyped, ViewTyped, ManageTyped DEF Next

\* The row, its answers, the questions and the requests keep their types: for any
\* questions, time limit and number of requests.
THEOREM TypeCorrect == Spec => []TypeOK
  <1>1. Typed => TypeOK
    BY DEF Typed
  <1> QED
    BY InitTyped, NextTyped, <1>1, PTL DEF Spec

-----------------------------------------------------------------------------
(* What the lock and the order of the steps give *)

\* Requests are in progress only while the row allows them: answers once the
\* session is started, a close while it is active, scoring once it is closed.
Phases ==
  /\ started = NoTime => ended = NoTime /\ rows = {} /\ ~active
  /\ \A w \in Writers : post[w] # NoPost => started # NoTime
  /\ \A v \in Viewers : stage[v] \in {"fill", "reread", "save", "notify"} => started # NoTime /\ ~active
  /\ \A v \in Viewers : stage[v] = "closing" => active
  /\ \A u, v \in Viewers : stage[u] = "closing" /\ stage[v] = "closing" => u = v

\* One close has succeeded or none; the mail it owes is owed by one request.
Completions ==
  /\ closings > 0 => closings = 1 /\ started # NoTime /\ ~active
  /\ notices <= closings
  /\ \A v \in Viewers : stage[v] = "notify" => closings = 1 /\ notices = 0
  /\ \A u, v \in Viewers : stage[u] = "notify" /\ stage[v] = "notify" => u = v

PhaseInv == Typed /\ Phases /\ Completions

LEMMA InitPhases == Init => PhaseInv
  BY InitTyped DEF PhaseInv, Phases, Completions, Init, NoPost

LEMMA WritePhases ==
  ASSUME PhaseInv, NEW w \in Writers, Write(w)
  PROVE  Phases' /\ Completions'
  <1>1. UNCHANGED <<quizVars, stage, countVars>>
    BY DEF Write, AdmitPost, AdmitEdit, Admit, LookFound, LookMissing, Insert, Edit, CrashWriter,
      viewVars
  <1>2. \A u \in Writers : u # w => post'[u] = post[u]
    BY DEF Write, AdmitPost, AdmitEdit, Admit, LookFound, LookMissing, Insert, Edit, CrashWriter,
      Finish, PhaseInv, Typed, TypeOK
  <1>3. started # NoTime
    <2>1. CASE post[w] = NoPost
      BY <2>1 DEF Write, AdmitPost, AdmitEdit, Admit, CanAnswer, LookFound, LookMissing, Insert, Edit,
        CrashWriter, NoPost
    <2>2. CASE post[w] # NoPost
      BY <2>2 DEF PhaseInv, Phases
    <2> QED
      BY <2>1, <2>2
  <1> QED
    BY <1>1, <1>2, <1>3 DEF PhaseInv, Phases, Completions, quizVars, countVars

LEMMA ViewPhases ==
  ASSUME PhaseInv, NEW v \in Viewers, View(v)
  PROVE  Phases' /\ Completions'
  <1> USE DEF PhaseInv, Typed, TypeOK
  <1>1. ASSUME NEW s \in Stages, Goto(v, s), UNCHANGED <<quizVars, rows, post, countVars>>,
               s # "notify", s \in {"fill", "reread", "save"} => started # NoTime /\ ~active,
               s = "closing" => ~Locked /\ active
        PROVE  Phases' /\ Completions'
    BY <1>1 DEF Goto, Locked, Phases, Completions, quizVars, countVars
  <1>2. CASE Get(v)
    <2>1. /\ active' = FALSE /\ UNCHANGED <<started, ended, rows, post, closings, notices>>
          /\ \A u \in Viewers : stage[u] # "closing"
      BY <1>2 DEF Get, ExpireIfNeeded, Due, Locked, Phases, rowVars, countVars
    <2>2. /\ started # NoTime
          /\ \E s \in {"fill", "save", "idle"} : stage' = [stage EXCEPT ![v] = s]
      BY <1>2 DEF Get, Reconcile, Goto
    <2> QED
      BY <2>1, <2>2 DEF Phases, Completions
  <1>3. CASE Reread(v) \/ CrashViewer(v)
    BY <1>1, <1>3 DEF Reread, CrashViewer, Stop, Stages, Phases, rowVars
  <1>4. CASE Save(v)
    BY <1>1, <1>4 DEF Save, Stop, Stages
  <1>5. CASE Close(v)
    BY <1>1, <1>5 DEF Close, Stages, rowVars
  <1>6. CASE Fill(v)
    <2>1. /\ \E s \in {"reread", "idle"} : stage' = [stage EXCEPT ![v] = s]
          /\ UNCHANGED <<quizVars, post, countVars>>
          /\ started # NoTime /\ ~active
      BY <1>6 DEF Fill, Stop, Goto, Phases
    <2> QED
      BY <2>1 DEF Phases, Completions, quizVars, countVars
  <1>7. CASE CloseCommit(v)
    <2>0. active /\ started # NoTime /\ closings = 0 /\ notices = 0 /\ stage[v] = "closing"
      BY <1>7 DEF CloseCommit, Phases, Completions
    <2>1. CASE ~Fits(v)
      BY <1>1, <1>7, <2>1 DEF CloseCommit, Stop, Stages, quizVars, countVars
    <2>2. CASE Fits(v)
      <3>1. /\ active' = FALSE /\ closings' = closings + 1
            /\ stage' = [stage EXCEPT ![v] = "notify"]
            /\ UNCHANGED <<started, post, notices>>
        BY <1>7, <2>2 DEF CloseCommit, Goto
      <3>2. \A u \in Viewers : stage[u] # "notify" /\ (u # v => stage[u] # "closing")
        BY <2>0 DEF Phases
      <3> QED
        BY <2>0, <3>1, <3>2 DEF Phases, Completions
    <2> QED
      BY <2>1, <2>2
  <1>8. CASE Notify(v)
    BY <1>8 DEF Notify, Goto, Phases, Completions, quizVars, rowVars
  <1> QED
    BY <1>2, <1>3, <1>4, <1>5, <1>6, <1>7, <1>8 DEF View

LEMMA ManagePhases ==
  ASSUME PhaseInv, NEW q \in Questions, Manage(q)
  PROVE  Phases' /\ Completions'
  <1> USE DEF PhaseInv, Typed, TypeOK
  <1>1. CASE DeleteAnswer(q)
    BY <1>1 DEF DeleteAnswer, ExpireIfNeeded, Due, Locked, RemoveRow, Forget, Phases, Completions, countVars
  <1>2. CASE AddQuestion(q) \/ MoveQuestion(q)
    BY <1>2 DEF AddQuestion, MoveQuestion, Phases, Completions, quizVars, rowVars, viewVars, countVars
  <1>3. CASE DeleteQuestion(q)
    <2>1. /\ \A v \in Viewers : stage'[v] = stage[v] \/ stage'[v] = "idle"
          /\ \A w \in Writers : post'[w] = post[w] \/ post'[w] = NoPost
          /\ UNCHANGED <<quizVars, countVars>>
          /\ rows' \subseteq rows
      BY <1>3 DEF DeleteQuestion, RemoveRow, Forget
    <2> QED
      BY <2>1 DEF Phases, Completions, quizVars, countVars
  <1> QED
    BY <1>1, <1>2, <1>3 DEF Manage

LEMMA NextPhases == PhaseInv /\ [Next]_vars => PhaseInv'
  <1> SUFFICES ASSUME PhaseInv, [Next]_vars PROVE Phases' /\ Completions'
    BY NextTyped DEF PhaseInv
  <1>1. CASE Start
    BY <1>1, NoTimeAssumption DEF Start, Locked, PhaseInv, Typed, TypeOK, Phases, Completions,
      rowVars, viewVars, countVars
  <1>2. CASE TooLate
    BY <1>2 DEF TooLate, ExpireIfNeeded, Locked, PhaseInv, Phases, Completions, rowVars, viewVars, countVars
  <1>3. CASE Reopen \/ Tick \/ UNCHANGED vars
    BY <1>3 DEF Reopen, Tick, vars, PhaseInv, Phases, Completions, quizVars, rowVars, viewVars, countVars
  <1> QED
    BY <1>1, <1>2, <1>3, WritePhases, ViewPhases, ManagePhases DEF Next

\* However many requests to close a session arrive, it is completed once and its
\* completion is mailed at most once: for any number of requests.
THEOREM CompletedOnce == Spec => []OneCompletion
  <1>1. PhaseInv => OneCompletion
    BY DEF PhaseInv, Typed, TypeOK, Completions, OneCompletion
  <1> QED
    BY InitPhases, NextPhases, <1>1, PTL DEF Spec
-----------------------------------------------------------------------------
(* The row only moves forward *)

\* What a step may do to the row: start it, find it over, or close it.
LEMMA RowSteps ==
  ASSUME PhaseInv, [Next]_vars
  PROVE  \/ Start
         \/ started' = started /\ (active' => active) /\ ended' \in {ended, CloseEnd}
  <1>1. CASE \E w \in Writers : Write(w)
    BY <1>1 DEF Write, AdmitPost, AdmitEdit, Admit, LookFound, LookMissing, Insert, Edit, CrashWriter, quizVars
  <1>2. CASE \E v \in Viewers : View(v)
    BY <1>2 DEF View, Get, ExpireIfNeeded, Fill, Reread, Save, Close, CloseCommit, Notify, CrashViewer, quizVars
  <1>3. CASE \E q \in Questions : Manage(q)
    BY <1>3 DEF Manage, DeleteAnswer, ExpireIfNeeded, AddQuestion, MoveQuestion, DeleteQuestion, quizVars
  <1>4. CASE TooLate \/ Reopen \/ Tick \/ UNCHANGED vars
    BY <1>4 DEF TooLate, ExpireIfNeeded, Reopen, Tick, vars, quizVars
  <1> QED
    BY <1>1, <1>2, <1>3, <1>4 DEF Next

\* A session that was closed, or found to be over, stays so, and keeps its start:
\* start does nothing to a session that has one.
THEOREM NeverReopened == Spec => ClosedForGood
  <1>1. PhaseInv /\ [Next]_vars
          => [started # NoTime /\ ~active => ~active' /\ started' = started]_vars
    BY RowSteps DEF Start
  <1> QED
    BY InitPhases, NextPhases, <1>1, PTL DEF Spec, ClosedForGood

\* The end a session records is never put off, whenever it is closed.
THEOREM EndNeverLater == Spec => EndOnlyShortens
  <1>1. ASSUME PhaseInv, [Next]_vars
        PROVE  ended # NoTime => ended' # NoTime /\ ended' <= ended
    <2>1. CASE Start
      BY <1>1, <2>1 DEF Start, PhaseInv, Phases
    <2>2. CASE ended' \in {ended, CloseEnd}
      BY <1>1, <2>2, NoTimeAssumption DEF CloseEnd, Earlier, PhaseInv, Typed, TypeOK, Times
    <2> QED
      BY <1>1, <2>1, <2>2, RowSteps
  <1>2. PhaseInv /\ [Next]_vars => [ended # NoTime => ended' # NoTime /\ ended' <= ended]_vars
    BY <1>1
  <1> QED
    BY InitPhases, NextPhases, <1>2, PTL DEF Spec, EndOnlyShortens

\* An answer in progress was sent no later than now, nor than the end of the
\* session; the end may come down to now, and no further.
Sent ==
  \A w \in Writers : post[w] # NoPost =>
    post[w].at <= clock /\ (ended # NoTime => post[w].at <= ended)

LEMMA NextSent == PhaseInv /\ Sent /\ [Next]_vars => Sent'
  <1> SUFFICES ASSUME PhaseInv, Sent, [Next]_vars PROVE Sent'
    OBVIOUS
  <1> USE DEF PhaseInv, Typed
  <1>1. \A w \in Writers : post[w] # NoPost => post[w].at \in Nat
    BY DEF TypeOK, Posts
  <1>2. clock' \in Nat /\ clock <= clock'
    <2>1. CASE Tick
      BY <2>1 DEF Tick, TypeOK
    <2>2. CASE Start \/ TooLate \/ Reopen \/ UNCHANGED vars
      BY <2>2 DEF Start, TooLate, Reopen, vars, TypeOK
    <2>3. CASE \E w \in Writers : Write(w)
      BY <2>3 DEF Write, AdmitPost, AdmitEdit, Admit, LookFound, LookMissing, Insert, Edit, CrashWriter, TypeOK
    <2>4. CASE \E v \in Viewers : View(v)
      BY <2>4 DEF View, Get, Fill, Reread, Save, Close, CloseCommit, Notify, CrashViewer, TypeOK
    <2>5. CASE \E q \in Questions : Manage(q)
      BY <2>5 DEF Manage, DeleteAnswer, AddQuestion, MoveQuestion, DeleteQuestion, TypeOK
    <2> QED
      BY <2>1, <2>2, <2>3, <2>4, <2>5 DEF Next
  <1>3. CASE Start
    BY <1>3 DEF Start, Phases, Sent
  <1>4. ASSUME started' = started, ended' \in {ended, CloseEnd},
               NEW w \in Writers, post'[w] # NoPost
        PROVE  post'[w].at <= clock' /\ (ended' # NoTime => post'[w].at <= ended')
    <2>1. CASE post[w] # NoPost /\ post'[w].at = post[w].at
      BY <1>1, <1>2, <1>4, <2>1 DEF Sent, CloseEnd, Earlier, TypeOK, Times
    <2>2. CASE post'[w].at = clock /\ ended' = ended /\ (ended # NoTime => clock <= ended)
      BY <1>2, <1>4, <2>2 DEF TypeOK
    <2>3. CASE \E u \in Writers : Write(u)
      <3>1. PICK u \in Writers : Write(u)
        BY <2>3
      <3>2. CASE u # w
        <4>1. post'[w] = post[w]
          BY <3>1, <3>2 DEF Write, AdmitPost, AdmitEdit, Admit, LookFound, LookMissing, Insert, Edit,
            CrashWriter, Finish, TypeOK
        <4> QED
          BY <1>4, <2>1, <4>1
      <3>3. ASSUME NEW q \in Questions, NEW p \in Picks, NEW s, Admit(w, s, q, p)
            PROVE  post'[w].at = clock /\ ended' = ended /\ (ended # NoTime => clock <= ended)
        BY <3>3 DEF Admit, CanAnswer, Before, quizVars, TypeOK
      <3>4. CASE LookMissing(w)
        <4>1. post[w] # NoPost
          BY <3>4 DEF LookMissing, NoPost
        <4>2. post' # [post EXCEPT ![w] = NoPost]
          BY <1>4 DEF TypeOK
        <4>3. post' = [post EXCEPT ![w].step = "insert", ![w].pos = place[post[w].q]]
          BY <3>4, <4>2 DEF LookMissing, Finish
        <4>4. post'[w].at = post[w].at
          BY <4>1, <4>3 DEF TypeOK, Posts
        <4> QED
          BY <2>1, <4>1, <4>4
      <3>5. CASE LookFound(w) \/ Insert(w) \/ Edit(w) \/ CrashWriter(w)
        BY <1>4, <3>5 DEF LookFound, Insert, Edit, CrashWriter, Finish, TypeOK
      <3> QED
        BY <2>2, <3>1, <3>2, <3>3, <3>4, <3>5 DEF Write, AdmitPost, AdmitEdit
    <2>4. CASE \E v \in Viewers : View(v)
      <3>1. UNCHANGED post
        BY <2>4 DEF View, Get, Fill, Reread, Save, Close, CloseCommit, Notify, CrashViewer
      <3> QED
        BY <1>4, <2>1, <3>1
    <2>5. CASE \E q \in Questions : Manage(q)
      <3>1. post'[w] = post[w]
        BY <1>4, <2>5 DEF Manage, DeleteAnswer, AddQuestion, MoveQuestion, DeleteQuestion, Forget
      <3> QED
        BY <1>4, <2>1, <3>1
    <2>6. CASE Start \/ TooLate \/ Reopen \/ Tick \/ UNCHANGED vars
      <3>1. UNCHANGED post
        BY <2>6 DEF Start, TooLate, Reopen, Tick, vars
      <3> QED
        BY <1>4, <2>1, <3>1
    <2> QED
      BY <2>3, <2>4, <2>5, <2>6 DEF Next
  <1> QED
    BY <1>3, <1>4, RowSteps DEF Sent

\* Whatever is written was sent within the time the session records, however long
\* the request took and whatever closed the session meanwhile.
THEOREM AlwaysSentInTime == Spec => SentInTime
  <1>1. Init => Sent
    BY DEF Init, Sent
  <1>2. Sent => [\A w \in Writers : Lands(w) => ended = NoTime \/ post[w].at <= ended]_vars
    BY DEF Sent, Lands
  <1> QED
    BY InitPhases, NextPhases, NextSent, <1>1, <1>2, PTL DEF Spec, SentInTime
-----------------------------------------------------------------------------
(* The marks *)

\* Nothing is scored before the session is closed; a plan to mark answers stays
\* right for those that were given in time.
NotYet == active => \A q \in Questions : mark[q] = "unset"

NoRow == \A q \in Questions \ rows :
  mark[q] = "unset" /\ \A v \in Viewers : plan[v][q] = "keep"

InTime == rows \ late

PlanHolds(v) ==
  /\ stage[v] = "save" => \A q \in InTime : plan[v][q] \in {"keep", pick[q]}
  /\ stage[v] = "closing" /\ Missing(v) = {} => \A q \in InTime : plan[v][q] = pick[q]

Marked == NotYet /\ NoRow /\ (\A v \in Viewers : PlanHolds(v)) /\ MarksAreRight

MarkInv == PhaseInv /\ Marked

LEMMA InitMarked == Init => Marked
  BY DEF Init, Marked, NotYet, NoRow, PlanHolds, MarksAreRight, Nothing

\* Answers in time that are not touched keep the plan of a request, ...
LEMMA PlanKept ==
  ASSUME NEW v \in Viewers, PlanHolds(v),
         InTime' \subseteq InTime, \A q \in InTime' : pick'[q] = pick[q] /\ plan'[v][q] = plan[v][q],
         stage'[v] = "save" => stage[v] = "save",
         stage'[v] = "closing" => stage[v] = "closing" /\ gaps'[v] = gaps[v]
  PROVE  PlanHolds(v)'
  BY DEF PlanHolds, Missing

\* ... and their marks.
LEMMA MarksKept ==
  ASSUME MarksAreRight, UNCHANGED closings, InTime' \subseteq InTime,
         \A q \in InTime' : pick'[q] = pick[q] /\ mark'[q] = mark[q]
  PROVE  MarksAreRight'
  BY DEF MarksAreRight, InTime

\* An answer changes one selection; once a close is under way it counts as late.
LEMMA WriteMarked ==
  ASSUME MarkInv, NEW w \in Writers, Write(w)
  PROVE  Marked'
  <1> USE DEF MarkInv, PhaseInv, Typed, TypeOK
  <1>1. /\ UNCHANGED <<started, ended, active, mark, closings>>
        /\ UNCHANGED <<stage, gaps, plan>>
    BY DEF Write, AdmitPost, AdmitEdit, Admit, LookFound, LookMissing, Insert, Edit, CrashWriter,
      quizVars, viewVars, countVars, rowVars
  <1>2. \/ UNCHANGED <<rows, pick, late>>
        \/ \E q \in Questions, p \in Picks :
             /\ rows' = rows \cup {q}
             /\ pick' = [pick EXCEPT ![q] = p]
             /\ late' = IF ~active \/ Locked THEN late \cup {q} ELSE late \ {q}
    <2>1. CASE CrashWriter(w) \/ LookMissing(w)
                 \/ \E q \in Questions, p \in Picks : AdmitPost(w, q, p) \/ AdmitEdit(w, q, p)
      BY <2>1 DEF AdmitPost, AdmitEdit, Admit, LookMissing, CrashWriter, rowVars
    <2>2. CASE LookFound(w)
      <3>1. post[w].q \in rows /\ post[w].pick \in Picks
        BY <2>2, PostFields DEF LookFound
      <3>2. CASE UNCHANGED <<order, pick, late>>
        BY <2>2, <3>2 DEF LookFound
      <3>3. CASE Select(w)
        <4>1. rows' = rows \cup {post[w].q} /\ post[w].q \in Questions
          BY <2>2, <3>1 DEF LookFound
        <4> QED
          BY <3>1, <3>3, <4>1 DEF Select
      <3> QED
        BY <2>2, <3>2, <3>3 DEF LookFound
    <2>3. CASE Insert(w)
      <3>1. post[w].q \in Questions /\ post[w].pick \in Picks
        BY <2>3, PostFields DEF Insert
      <3> QED
        BY <2>3, <3>1 DEF Insert, Select
    <2>4. CASE Edit(w)
      <3>1. post[w].q \in rows /\ post[w].pick \in Picks
        BY <2>4, PostFields DEF Edit, EditsHold
      <3> QED
        BY <2>4, <3>1 DEF Edit, Select
    <2> QED
      BY <2>1, <2>2, <2>3, <2>4 DEF Write
  <1>3. CASE UNCHANGED <<rows, pick, late>>
    <2>1. \A v \in Viewers : PlanHolds(v)'
      BY <1>1, <1>3, PlanKept DEF Marked, InTime
    <2>2. MarksAreRight'
      BY <1>1, <1>3 DEF Marked, MarksAreRight
    <2> QED
      BY <1>1, <1>3, <2>1, <2>2 DEF Marked, NotYet, NoRow
  <1>4. ASSUME NEW q \in Questions, NEW p \in Picks,
               rows' = rows \cup {q}, pick' = [pick EXCEPT ![q] = p],
               late' = IF ~active \/ Locked THEN late \cup {q} ELSE late \ {q}
        PROVE  Marked'
    <2>1. \A r \in InTime' : r # q => r \in InTime /\ pick'[r] = pick[r]
      BY <1>4 DEF InTime
    <2>2. NotYet' /\ NoRow'
      BY <1>1, <1>4 DEF Marked, NotYet, NoRow
    <2>3. CASE ~active \/ Locked
      <3>1. InTime' \subseteq InTime /\ \A r \in InTime' : pick'[r] = pick[r]
        BY <1>4, <2>1, <2>3 DEF InTime
      <3>2. MarksAreRight'
        BY <1>1, <3>1, MarksKept DEF Marked
      <3>3. \A v \in Viewers : PlanHolds(v)'
        BY <1>1, <3>1, PlanKept DEF Marked
      <3> QED
        BY <2>2, <3>2, <3>3 DEF Marked
    <2>4. CASE active /\ ~Locked
      <3>1. \A v \in Viewers : stage[v] \notin {"save", "closing"}
        BY <2>4 DEF Phases, Locked
      <3>2. closings = 0
        BY <2>4 DEF Completions
      <3>3. \A r \in Questions : mark[r] = "unset"
        BY <2>4 DEF Marked, NotYet
      <3>4. MarksAreRight'
        BY <1>1, <1>4, <3>2, <3>3 DEF MarksAreRight
      <3>5. \A v \in Viewers : PlanHolds(v)'
        BY <1>1, <3>1 DEF PlanHolds
      <3> QED
        BY <2>2, <3>4, <3>5 DEF Marked
    <2> QED
      BY <2>3, <2>4
  <1> QED
    BY <1>2, <1>3, <1>4

\* Reading the answers plans the right mark for each.
LEMMA PlanRight ==
  ASSUME TypeOK, NEW q \in Questions
  PROVE  /\ q \notin rows => Plan[q] = "keep"
         /\ q \in rows => Plan[q] \in {"keep", pick[q]}
         /\ q \in rows /\ mark[q] = "unset" => Plan[q] = pick[q]
  BY DEF Plan, TypeOK, Picks

LEMMA ViewMarked ==
  ASSUME MarkInv, NEW v \in Viewers, View(v)
  PROVE  Marked'
  <1> USE DEF MarkInv, PhaseInv, Typed, TypeOK
  <1>1. CASE Get(v)
    <2>1. /\ active' = FALSE /\ \A u \in Viewers : stage[u] # "closing"
          /\ UNCHANGED <<rows, pick, mark, late, closings>>
      BY <1>1 DEF Get, ExpireIfNeeded, Due, Locked, Phases, rowVars, countVars
    <2>2. /\ \A u \in Viewers : u # v => stage'[u] = stage[u] /\ plan'[u] = plan[u]
          /\ stage'[v] # "closing"
          /\ plan'[v] \in {Plan, Nothing}
      BY <1>1, GapsType DEF Get, Reconcile, Read, Goto
    <2>3. /\ \A q \in Questions \ rows : plan'[v][q] = "keep"
          /\ \A q \in rows : plan'[v][q] \in {"keep", pick[q]}
      BY <2>2, PlanRight DEF Nothing
    <2>4. NotYet' /\ NoRow'
      BY <2>1, <2>2, <2>3 DEF Marked, NotYet, NoRow
    <2>5. MarksAreRight'
      BY <2>1, MarksKept DEF Marked, InTime
    <2>6. PlanHolds(v)'
      BY <2>1, <2>2, <2>3 DEF PlanHolds, InTime
    <2>7. \A u \in Viewers : u # v => PlanHolds(u)'
      BY <2>1, <2>2 DEF Marked, PlanHolds, InTime
    <2> QED
      BY <2>4, <2>5, <2>6, <2>7 DEF Marked
  <1>2. CASE Fill(v)
    <2>1. ~active /\ \A u \in Viewers : stage[u] # "closing"
      BY <1>2 DEF Fill, Phases
    <2>2. /\ UNCHANGED <<active, pick, mark, closings>>
          /\ rows \subseteq rows' /\ InTime' \subseteq InTime
      BY <1>2, GapsType DEF Fill, FillRows, InTime, quizVars, countVars, rowVars
    <2>3. /\ \A u \in Viewers : u # v => stage'[u] = stage[u] /\ plan'[u] = plan[u]
          /\ stage'[v] \in {"reread", "idle"} /\ plan'[v] \in {plan[v], Nothing}
      BY <1>2, GapsType DEF Fill, Stop, Goto
    <2>4. NotYet'
      BY <2>1, <2>2 DEF NotYet
    <2>5. \A q \in Questions, u \in Viewers : plan'[u][q] \in {plan[u][q], "keep"}
      BY <2>3 DEF Nothing
    <2>6. NoRow'
      BY <2>2, <2>5 DEF Marked, NoRow
    <2>7. MarksAreRight'
      BY <2>2, MarksKept DEF Marked, InTime
    <2>8. \A u \in Viewers : PlanHolds(u)'
      BY <2>1, <2>2, <2>3 DEF Marked, PlanHolds
    <2> QED
      BY <2>4, <2>6, <2>7, <2>8 DEF Marked
  <1>3. CASE Reread(v)
    <2>1. ~active /\ \A u \in Viewers : stage[u] # "closing"
      BY <1>3 DEF Reread, Phases
    <2>2. /\ UNCHANGED <<active, rows, pick, mark, late, closings>>
          /\ stage' = [stage EXCEPT ![v] = "save"] /\ plan' = [plan EXCEPT ![v] = Plan]
      BY <1>3 DEF Reread, Goto, quizVars, rowVars, countVars
    <2>3. NotYet' /\ NoRow'
      BY <2>2, PlanRight DEF Marked, NotYet, NoRow
    <2>4. MarksAreRight'
      BY <2>2, MarksKept DEF Marked, InTime
    <2>5. \A u \in Viewers : PlanHolds(u)'
      BY <2>1, <2>2, PlanRight DEF Marked, PlanHolds, InTime
    <2> QED
      BY <2>3, <2>4, <2>5 DEF Marked
  <1>4. CASE Save(v)
    <2>1. ~active /\ \A u \in Viewers : stage[u] # "closing"
      BY <1>4 DEF Save, Phases
    <2>2. /\ UNCHANGED <<active, rows, pick, late, closings>>
          /\ stage' = [stage EXCEPT ![v] = "idle"] /\ plan' = [plan EXCEPT ![v] = Nothing]
          /\ mark' = [q \in Questions |-> IF plan[v][q] # "keep" THEN plan[v][q] ELSE mark[q]]
      BY <1>4 DEF Save, Stop, Goto, Apply, quizVars, countVars
    <2>3. \A q \in InTime : plan[v][q] \in {"keep", pick[q]}
      BY <1>4 DEF Save, Marked, PlanHolds
    <2>4. MarksAreRight'
      BY <2>2, <2>3 DEF Marked, MarksAreRight, InTime, Picks
    <2>5. NotYet' /\ NoRow'
      BY <2>1, <2>2 DEF Marked, NotYet, NoRow, Nothing
    <2>6. \A u \in Viewers : PlanHolds(u)'
      BY <2>1, <2>2 DEF Marked, PlanHolds, InTime
    <2> QED
      BY <2>4, <2>5, <2>6 DEF Marked
  <1>5. CASE Close(v)
    <2>1. /\ active /\ UNCHANGED <<active, rows, pick, mark, late, closings>>
          /\ \A u \in Viewers : stage[u] \notin {"save", "closing"}
      BY <1>5 DEF Close, Locked, Phases, quizVars, rowVars, countVars
    <2>2. /\ stage' = [stage EXCEPT ![v] = "closing"]
          /\ gaps' = [gaps EXCEPT ![v] = Gaps]
          /\ plan' = [plan EXCEPT ![v] = IF Gaps = NoGaps THEN Plan ELSE Nothing]
      BY <1>5 DEF Close, Goto, Read
    <2>3. ASSUME Missing(v)' = {} PROVE Gaps = NoGaps
      <3>1. gaps'[v] = Gaps
        BY <2>2
      <3>2. \A q \in Questions : ~(Gaps[q] > 0)
        BY <2>3, <3>1 DEF Missing
      <3>3. \A q \in Questions : Gaps[q] = 0
        BY <3>2, GapsType
      <3> QED
        BY <3>3 DEF Gaps, NoGaps
    <2>4. \A q \in rows : Plan[q] = pick[q]
      BY <2>1, PlanRight DEF Marked, NotYet
    <2>5. \A q \in Questions \ rows : plan'[v][q] = "keep"
      BY <2>2, PlanRight DEF Nothing
    <2>6. NotYet' /\ NoRow'
      BY <2>1, <2>2, <2>5 DEF Marked, NotYet, NoRow
    <2>7. MarksAreRight'
      BY <2>1, MarksKept DEF Marked, InTime
    <2>8. PlanHolds(v)'
      BY <2>1, <2>2, <2>3, <2>4 DEF PlanHolds, InTime
    <2>9. \A u \in Viewers : u # v => PlanHolds(u)'
      BY <2>1, <2>2 DEF PlanHolds
    <2> QED
      BY <2>6, <2>7, <2>8, <2>9 DEF Marked
  <1>6. CASE CloseCommit(v)
    <2>1. active /\ stage[v] = "closing" /\ \A u \in Viewers : stage[u] # "save"
      BY <1>6 DEF CloseCommit, Phases
    <2>2. CASE ~Fits(v)
      <3>1. /\ UNCHANGED <<active, rows, pick, mark, late, closings>>
            /\ stage' = [stage EXCEPT ![v] = "idle"] /\ plan' = [plan EXCEPT ![v] = Nothing]
            /\ gaps' = [gaps EXCEPT ![v] = NoGaps]
        BY <1>6, <2>2 DEF CloseCommit, Stop, Goto
      <3>2. NotYet' /\ NoRow'
        BY <3>1 DEF Marked, NotYet, NoRow, Nothing
      <3>3. MarksAreRight'
        BY <3>1, MarksKept DEF Marked, InTime
      <3>4. \A u \in Viewers : PlanHolds(u)'
        BY <3>1 DEF Marked, PlanHolds, InTime, Missing
      <3> QED
        BY <3>2, <3>3, <3>4 DEF Marked
    <2>3. CASE Fits(v)
      <3>1. /\ active' = FALSE /\ UNCHANGED <<pick, late>>
            /\ stage' = [stage EXCEPT ![v] = "notify"] /\ plan' = [plan EXCEPT ![v] = Nothing]
        BY <1>6, <2>3 DEF CloseCommit, Goto
      <3>2. \A u \in Viewers : stage'[u] \notin {"save", "closing"}
        BY <2>1, <3>1 DEF Phases
      <3>3. /\ rows \subseteq rows'
            /\ \A q \in rows' \ late : mark'[q] = pick[q]
            /\ \A q \in Questions \ rows' : mark'[q] = "unset"
        <4>1. CASE Missing(v) = {}
          <5>1. \A q \in InTime : plan[v][q] = pick[q]
            BY <2>1, <4>1 DEF Marked, PlanHolds
          <5>2. /\ UNCHANGED rows
                /\ mark' = [q \in Questions |-> IF plan[v][q] # "keep" THEN plan[v][q] ELSE mark[q]]
            BY <1>6, <2>3, <4>1 DEF CloseCommit, Apply
          <5>3. \A q \in InTime : pick[q] # "keep"
            BY DEF InTime, Picks
          <5> QED
            BY <5>1, <5>2, <5>3 DEF Marked, NoRow, InTime
        <4>2. CASE Missing(v) # {}
          BY <1>6, <2>3, <4>2 DEF CloseCommit, FillRows, Missing
        <4> QED
          BY <4>1, <4>2
      <3>4. rows' \subseteq Questions
        BY <1>6, <2>3 DEF CloseCommit, FillRows, Missing
      <3>5. MarksAreRight'
        BY <3>1, <3>3, <3>4 DEF MarksAreRight, Picks
      <3>6. NotYet' /\ NoRow'
        BY <3>1, <3>3 DEF Marked, NotYet, NoRow, Nothing
      <3>7. \A u \in Viewers : PlanHolds(u)'
        BY <3>2 DEF PlanHolds
      <3> QED
        BY <3>5, <3>6, <3>7 DEF Marked
    <2> QED
      BY <2>2, <2>3
  <1>7. CASE Notify(v) \/ CrashViewer(v)
    <2>1. /\ UNCHANGED <<active, rows, pick, mark, late, closings>>
          /\ stage' = [stage EXCEPT ![v] = "idle"]
          /\ \A u \in Viewers : u # v => plan'[u] = plan[u] /\ gaps'[u] = gaps[u]
          /\ plan'[v] \in {plan[v], Nothing}
      BY <1>7, GapsType DEF Notify, CrashViewer, Stop, Goto, quizVars, rowVars, countVars
    <2>2. \A q \in Questions, u \in Viewers : plan'[u][q] \in {plan[u][q], "keep"}
      BY <2>1 DEF Nothing
    <2>3. NotYet' /\ NoRow'
      BY <2>1, <2>2 DEF Marked, NotYet, NoRow
    <2>4. MarksAreRight'
      BY <2>1, MarksKept DEF Marked, InTime
    <2>5. \A u \in Viewers : u # v => PlanHolds(u)'
      BY <2>1, PlanKept DEF Marked, InTime
    <2>6. PlanHolds(v)'
      BY <2>1 DEF PlanHolds
    <2> QED
      BY <2>3, <2>4, <2>5, <2>6 DEF Marked
  <1> QED
    BY <1>1, <1>2, <1>3, <1>4, <1>5, <1>6, <1>7 DEF View

LEMMA ManageMarked ==
  ASSUME MarkInv, NEW q \in Questions, Manage(q)
  PROVE  Marked'
  <1> USE DEF MarkInv, PhaseInv, Typed, TypeOK
  <1>1. CASE AddQuestion(q) \/ MoveQuestion(q)
    <2>1. UNCHANGED <<active, rows, pick, mark, late, closings, stage, gaps, plan>>
      BY <1>1 DEF AddQuestion, MoveQuestion, quizVars, rowVars, viewVars, countVars
    <2>2. MarksAreRight' /\ \A v \in Viewers : PlanHolds(v)'
      BY <2>1, MarksKept, PlanKept DEF Marked, InTime
    <2> QED
      BY <2>1, <2>2 DEF Marked, NotYet, NoRow
  <1>2. CASE DeleteAnswer(q) \/ DeleteQuestion(q)
    <2>1. /\ RemoveRow(q) /\ UNCHANGED closings /\ (active' => active)
          /\ plan' = [v \in Viewers |-> [plan[v] EXCEPT ![q] = "keep"]]
      BY <1>2 DEF DeleteAnswer, DeleteQuestion, ExpireIfNeeded, Forget, quizVars, countVars
    <2>2. /\ rows' = rows \ {q} /\ InTime' = InTime \ {q}
          /\ \A r \in Questions : r # q => pick'[r] = pick[r] /\ mark'[r] = mark[r]
          /\ mark'[q] = "unset"
      BY <2>1 DEF RemoveRow, InTime
    <2>3. \A v \in Viewers : /\ plan'[v][q] = "keep"
                             /\ \A r \in Questions : r # q => plan'[v][r] = plan[v][r]
      BY <2>1
    <2>4. \A v \in Viewers : /\ stage'[v] = "save" => stage[v] = "save"
                             /\ stage'[v] = "closing" => stage[v] = "closing" /\ gaps'[v] = gaps[v]
      BY <1>2 DEF DeleteAnswer, DeleteQuestion
    <2>5. InTime \subseteq Questions
      BY DEF InTime
    <2>6. MarksAreRight'
      BY <2>1, <2>2, <2>5, MarksKept DEF Marked
    <2>7. \A v \in Viewers : PlanHolds(v)'
      BY <2>2, <2>3, <2>4, <2>5, PlanKept DEF Marked
    <2>8. NotYet' /\ NoRow'
      BY <2>1, <2>2, <2>3 DEF Marked, NotYet, NoRow
    <2> QED
      BY <2>6, <2>7, <2>8 DEF Marked
  <1> QED
    BY <1>1, <1>2 DEF Manage

LEMMA NextMarked == MarkInv /\ [Next]_vars => MarkInv'
  <1> SUFFICES ASSUME MarkInv, [Next]_vars PROVE Marked'
    BY NextPhases DEF MarkInv
  <1>1. CASE Start \/ TooLate \/ Reopen \/ Tick \/ UNCHANGED vars
    <2>1. UNCHANGED <<rows, pick, mark, late, closings, stage, gaps, plan>>
      BY <1>1 DEF Start, TooLate, Reopen, Tick, vars, rowVars, viewVars, countVars
    <2>2. MarksAreRight' /\ \A v \in Viewers : PlanHolds(v)'
      BY <2>1, MarksKept, PlanKept DEF MarkInv, Marked, InTime
    <2>3. NoRow'
      BY <2>1 DEF MarkInv, Marked, NoRow
    <2>4. active' => active \/ rows = {}
      BY <1>1 DEF Start, TooLate, ExpireIfNeeded, Reopen, Tick, vars, quizVars,
        MarkInv, PhaseInv, Phases
    <2>5. NotYet'
      BY <2>1, <2>4 DEF MarkInv, Marked, NotYet, NoRow
    <2> QED
      BY <2>2, <2>3, <2>5 DEF Marked
  <1> QED
    BY <1>1, WriteMarked, ViewMarked, ManageMarked DEF Next

\* An answer given in time is scored for what was selected, and is scored once the
\* session is closed, however closes, reviews, answers and edits of the template race.
THEOREM MarksAlwaysRight == Spec => []MarksAreRight
  <1>1. MarkInv => MarksAreRight
    BY DEF MarkInv, Marked
  <1>2. Init => MarkInv
    BY InitPhases, InitMarked DEF MarkInv
  <1> QED
    BY NextMarked, <1>1, <1>2, PTL DEF Spec
-----------------------------------------------------------------------------
(* Questions that keep their positions *)

\* Once the session is started a question keeps its position or is deleted: questions
\* are appended, and deleted from the end, and none is moved.
QuestionsStay ==
  [][started # NoTime => \A q \in InTemplate : place'[q] \in {0, place[q]}]_vars

\* No two questions have one position.
Apart == \A p, q \in InTemplate : place[p] = place[q] => p = q

RowsPlaced == \A q \in rows : q \in InTemplate /\ order[q] = place[q]

PostsPlaced ==
  \A w \in Writers :
    /\ post[w].step \in {"look", "insert"} => post[w].q \in InTemplate
    /\ post[w].step = "insert" => post[w].pos = place[post[w].q]

GapsPlaced == \A v \in Viewers : \A q \in Questions : gaps[v][q] \in {0, place[q]}

\* What a close has to create, nobody else creates while it holds the row.
CloseAlone == \A v \in Viewers : stage[v] = "closing" => Missing(v) \cap rows = {}

Untouched == started = NoTime => \A v \in Viewers : gaps[v] = NoGaps

\* Every position a row has, or a request is about to give to one, is the question's.
Placed == Apart /\ RowsPlaced /\ PostsPlaced /\ GapsPlaced /\ CloseAlone /\ Untouched

\* A close that has looked at the session finds everything it creates free.
CloseFits == \A v \in Viewers : stage[v] = "closing" => Fits(v)

\* As many positions as questions: none is shared.
LEMMA PlacementsApart ==
  ASSUME NEW f \in Placements,
         NEW p \in Questions, NEW q \in Questions, f[p] > 0, f[q] > 0, f[p] = f[q]
  PROVE  p = q
  <1> DEFINE Q == {r \in Questions : f[r] > 0}
             n == Cardinality(Q)
             g == [r \in Q |-> f[r]]
  <1>1. f \in [Questions -> Nat]
    BY PlacementsAreFunctions
  <1>2. IsFiniteSet(Q) /\ n \in Nat
    BY QuestionsAssumption, FS_Subset, FS_CardinalityType
  <1>3. {f[r] : r \in Questions} \ {0} = 1..n
    BY DEF Placements
  <1>4. \A r \in Q : f[r] \in 1..n
    BY <1>1, <1>3
  <1>5. \A k \in 1..n : \E r \in Q : f[r] = k
    BY <1>1, <1>3
  <1>6. g \in [Q -> 1..n]
    BY <1>4
  <1> HIDE DEF Q, n
  <1>7. g \in Surjection(Q, 1..n)
    BY <1>5, <1>6, Fun_IsSurj
  <1>8. Cardinality(1..n) = n
    BY <1>2, FS_Interval
  <1>9. g \in Injection(Q, 1..n)
    BY <1>2, <1>7, <1>8, FS_SurjSameCardinalityImpliesInj DEF n
  <1>10. \A a, b \in Q : g[a] = g[b] => a = b
    BY <1>9, Fun_InjectionProperties
  <1> QED
    BY <1>10 DEF Q

\* A reordering in which the questions stay.
LEMMA ReorderPlaced ==
  ASSUME TypeOK, NEW Q \in SUBSET Questions, NEW Kept, Reorder(Q, Kept)
  PROVE  /\ InTemplate' = Q /\ Apart'
         /\ (\A q \in InTemplate : place'[q] \in {0, place[q]})
              => \A q \in InTemplate \cap Q : place'[q] = place[q]
  <1>1. place' \in Placements /\ InTemplate' = Q
    BY DEF Reorder, InTemplate
  <1>2. Apart'
    BY <1>1, PlacementsApart DEF Apart, InTemplate
  <1>3. \A q \in Q : place'[q] # 0
    BY <1>1 DEF InTemplate
  <1> QED
    BY <1>1, <1>2, <1>3

LEMMA InitPlaced == Init => Placed
  <1> SUFFICES ASSUME Init PROVE Placed
    OBVIOUS
  <1>1. Apart
    BY PlacementsApart DEF Init, Apart, InTemplate
  <1> QED
    BY <1>1 DEF Init, Placed, RowsPlaced, PostsPlaced, GapsPlaced, CloseAlone, Untouched, NoGaps, NoPost

LEMMA WritePlaced ==
  ASSUME PhaseInv, Placed, NEW w \in Writers, Write(w)
  PROVE  Placed'
  <1> USE DEF PhaseInv, Typed, TypeOK, Placed
  <1>1. UNCHANGED <<place, started, stage, gaps>>
    BY DEF Write, AdmitPost, AdmitEdit, Admit, LookFound, LookMissing, Insert, Edit, CrashWriter,
      templateVars, quizVars, viewVars
  <1>2. Apart' /\ GapsPlaced' /\ Untouched' /\ InTemplate' = InTemplate
    BY <1>1 DEF Apart, GapsPlaced, Untouched, InTemplate
  <1>3. \/ UNCHANGED rows
        \/ \A v \in Viewers : stage[v] # "closing"
    BY DEF Write, AdmitPost, AdmitEdit, Admit, LookFound, LookMissing, Insert, Edit, CrashWriter,
      rowVars, Locked
  <1>4. CloseAlone'
    BY <1>1, <1>3 DEF CloseAlone, Missing
  <1>5. RowsPlaced'
    <2>1. CASE UNCHANGED <<rows, order>>
      BY <1>1, <1>2, <2>1 DEF RowsPlaced
    <2>2. CASE LookFound(w)
      <3>1. post[w].q \in rows /\ UNCHANGED rows
        BY <2>2 DEF LookFound
      <3>2. \/ order' = [order EXCEPT ![post[w].q] = place[post[w].q]]
            \/ UNCHANGED order
        BY <2>2 DEF LookFound
      <3> QED
        BY <1>1, <1>2, <3>1, <3>2 DEF RowsPlaced
    <2>3. CASE Insert(w)
      <3>1. /\ post[w].q \in Questions /\ post[w].q \in InTemplate
            /\ post[w].pos = place[post[w].q]
        BY <2>3, PostFields DEF Insert, PostsPlaced
      <3>2. \/ UNCHANGED <<rows, order>>
            \/ /\ rows' = rows \cup {post[w].q}
               /\ order' = [order EXCEPT ![post[w].q] = post[w].pos]
        BY <2>3 DEF Insert
      <3> QED
        BY <1>1, <1>2, <2>1, <3>1, <3>2 DEF RowsPlaced
    <2> QED
      BY <2>1, <2>2, <2>3 DEF Write, AdmitPost, AdmitEdit, Admit, LookMissing, Edit, CrashWriter, rowVars
  <1>6. PostsPlaced'
    <2>1. ASSUME NEW q \in Questions, NEW p \in Picks, AdmitPost(w, q, p) \/ AdmitEdit(w, q, p)
          PROVE  PostsPlaced'
      <3>1. /\ q \in InTemplate \/ post'[w].step = "edit"
            /\ post'[w].q = q /\ post'[w].step \in {"look", "edit"}
            /\ \A u \in Writers \ {w} : post'[u] = post[u]
        BY <2>1 DEF AdmitPost, AdmitEdit, Admit, InTemplate
      <3> QED
        BY <1>1, <1>2, <3>1 DEF PostsPlaced
    <2>2. CASE LookFound(w) \/ Insert(w) \/ Edit(w) \/ CrashWriter(w)
      BY <1>1, <1>2, <2>2 DEF LookFound, Insert, Edit, CrashWriter, Finish, NoPost, PostsPlaced
    <2>3. CASE LookMissing(w)
      <3> DEFINE r == [post[w] EXCEPT !.step = "insert", !.pos = place[post[w].q]]
      <3>1. post[w] \in Posts /\ post[w].q \in InTemplate
        BY <2>3, PostFields DEF LookMissing, PostsPlaced
      <3>2. r.q = post[w].q /\ r.pos = place[post[w].q] /\ r.step = "insert"
        BY <3>1 DEF Posts
      <3>3. post' = [post EXCEPT ![w] = r] \/ post' = [post EXCEPT ![w] = NoPost]
        BY <2>3 DEF LookMissing, Finish
      <3> HIDE DEF r
      <3>4. CASE post' = [post EXCEPT ![w] = r]
        BY <1>1, <1>2, <3>1, <3>2, <3>4 DEF PostsPlaced
      <3>5. CASE post' = [post EXCEPT ![w] = NoPost]
        BY <1>1, <1>2, <3>5 DEF PostsPlaced, NoPost
      <3> QED
        BY <3>3, <3>4, <3>5
    <2> QED
      BY <2>1, <2>2, <2>3 DEF Write
  <1> QED
    BY <1>2, <1>4, <1>5, <1>6

LEMMA ViewPlaced ==
  ASSUME PhaseInv, Placed, NEW v \in Viewers, View(v)
  PROVE  Placed'
  <1> USE DEF PhaseInv, Typed, TypeOK, Placed
  <1>1. UNCHANGED <<place, started, post>>
    BY DEF View, Get, Fill, Reread, Save, Close, CloseCommit, Notify, CrashViewer, templateVars, quizVars
  <1>2. Apart' /\ PostsPlaced' /\ InTemplate' = InTemplate
    BY <1>1 DEF Apart, PostsPlaced, InTemplate
  <1>3. started # NoTime
    <2>1. stage[v] # "idle" => started # NoTime
      BY DEF Phases, Stages
    <2> QED
      BY <2>1 DEF View, Get, Fill, Reread, Save, Close, CloseCommit, Notify, CrashViewer
  <1>4. Untouched'
    BY <1>1, <1>3 DEF Untouched
  <1>5. \A u \in Viewers : gaps'[u] \in {gaps[u], Gaps, NoGaps} /\ (u # v => gaps'[u] = gaps[u])
    BY DEF View, Get, Reconcile, Read, Fill, Reread, Save, Close, CloseCommit, Notify, CrashViewer, Stop, viewVars
  <1>6. GapsPlaced'
    BY <1>1, <1>5 DEF GapsPlaced, Gaps, NoGaps
  <1>7. \/ UNCHANGED <<rows, order>>
        \/ FillRows(v) /\ stage'[v] # "closing" /\ \A u \in Viewers \ {v} : stage[u] # "closing"
    BY DEF View, Get, Fill, Goto, Stop, Reread, Save, Close, CloseCommit, Notify, CrashViewer, rowVars, Locked, Phases
  <1>8. RowsPlaced'
    <2>1. CASE UNCHANGED <<rows, order>>
      BY <1>2, <1>1, <2>1 DEF RowsPlaced
    <2>2. CASE FillRows(v)
      <3>1. \A q \in Missing(v) : q \in Questions /\ q \in InTemplate /\ gaps[v][q] = place[q]
        BY DEF Missing, GapsPlaced, InTemplate
      <3>2. rows' = rows \cup Missing(v)
        BY <2>2 DEF FillRows
      <3>3. \A q \in Questions : order'[q] = IF q \in Missing(v) THEN gaps[v][q] ELSE order[q]
        BY <2>2 DEF FillRows
      <3> QED
        BY <1>1, <1>2, <3>1, <3>2, <3>3 DEF RowsPlaced
    <2> QED
      BY <1>7, <2>1, <2>2
  <1>9. \A u \in Viewers \ {v} : stage'[u] = stage[u]
    BY DEF View, Get, Reconcile, Goto, Fill, Stop, Reread, Save, Close, CloseCommit, Notify, CrashViewer
  <1>10. stage'[v] = "closing" => UNCHANGED rows /\ gaps'[v] = Gaps
    <2>1. CASE Close(v)
      BY <2>1 DEF Close, Read, rowVars
    <2>2. CASE ~Close(v)
      BY <2>2 DEF View, Get, Reconcile, Goto, Fill, Stop, Reread, Save, CloseCommit, Notify, CrashViewer
    <2> QED
      BY <2>1, <2>2
  <1>11. CloseAlone'
    <2>1. ASSUME stage'[v] = "closing" PROVE Missing(v)' \cap rows' = {}
      <3>1. \A q \in Questions : gaps'[v][q] > 0 => q \notin rows'
        BY <1>10, <2>1 DEF Gaps
      <3> QED
        BY <3>1 DEF Missing
    <2>2. ASSUME NEW u \in Viewers \ {v}, stage'[u] = "closing" PROVE Missing(u)' \cap rows' = {}
      <3>1. UNCHANGED rows /\ stage[u] = "closing" /\ gaps'[u] = gaps[u]
        BY <1>5, <1>7, <1>9, <2>2
      <3> QED
        BY <3>1 DEF CloseAlone, Missing
    <2> QED
      BY <2>1, <2>2 DEF CloseAlone
  <1> QED
    BY <1>2, <1>4, <1>6, <1>8, <1>11

LEMMA ManagePlaced ==
  ASSUME PhaseInv, Placed, NEW q \in Questions, Manage(q),
         started # NoTime => \A r \in InTemplate : place'[r] \in {0, place[r]}
  PROVE  Placed'
  <1> USE DEF PhaseInv, Typed, TypeOK, Placed
  <1>1. CASE DeleteAnswer(q)
    <2>1. UNCHANGED <<place, started, stage, gaps>> /\ InTemplate' = InTemplate
      BY <1>1 DEF DeleteAnswer, templateVars, InTemplate
    <2>2. /\ rows' = rows \ {q} /\ \A r \in Questions \ {q} : order'[r] = order[r]
          /\ \A w \in Writers : post'[w] \in {post[w], NoPost}
      BY <1>1 DEF DeleteAnswer, RemoveRow, Forget
    <2>3. Apart' /\ GapsPlaced' /\ Untouched' /\ CloseAlone'
      BY <2>1, <2>2 DEF Apart, GapsPlaced, Untouched, CloseAlone, Missing
    <2>4. RowsPlaced' /\ PostsPlaced'
      BY <2>1, <2>2 DEF RowsPlaced, PostsPlaced, NoPost
    <2> QED
      BY <2>3, <2>4
  <1>2. CASE AddQuestion(q) \/ MoveQuestion(q)
    <2>1. UNCHANGED <<quizVars, rowVars, post, viewVars>>
      BY <1>2 DEF AddQuestion, MoveQuestion
    <2>2. PICK Q \in SUBSET Questions : InTemplate \subseteq Q /\ \E Kept : Reorder(Q, Kept)
      BY <1>2 DEF AddQuestion, MoveQuestion, InTemplate
    <2>3. /\ InTemplate' = Q /\ Apart'
          /\ started # NoTime => \A r \in InTemplate : place'[r] = place[r]
      BY <2>2, ReorderPlaced
    <2>4. Untouched' /\ CloseAlone'
      BY <2>1 DEF Untouched, CloseAlone, Missing, quizVars, rowVars, viewVars
    <2>5. CASE started = NoTime
      <3>1. rows' = {} /\ \A w \in Writers : post'[w] = NoPost
        BY <2>1, <2>5 DEF Phases, rowVars
      <3>2. \A v \in Viewers : gaps'[v] = NoGaps
        BY <2>1, <2>5 DEF Untouched, viewVars
      <3> QED
        BY <2>3, <2>4, <3>1, <3>2 DEF RowsPlaced, PostsPlaced, GapsPlaced, NoPost, NoGaps
    <2>6. CASE started # NoTime
      <3>1. \A r \in InTemplate : place'[r] = place[r] /\ r \in InTemplate'
        BY <2>2, <2>3, <2>6
      <3>2. RowsPlaced'
        BY <2>1, <3>1 DEF RowsPlaced, rowVars
      <3>3. PostsPlaced'
        BY <2>1, <3>1 DEF PostsPlaced
      <3>4. \A r \in Questions \ InTemplate : place[r] = 0
        BY DEF InTemplate
      <3>5. GapsPlaced'
        BY <2>1, <3>1, <3>4 DEF GapsPlaced, viewVars
      <3> QED
        BY <2>3, <2>4, <3>2, <3>3, <3>5
    <2> QED
      BY <2>5, <2>6
  <1>3. CASE DeleteQuestion(q)
    <2>1. Reorder(InTemplate \ {q}, InTemplate \ {q}) /\ InTemplate \ {q} \in SUBSET Questions
      BY <1>3 DEF DeleteQuestion, InTemplate
    <2>2. /\ InTemplate' = InTemplate \ {q} /\ Apart'
          /\ started # NoTime => \A r \in InTemplate \ {q} : place'[r] = place[r]
      BY <2>1, ReorderPlaced
    <2>3. /\ UNCHANGED quizVars /\ rows' = rows \ {q}
          /\ \A r \in Questions \ {q} : order'[r] = order[r]
      BY <1>3 DEF DeleteQuestion, RemoveRow
    <2>4. \A w \in Writers :
            \/ post'[w] = NoPost
            \/ post'[w] = post[w] /\ ~(post[w].step \in {"look", "insert", "edit"} /\ post[w].q = q)
      BY <1>3 DEF DeleteQuestion, Forget
    <2>5. \A v \in Viewers :
            /\ gaps'[v] = IF gaps[v][q] > 0 THEN NoGaps ELSE gaps[v]
            /\ stage'[v] = "closing" => stage[v] = "closing"
      BY <1>3 DEF DeleteQuestion
    <2>6. Untouched' /\ CloseAlone'
      BY <2>3, <2>5 DEF Untouched, CloseAlone, Missing, NoGaps, quizVars
    <2>7. CASE started = NoTime
      <3>1. rows' = {} /\ \A w \in Writers : post'[w] = NoPost
        BY <2>3, <2>4, <2>7 DEF Phases
      <3>2. \A v \in Viewers : gaps'[v] = NoGaps
        BY <2>5, <2>7 DEF Untouched
      <3> QED
        BY <2>2, <2>6, <3>1, <3>2 DEF RowsPlaced, PostsPlaced, GapsPlaced, NoPost, NoGaps
    <2>8. CASE started # NoTime
      <3>1. \A r \in InTemplate \ {q} : place'[r] = place[r] /\ r \in InTemplate'
        BY <2>2, <2>8
      <3>2. RowsPlaced'
        BY <2>3, <3>1 DEF RowsPlaced
      <3>3. PostsPlaced'
        BY <2>4, <3>1 DEF PostsPlaced, NoPost
      <3>4. \A r \in Questions \ InTemplate : place[r] = 0
        BY DEF InTemplate
      <3>5. GapsPlaced'
        BY <2>5, <3>1, <3>4 DEF GapsPlaced, NoGaps
      <3> QED
        BY <2>2, <2>6, <3>2, <3>3, <3>5
    <2> QED
      BY <2>7, <2>8
  <1> QED
    BY <1>1, <1>2, <1>3 DEF Manage

LEMMA NextPlaced ==
  /\ PhaseInv /\ Placed /\ [Next]_vars
  /\ [started # NoTime => \A q \in InTemplate : place'[q] \in {0, place[q]}]_vars
  => Placed'
  <1> SUFFICES ASSUME PhaseInv, Placed, [Next]_vars,
                      [started # NoTime => \A q \in InTemplate : place'[q] \in {0, place[q]}]_vars
               PROVE  Placed'
    OBVIOUS
  <1>1. CASE Start \/ TooLate \/ Reopen \/ Tick \/ UNCHANGED vars
    <2>1. UNCHANGED <<place, rows, order, post, stage, gaps>> /\ (started' = NoTime => started = NoTime)
      BY <1>1, NoTimeAssumption DEF Start, TooLate, Reopen, Tick, vars, templateVars, quizVars, rowVars,
        viewVars, PhaseInv, Typed, TypeOK
    <2> QED
      BY <2>1 DEF Placed, Apart, RowsPlaced, PostsPlaced, GapsPlaced, CloseAlone, Untouched, Missing, InTemplate
  <1>2. ASSUME NEW q \in Questions, Manage(q) PROVE Placed'
    <2>1. CASE UNCHANGED vars
      BY <1>1, <2>1
    <2>2. CASE ~UNCHANGED vars
      BY <1>2, <2>2, ManagePlaced
    <2> QED
      BY <2>1, <2>2
  <1> QED
    BY <1>1, <1>2, WritePlaced, ViewPlaced DEF Next

\* While the questions stay where they are, whoever creates an answer finds its
\* position free: the disagreement of positions that the documentation rules out is
\* the work of moved questions alone, and of no race between answers, reviews and closes.
THEOREM PositionsAgreeUnmoved == Spec /\ QuestionsStay => []PositionsAgree
  <1>1. Placed => PositionsAgree
    BY DEF Placed, Apart, RowsPlaced, PositionsAgree, PositionFree
  <1> QED
    BY InitPhases, NextPhases, InitPlaced, NextPlaced, <1>1, PTL DEF Spec, QuestionsStay

\* Nor is a close then ever refused by the unique constraints of the answers.
THEOREM ClosesFitUnmoved == Spec /\ QuestionsStay => []CloseFits
  <1>1. PhaseInv /\ Placed => CloseFits
    <2> SUFFICES ASSUME PhaseInv, Placed, NEW v \in Viewers, stage[v] = "closing",
                        NEW q \in Missing(v)
                 PROVE  q \notin rows /\ PositionFree(gaps[v][q], q)
      BY DEF CloseFits, Fits
    <2>1. q \notin rows
      BY DEF Placed, CloseAlone
    <2>2. q \in InTemplate /\ gaps[v][q] = place[q]
      BY DEF Placed, GapsPlaced, Missing, InTemplate
    <2> QED
      BY <2>1, <2>2 DEF Placed, Apart, RowsPlaced, PositionFree
  <1> QED
    BY InitPhases, NextPhases, InitPlaced, NextPlaced, <1>1, PTL DEF Spec, QuestionsStay
===============================================================================
