-------------------------- MODULE ClientPages_proofs --------------------------
(***************************************************************************)
(* Proofs about the pages of the Angular client, one section for each page *)
(* and one for the visit of any of them.                                   *)
(***************************************************************************)
EXTENDS ClientPages, TemplateSaves_proofs

-------------------------------------------------------------------------------
(* The quiz. *)

LEMMA FirstQuestion == 1 \in Questions /\ {} \in Selections
  BY PlayerAssumption DEF Questions, Selections

LEMMA PlayerInitType == PlayerInit => PlayerTypeOK
  BY FirstQuestion DEF PlayerInit, PlayerTypeOK

\* What persistAnswer does keeps saves and closing in their types.
LEMMA PersistType ==
  ASSUME PlayerTypeOK, NEW payload \in Payloads, PersistAnswer(payload)
  PROVE  /\ saves' \in [Slots -> Saves \cup {NoSave}]
         /\ closing' \in {"no", "finish", "timer"}
<1>1. CASE UNCHANGED saves /\ CloseAndRedirect("timer")
  BY <1>1 DEF PlayerTypeOK, CloseAndRedirect
<1>2. CASE /\ UNCHANGED closing
           /\ \E i \in Slots :
                saves' = [saves EXCEPT ![i] =
                  [question |-> payload.question, picked |-> payload.picked,
                   then |-> payload.then, stage |-> "sent"]]
  <2>1. [question |-> payload.question, picked |-> payload.picked,
         then |-> payload.then, stage |-> "sent"] \in Saves
    BY DEF Payloads, Saves
  <2>2. QED
    BY <1>2, <2>1 DEF PlayerTypeOK
<1>3. QED
  BY <1>1, <1>2 DEF PersistAnswer

LEMMA LeaveType == ASSUME LeavePage PROVE
  /\ page' = "away" /\ review' = FALSE /\ current' \in Questions
  /\ shown' \in [Questions -> Selections]
  /\ asking' = NoSave /\ closing' = "no" /\ emitted' = FALSE
  /\ saves' \in [Slots -> Saves \cup {NoSave}] /\ chosen' \in BOOLEAN
BY FirstQuestion DEF LeavePage

LEMMA GoesToQuestion ==
  ASSUME PlayerTypeOK, NEW s \in Saves
  PROVE  GoesTo(s) \in Questions
BY PlayerAssumption DEF PlayerTypeOK, GoesTo, Saves, Questions

LEMMA PlayerStepType == PlayerTypeOK /\ [PlayerNext]_playerVars => PlayerTypeOK'
<1> SUFFICES ASSUME PlayerTypeOK, [PlayerNext]_playerVars PROVE PlayerTypeOK'
  OBVIOUS
<1> USE DEF PlayerTypeOK
<1>1. CASE Open
  BY <1>1 DEF Open, closeVars, sessionVars, watchVars
<1>2. CASE List
  <2>1. PICK last \in {Count} \cup (PageSize..Count) :
          shown' = [q \in Questions |-> IF q <= last THEN stored[q] ELSE {}]
    BY <1>2 DEF List
  <2>2. shown' \in [Questions -> Selections]
    BY <2>1 DEF Selections
  <2>3. QED
    BY <1>2, <2>2 DEF List, closeVars, sessionVars, watchVars
<1>3. CASE Loaded
  BY <1>3, FirstQuestion DEF Loaded, closeVars, sessionVars
<1>4. CASE LoadFails
  BY <1>4 DEF LoadFails, closeVars, sessionVars, watchVars
<1>5. CASE Leave
  BY <1>5, LeaveType DEF Leave, sessionVars
<1>6. CASE Select
  <2>1. Toggled(shown[current]) \in Selections
    BY PlayerAssumption DEF Toggled, Selections
  <2>2. shown' \in [Questions -> Selections]
    BY <1>6, <2>1 DEF Select
  <2>3. chosen' \in BOOLEAN
    <3>1. CASE current = watched
      <4>1. chosen' = (watched \in Toggled(shown[watched]))
        BY <1>6, <3>1, Zenon DEF Select
      <4>2. \A P : (watched \in P) \in BOOLEAN
        OBVIOUS
      <4>3. QED
        BY <4>1, <4>2
    <3>2. CASE current # watched
      BY <1>6, <3>2, Zenon DEF Select
    <3>3. QED
      BY <3>1, <3>2
  <2>4. QED
    BY <1>6, <2>2, <2>3 DEF Select, closeVars, sessionVars
<1>7. CASE AskFinish
  <2>1. Payload("close") \in Payloads
    BY DEF Payload, Payloads, Selections
  <2>2. QED
    BY <1>7, <2>1 DEF AskFinish, closeVars, sessionVars, watchVars
<1>8. CASE CancelFinish
  BY <1>8 DEF CancelFinish, closeVars, sessionVars, watchVars
<1>9. CASE AcceptFinish
  <2>1. asking \in Payloads
    BY <1>9 DEF AcceptFinish
  <2>2. QED
    BY <1>9, <2>1, PersistType DEF AcceptFinish, sessionVars, watchVars
<1>10. CASE \E q \in Questions : Pad(q)
  BY <1>10 DEF Pad, closeVars, sessionVars, watchVars
<1>11. ASSUME NEW then \in {"next", "prev"}, Turn(then) PROVE PlayerTypeOK'
  <2>1. Payload(then) \in Payloads
    BY DEF Payload, Payloads, Selections
  <2>2. /\ saves' \in [Slots -> Saves \cup {NoSave}]
        /\ closing' \in {"no", "finish", "timer"}
    BY <1>11, <2>1, PersistType DEF Turn
  <2>3. current' \in Questions
    BY <1>11, PlayerAssumption DEF Turn, CanTurn, Questions
  <2>4. QED
    BY <1>11, <2>2, <2>3 DEF Turn, sessionVars, watchVars
<1>12. ASSUME NEW i \in Slots, Store(i) PROVE PlayerTypeOK'
  <2>1. saves[i] \in Saves
    BY <1>12 DEF Store, Under
  <2>2. [saves[i] EXCEPT !.stage = "stored"] \in Saves
    BY <2>1 DEF Saves
  <2>3. saves' \in [Slots -> Saves \cup {NoSave}]
    BY <1>12, <2>2 DEF Store
  <2>4. stored' \in [Questions -> Selections]
    BY <1>12, <2>1 DEF Store, Saves
  <2>5. QED
    BY <1>12, <2>3, <2>4 DEF Store, pageVars, closeVars, watchVars
<1>13. ASSUME NEW i \in Slots, SaveAnswered(i) PROVE PlayerTypeOK'
  <2>1. saves[i] \in Saves
    BY <1>13 DEF SaveAnswered, Under
  <2>2. current' \in Questions
    BY <1>13, <2>1, GoesToQuestion DEF SaveAnswered
  <2>3. closing' \in {"no", "finish", "timer"}
    BY <1>13 DEF SaveAnswered, CloseAndRedirect
  <2>4. shown' \in [Questions -> Selections]
    BY <1>13, <2>1 DEF SaveAnswered, Saves
  <2>5. saves' \in [Slots -> Saves \cup {NoSave}]
    BY <1>13 DEF SaveAnswered
  <2>6. QED
    BY <1>13, <2>2, <2>3, <2>4, <2>5 DEF SaveAnswered, sessionVars, watchVars
<1>14. ASSUME NEW i \in Slots, SaveFails(i) PROVE PlayerTypeOK'
  <2>1. closing' \in {"no", "finish", "timer"}
    BY <1>14 DEF SaveFails, CloseAndRedirect
  <2>2. saves' \in [Slots -> Saves \cup {NoSave}]
    BY <1>14 DEF SaveFails
  <2>3. QED
    BY <1>14, <2>1, <2>2 DEF SaveFails, pageVars, sessionVars, watchVars
<1>15. CASE TimePasses
  BY <1>15 DEF TimePasses, pageVars, closeVars, sessionVars, watchVars
<1>16. CASE Tick
  BY <1>16 DEF Tick, CloseAndRedirect, pageVars, sessionVars, watchVars
<1>17. CASE ServerCloses
  BY <1>17 DEF ServerCloses, pageVars, closeVars, watchVars
<1>18. CASE Closed
  BY <1>18, LeaveType DEF Closed, sessionVars
<1>19. CASE CloseFails
  <2>1. CASE LeavePage
    BY <1>19, <2>1, LeaveType DEF CloseFails, sessionVars
  <2>2. CASE ~LeavePage
    BY <1>19, <2>2 DEF CloseFails, pageVars, sessionVars
  <2>3. QED
    BY <2>1, <2>2
<1>20. CASE UNCHANGED playerVars
  BY <1>20 DEF playerVars, pageVars, closeVars, sessionVars, watchVars
<1>21. QED
  BY <1>1, <1>2, <1>3, <1>4, <1>5, <1>6, <1>7, <1>8, <1>9, <1>10, <1>11, <1>12,
     <1>13, <1>14, <1>15, <1>16, <1>17, <1>18, <1>19, <1>20 DEF PlayerNext

\* Every value stays in its type.
THEOREM PlayerTypeCorrect == PlayerSpec => []PlayerTypeOK
  BY PlayerInitType, PlayerStepType, PTL DEF PlayerSpec

\* A review is of a session that takes no more answers; that, and what it means
\* for the close, is inductive.
CloseInv ==
  /\ review => closed
  /\ NeverClosesEarly

LEMMA LockedIsOver ==
  ASSUME CloseInv, Locked, CloseAndRedirect("timer"), UNCHANGED <<review, up, closed>>
  PROVE  CloseInv'
BY DEF CloseInv, NeverClosesEarly, Locked, CloseAndRedirect

LEMMA CloseStep == CloseInv /\ [PlayerNext]_playerVars => CloseInv'
<1> SUFFICES ASSUME CloseInv, [PlayerNext]_playerVars PROVE CloseInv'
  OBVIOUS
<1> USE DEF closeVars, sessionVars, pageVars
<1>1. CASE UNCHANGED <<review, closing, up, closed>>
  BY <1>1 DEF CloseInv, NeverClosesEarly
<1>2. CASE LeavePage
  BY <1>2 DEF LeavePage, CloseInv, NeverClosesEarly
<1>3. ASSUME NEW payload, PersistAnswer(payload), UNCHANGED <<review, up, closed>>
      PROVE  CloseInv'
  BY <1>1, <1>3, LockedIsOver DEF PersistAnswer
<1>4. ASSUME NEW i \in Slots, SaveAnswered(i) PROVE CloseInv'
  BY <1>4 DEF SaveAnswered, CloseAndRedirect, CloseInv, NeverClosesEarly
<1>5. ASSUME NEW i \in Slots, SaveFails(i) PROVE CloseInv'
  BY <1>5 DEF SaveFails, CloseAndRedirect, CloseInv, NeverClosesEarly
<1>6. CASE Loaded
  BY <1>6 DEF Loaded, CloseInv, NeverClosesEarly
<1>7. CASE Tick
  BY <1>7 DEF Tick, CloseAndRedirect, CloseInv, NeverClosesEarly
<1>8. CASE TimePasses \/ ServerCloses
  BY <1>8 DEF TimePasses, ServerCloses, CloseInv, NeverClosesEarly
<1>9. CASE CloseFails
  <2>1. CASE closing = "finish" /\ closing' = "no" /\ UNCHANGED <<review, up, closed>>
    BY <2>1 DEF CloseInv, NeverClosesEarly
  <2>2. QED
    BY <1>2, <1>9, <2>1 DEF CloseFails
<1>10. ASSUME NEW then \in {"next", "prev"}, Turn(then) PROVE CloseInv'
  BY <1>1, <1>3, <1>10 DEF Turn
<1>11. CASE Leave \/ Closed
  BY <1>2, <1>11 DEF Leave, Closed
<1>12. CASE AcceptFinish
  BY <1>3, <1>12 DEF AcceptFinish
<1>13. CASE Open \/ List \/ LoadFails \/ Select \/ AskFinish \/ CancelFinish
  BY <1>1, <1>13 DEF Open, List, LoadFails, Select, AskFinish, CancelFinish
<1>14. ASSUME NEW q \in Questions, Pad(q) PROVE CloseInv'
  BY <1>1, <1>14 DEF Pad
<1>15. ASSUME NEW i \in Slots, Store(i) PROVE CloseInv'
  BY <1>1, <1>15 DEF Store
<1>16. CASE UNCHANGED playerVars
  BY <1>1, <1>16 DEF playerVars
<1>17. QED
  BY <1>4, <1>5, <1>6, <1>7, <1>8, <1>9, <1>10, <1>11, <1>12, <1>13, <1>14, <1>15,
     <1>16 DEF PlayerNext

\* A close for want of time means that the time is up or the session closed.
THEOREM ClosesInTime == PlayerSpec => []NeverClosesEarly
<1>1. PlayerInit => CloseInv
  BY DEF PlayerInit, CloseInv, NeverClosesEarly
<1>2. CloseInv => NeverClosesEarly
  BY DEF CloseInv
<1>3. QED
  BY <1>1, <1>2, CloseStep, PTL DEF PlayerSpec

\* The signal of the countdown is not lost, but in a finish that fails.
THEOREM SignalIsHeard == PlayerSpec => TimeUpCloses
<1> DEFINE Heard ==
      emitted' /\ page' = "open" /\ closing' = "no" =>
        closing = "finish" \/ (emitted /\ closing = "no")
<1>1. ASSUME [PlayerNext]_playerVars PROVE Heard
  <2> USE DEF closeVars, pageVars
  <2>1. CASE UNCHANGED <<emitted, closing>>
    BY <2>1
  <2>2. CASE LeavePage
    BY <2>2 DEF LeavePage
  <2>3. ASSUME NEW who \in {"finish", "timer"}, CloseAndRedirect(who) PROVE Heard
    BY <2>3 DEF CloseAndRedirect
  <2>4. ASSUME NEW payload, PersistAnswer(payload), UNCHANGED emitted PROVE Heard
    BY <2>1, <2>3, <2>4 DEF PersistAnswer
  <2>5. CASE CloseFails
    BY <2>2, <2>5 DEF CloseFails
  <2>6. ASSUME NEW then \in {"next", "prev"}, Turn(then) PROVE Heard
    BY <2>1, <2>4, <2>6 DEF Turn
  <2>7. ASSUME NEW i \in Slots, Store(i) \/ SaveAnswered(i) \/ SaveFails(i) PROVE Heard
    BY <2>1, <2>3, <2>7 DEF Store, SaveAnswered, SaveFails
  <2>8. CASE Leave \/ Closed
    BY <2>2, <2>8 DEF Leave, Closed
  <2>9. CASE Tick
    BY <2>3, <2>9 DEF Tick
  <2>10. CASE AcceptFinish
    BY <2>4, <2>10 DEF AcceptFinish
  <2>11. CASE \/ Open \/ List \/ Loaded \/ LoadFails \/ Select \/ AskFinish \/ CancelFinish
              \/ TimePasses \/ ServerCloses
    BY <2>1, <2>11
       DEF Open, List, Loaded, LoadFails, Select, AskFinish, CancelFinish, TimePasses, ServerCloses
  <2>12. ASSUME NEW q \in Questions, Pad(q) PROVE Heard
    BY <2>1, <2>12 DEF Pad
  <2>13. CASE UNCHANGED playerVars
    BY <2>1, <2>13 DEF playerVars
  <2>14. QED
    BY <1>1, <2>5, <2>6, <2>7, <2>8, <2>9, <2>10, <2>11, <2>12, <2>13 DEF PlayerNext
<1>2. QED
  BY <1>1, PTL DEF PlayerSpec, TimeUpCloses
\* A step that leaves the watched question, the screen and every save that
\* carries it as they are keeps the selection settled.
LEMMA StaysSettled ==
  ASSUME Settled, page' = "open",
         UNCHANGED <<shown, stored, watched, chosen>>,
         current' = current \/ current # watched,
         \A i \in Slots : Carries(i) => Carries(i)'
  PROVE  Settled'
BY DEF Settled

LEMMA CarriesOn ==
  ASSUME NEW i \in Slots, Carries(i), saves'[i] = saves[i], UNCHANGED <<watched, chosen>>
  PROVE  Carries(i)'
BY DEF Carries, Under

\* persistAnswer changes an empty slot at most.
LEMMA PersistCarriesOn ==
  ASSUME PlayerTypeOK, NEW payload, PersistAnswer(payload), UNCHANGED <<watched, chosen>>,
         NEW j \in Slots, Carries(j)
  PROVE  Carries(j)'
<1>1. saves'[j] = saves[j]
  BY DEF PersistAnswer, PlayerTypeOK, Carries, Under
<1>2. QED
  BY <1>1, CarriesOn

\* A selection is lost in the four ways that SelectionsStay names, and no other.
THEOREM SelectionsKept == PlayerSpec => SelectionsStay
<1> DEFINE Stays ==
      Settled /\ page' = "open" /\ ~Settled' => Skips \/ Fails \/ Overtakes \/ Overwrites
<1>1. ASSUME PlayerTypeOK, [PlayerNext]_playerVars PROVE Stays
  <2> SUFFICES ASSUME Settled, page' = "open"
               PROVE  Settled' \/ Skips \/ Fails \/ Overtakes \/ Overwrites
    OBVIOUS
  <2> USE DEF closeVars, pageVars, sessionVars, watchVars
  <2>1. ASSUME UNCHANGED <<shown, saves, stored, watched, chosen>>,
               current' = current \/ current # watched
        PROVE  Settled'
    BY <2>1, StaysSettled, CarriesOn
  <2>2. ASSUME NEW payload, PersistAnswer(payload),
               UNCHANGED <<current, shown, stored, watched, chosen>>
        PROVE  Settled'
    BY <1>1, <2>2, StaysSettled, PersistCarriesOn
  <2>3. CASE Select
    <3>1. CASE current = watched
      BY <1>1, <2>3, <3>1 DEF Select, Settled, PlayerTypeOK
    <3>2. CASE current # watched
      <4>1. shown'[watched] = shown[watched] /\ chosen' = chosen
        BY <1>1, <2>3, <3>2 DEF Select, PlayerTypeOK
      <4>2. \A i \in Slots : Carries(i) => Carries(i)'
        BY <2>3, <4>1, CarriesOn DEF Select
      <4>3. QED
        BY <2>3, <4>1, <4>2 DEF Select, Settled
    <3>3. QED
      BY <3>1, <3>2
  <2>4. ASSUME NEW q \in Questions, Pad(q) PROVE Settled' \/ Skips
    <3>1. CASE current = watched
      BY <2>4, <3>1, Zenon DEF Skips
    <3>2. CASE current # watched
      BY <2>1, <2>4, <3>2 DEF Pad
    <3>3. QED
      BY <3>1, <3>2
  <2>5. ASSUME NEW then \in {"next", "prev"}, Turn(then) PROVE Settled' \/ Skips
    <3>1. CASE review
      <4> DEFINE q == IF then = "next" THEN current + 1 ELSE current - 1
      <4>1. q \in Questions /\ q # current
        BY <1>1, <2>5, PlayerAssumption DEF Turn, CanTurn, PlayerTypeOK, Questions
      <4>2. Pad(q)
        BY <2>5, <3>1, <4>1 DEF Turn, Pad
      <4>3. QED
        BY <2>4, <4>1, <4>2
    <3>2. CASE ~review
      BY <2>2, <2>5, <3>2 DEF Turn
    <3>3. QED
      BY <3>1, <3>2
  <2>6. CASE AcceptFinish
    BY <2>2, <2>6 DEF AcceptFinish
  <2>7. ASSUME NEW i \in Slots, Store(i) PROVE Settled' \/ Overtakes
    <3>1. saves[i] \in Saves
      BY <1>1, <2>7 DEF Store, Under, PlayerTypeOK
    <3>2. CASE saves[i].question # watched
      <4>1. stored'[watched] = stored[watched]
        BY <1>1, <2>7, <3>1, <3>2 DEF Store, PlayerTypeOK, Saves
      <4>2. \A j \in Slots : Carries(j) => saves'[j] = saves[j]
        BY <1>1, <2>7, <3>2 DEF Store, Carries, PlayerTypeOK
      <4>3. \A j \in Slots : Carries(j) => Carries(j)'
        BY <2>7, <4>2, CarriesOn DEF Store
      <4>4. QED
        BY <2>7, <4>1, <4>3 DEF Store, Settled
    <3>3. CASE Carries(i)
      <4>1. stored'[watched] = saves[i].picked
        BY <1>1, <2>7, <3>1, <3>3 DEF Store, Carries, PlayerTypeOK, Saves
      <4>2. QED
        BY <2>7, <3>3, <4>1 DEF Store, Carries, Settled
    <3>4. QED
      BY <2>7, <3>2, <3>3 DEF Overtakes, Store
  <2>8. ASSUME NEW i \in Slots, SaveAnswered(i) PROVE Settled' \/ Overwrites
    <3>1. CASE current = watched
      <4>1. CASE /\ chosen = (watched \in saves[i].picked)
                 /\ chosen = (watched \in stored[watched])
        <5>1. shown'[watched] = saves[i].picked
          BY <1>1, <2>8, <3>1 DEF SaveAnswered, PlayerTypeOK
        <5>2. QED
          BY <2>8, <4>1, <5>1 DEF SaveAnswered, Settled
      <4>2. CASE \/ chosen # (watched \in saves[i].picked)
                 \/ chosen # (watched \in stored[watched])
        BY <2>8, <3>1, <4>2 DEF Overwrites
      <4>3. QED
        BY <4>1, <4>2
    <3>2. CASE current # watched
      <4>1. shown'[watched] = shown[watched]
        BY <1>1, <2>8, <3>2 DEF SaveAnswered, PlayerTypeOK
      <4>2. \A j \in Slots : Carries(j) => saves'[j] = saves[j]
        BY <1>1, <2>8 DEF SaveAnswered, Carries, PlayerTypeOK
      <4>3. \A j \in Slots : Carries(j) => Carries(j)'
        BY <2>8, <4>2, CarriesOn DEF SaveAnswered
      <4>4. QED
        BY <2>8, <3>2, <4>1, <4>3 DEF SaveAnswered, Settled
    <3>3. QED
      BY <3>1, <3>2
  <2>9. ASSUME NEW i \in Slots, SaveFails(i) PROVE Settled' \/ Fails
    <3>1. CASE Carries(i)
      BY <2>9, <3>1 DEF Fails
    <3>2. CASE ~Carries(i)
      <4>1. \A j \in Slots : Carries(j) => saves'[j] = saves[j]
        BY <1>1, <2>9, <3>2 DEF SaveFails, PlayerTypeOK
      <4>2. \A j \in Slots : Carries(j) => Carries(j)'
        BY <2>9, <4>1, CarriesOn DEF SaveFails
      <4>3. QED
        BY <2>9, <4>2, StaysSettled DEF SaveFails
    <3>3. QED
      BY <3>1, <3>2
  <2>10. CASE CloseFails
    BY <2>1, <2>10 DEF CloseFails, LeavePage
  <2>11. CASE \/ Open \/ List \/ Loaded \/ LoadFails \/ Leave \/ Closed
    BY <2>11 DEF Open, List, Loaded, LoadFails, Leave, Closed, LeavePage, Settled
  <2>12. CASE \/ AskFinish \/ CancelFinish \/ TimePasses \/ Tick \/ ServerCloses
    BY <2>1, <2>12 DEF AskFinish, CancelFinish, TimePasses, Tick, ServerCloses
  <2>13. CASE UNCHANGED playerVars
    BY <2>1, <2>13 DEF playerVars
  <2>14. QED
    BY <1>1, <2>3, <2>4, <2>5, <2>6, <2>7, <2>8, <2>9, <2>10, <2>11, <2>12, <2>13
       DEF PlayerNext
<1>2. QED
  BY <1>1, PlayerTypeCorrect, PTL DEF PlayerSpec, SelectionsStay
-------------------------------------------------------------------------------
(* The lesson and its notes. *)

LEMMA LessonInitType == LessonInit => LessonTypeOK
  BY DEF LessonInit, LessonTypeOK, Texts

LEMMA LessonStepType == LessonTypeOK /\ [LessonNext]_lessonVars => LessonTypeOK'
<1> SUFFICES ASSUME LessonTypeOK, [LessonNext]_lessonVars PROVE LessonTypeOK'
  OBVIOUS
<1> USE DEF LessonTypeOK, askVars
<1>1. ASSUME NEW l \in Lessons, Visit(l) PROVE LessonTypeOK'
  <2>1. [stage |-> "sent"] \in Reads
    BY DEF Reads
  <2>2. QED
    BY <1>1, <2>1 DEF Visit
<1>2. ASSUME NEW l \in Lessons, LessonLoaded(l) \/ LessonFails(l) PROVE LessonTypeOK'
  BY <1>2 DEF LessonLoaded, LessonFails
<1>3. ASSUME NEW l \in Lessons, ReadNote(l) PROVE LessonTypeOK'
  <2>1. [stage |-> "read", text |-> notes[l]] \in Reads
    BY DEF Reads
  <2>2. reads' \in [Lessons -> Reads \cup {Idle}]
    BY <1>3, <2>1 DEF ReadNote
  <2>3. QED
    BY <1>3, <2>2 DEF ReadNote
<1>4. ASSUME NEW l \in Lessons, NoteLoaded(l) PROVE LessonTypeOK'
  <2>1. reads[l] \in Reads /\ reads[l].stage = "read"
    BY <1>4 DEF NoteLoaded, Idle
  <2>2. reads[l].text \in Texts
    BY <2>1 DEF Reads
  <2>3. QED
    BY <1>4, <2>2 DEF NoteLoaded
<1>5. ASSUME NEW l \in Lessons, NoteFails(l) PROVE LessonTypeOK'
  BY <1>5 DEF NoteFails, Texts
<1>6. CASE Retry
  BY <1>6 DEF Retry
<1>7. CASE LeaveLesson
  BY <1>7 DEF LeaveLesson, Texts
<1>8. CASE Type
  <2>1. lesson \in Lessons /\ text \cup {lesson} \in Texts
    BY <1>8 DEF Type, Texts
  <2>2. debounce' \in Debounces
    BY <1>8, <2>1 DEF Type, Debounces
  <2>3. QED
    BY <1>8, <2>1, <2>2 DEF Type
<1>9. CASE PersistNote
  <2>1. debounce \in Debounces
    BY <1>9 DEF PersistNote
  <2>2. [lesson |-> debounce.lesson, text |-> debounce.text] \in Puts
    BY <2>1 DEF Debounces, Puts
  <2>3. QED
    BY <1>9, <2>2 DEF PersistNote
<1>10. ASSUME NEW put \in puts, StoreNote(put) PROVE LessonTypeOK'
  <2>1. put.lesson \in Lessons /\ put.text \in Texts
    BY DEF Puts
  <2>2. QED
    BY <1>10, <2>1 DEF StoreNote
<1>11. ASSUME NEW put \in puts, NoteSaveFails(put) PROVE LessonTypeOK'
  BY <1>11 DEF NoteSaveFails
<1>12. CASE UNCHANGED lessonVars
  BY <1>12 DEF lessonVars
<1>13. QED
  BY <1>1, <1>2, <1>3, <1>4, <1>5, <1>6, <1>7, <1>8, <1>9, <1>10, <1>11, <1>12
     DEF LessonNext

\* Every value stays in its type.
THEOREM LessonTypeCorrect == LessonSpec => []LessonTypeOK
  BY LessonInitType, LessonStepType, PTL DEF LessonSpec

\* What was typed last is lost in the four ways that NotesAccounted names.
THEOREM NotesKept == LessonSpec => NotesAccounted
<1> DEFINE Named(l) ==
      \/ Waits(l) /\ LeaveLesson
      \/ Replaces(l) \/ LosesPut(l) \/ Reorders(l)
<1>1. ASSUME LessonTypeOK, [LessonNext]_lessonVars, NEW l \in Lessons, Kept(l)
      PROVE  Kept(l)' \/ Named(l)
  <2> USE DEF askVars, Kept, Last
  <2>1. CASE UNCHANGED <<debounce, puts, notes, typed>>
    BY <1>1, <2>1 DEF Waits
  <2>2. CASE LeaveLesson
    BY <1>1, <2>2 DEF LeaveLesson, Waits
  <2>3. CASE Type
    <3>1. CASE lesson = l
      <4>1. Waits(l)'
        BY <1>1, <2>3, <3>1 DEF Type, Waits, LessonTypeOK
      <4>2. QED
        BY <4>1
    <3>2. CASE lesson # l
      <4>1. typed'[l] = typed[l]
        BY <1>1, <2>3, <3>2 DEF Type, LessonTypeOK
      <4>2. CASE Waits(l)
        <5>1. Replaces(l)
          BY <2>3, <3>2, <4>2 DEF Replaces
        <5>2. QED
          BY <5>1
      <4>3. CASE ~Waits(l)
        <5>1. UNCHANGED <<puts, notes>>
          BY <2>3 DEF Type
        <5>2. QED
          BY <1>1, <4>1, <4>3, <5>1
      <4>4. QED
        BY <4>2, <4>3
    <3>3. QED
      BY <3>1, <3>2
  <2>4. CASE PersistNote
    <3>1. CASE Waits(l)
      <4>1. Last(l)' \in puts'
        BY <2>4, <3>1 DEF PersistNote, Waits
      <4>2. QED
        BY <4>1
    <3>2. CASE ~Waits(l)
      BY <1>1, <2>4, <3>2 DEF PersistNote
    <3>3. QED
      BY <3>1, <3>2
  <2>5. ASSUME NEW put \in puts, StoreNote(put) PROVE Kept(l)' \/ Named(l)
    <3>1. CASE put = Last(l)
      <4>1. notes'[l] = typed'[l]
        BY <1>1, <2>5, <3>1 DEF StoreNote, LessonTypeOK
      <4>2. QED
        BY <4>1
    <3>2. CASE put # Last(l) /\ put.lesson = l
      BY <2>5, <3>2 DEF Reorders
    <3>3. CASE put.lesson # l
      <4>1. notes'[l] = notes[l] /\ put # Last(l)
        BY <1>1, <2>5, <3>3 DEF StoreNote, LessonTypeOK
      <4>2. QED
        BY <1>1, <2>5, <4>1 DEF StoreNote, Waits
    <3>4. QED
      BY <3>1, <3>2, <3>3
  <2>6. ASSUME NEW put \in puts, NoteSaveFails(put) PROVE Kept(l)' \/ Named(l)
    <3>1. CASE put = Last(l)
      BY <2>6, <3>1 DEF LosesPut
    <3>2. CASE put # Last(l)
      BY <1>1, <2>6, <3>2 DEF NoteSaveFails, Waits
    <3>3. QED
      BY <3>1, <3>2
  <2>7. ASSUME NEW m \in Lessons,
               \/ Visit(m) \/ LessonLoaded(m) \/ LessonFails(m)
               \/ ReadNote(m) \/ NoteLoaded(m) \/ NoteFails(m)
        PROVE  Kept(l)' \/ Named(l)
    BY <2>1, <2>7 DEF Visit, LessonLoaded, LessonFails, ReadNote, NoteLoaded, NoteFails
  <2>8. CASE Retry
    BY <2>1, <2>8 DEF Retry
  <2>9. CASE UNCHANGED lessonVars
    BY <2>1, <2>9 DEF lessonVars
  <2>10. QED
    BY <1>1, <2>2, <2>3, <2>4, <2>5, <2>6, <2>7, <2>8, <2>9 DEF LessonNext
<1>2. ASSUME LessonTypeOK, [LessonNext]_lessonVars
      PROVE  \A l \in Lessons : Kept(l) /\ ~Kept(l)' =>
               \/ Waits(l) /\ LeaveLesson
               \/ Replaces(l) \/ LosesPut(l) \/ Reorders(l)
  BY <1>1, <1>2
<1>3. QED
  BY <1>2, LessonTypeCorrect, PTL DEF LessonSpec, NotesAccounted

\* No note arrives for a lesson that has been left, and the learner types only at the
\* lesson of the URL, after its note has been answered.
Unhurried ==
  [][/\ \A l \in Lessons : NoteLoaded(l) => route = l
     /\ Type => lesson = route /\ reads[route] = Idle]_lessonVars

\* Words stay at their lesson on every way that leads to a note.
TextsGoHome ==
  /\ \A l \in Lessons : reads[l].stage = "read" => reads[l].text \subseteq {l}
  /\ debounce # Idle => debounce.text \subseteq {debounce.lesson}
  /\ \A put \in puts : put.text \subseteq {put.lesson}
  /\ route \in Lessons /\ reads[route] = Idle => text \subseteq {route}

LEMMA UnhurriedStep ==
  ASSUME LessonTypeOK, NotesGoHome, TextsGoHome, [LessonNext]_lessonVars,
         \A l \in Lessons : NoteLoaded(l) => route = l,
         Type => lesson = route /\ reads[route] = Idle
  PROVE  NotesGoHome' /\ TextsGoHome'
<1> USE DEF NotesGoHome, TextsGoHome, LessonTypeOK, askVars, Idle
<1>1. ASSUME NEW l \in Lessons, Visit(l) PROVE NotesGoHome' /\ TextsGoHome'
  BY <1>1 DEF Visit
<1>2. CASE Retry
  BY <1>2 DEF Retry
<1>3. CASE LeaveLesson
  BY <1>3, LessonAssumption DEF LeaveLesson
<1>4. ASSUME NEW l \in Lessons, LessonLoaded(l) \/ LessonFails(l)
      PROVE  NotesGoHome' /\ TextsGoHome'
  BY <1>4 DEF LessonLoaded, LessonFails
<1>5. ASSUME NEW l \in Lessons, ReadNote(l) PROVE NotesGoHome' /\ TextsGoHome'
  BY <1>5 DEF ReadNote
<1>6. ASSUME NEW l \in Lessons, NoteLoaded(l) PROVE NotesGoHome' /\ TextsGoHome'
  <2>1. route = l /\ text' \subseteq {l} /\ route' = l
    BY <1>6 DEF NoteLoaded
  <2>2. QED
    BY <1>6, <2>1 DEF NoteLoaded
<1>7. ASSUME NEW l \in Lessons, NoteFails(l) PROVE NotesGoHome' /\ TextsGoHome'
  BY <1>7 DEF NoteFails
<1>8. CASE Type
  <2>1. lesson = route /\ text \subseteq {lesson} /\ lesson \in Lessons
    BY <1>8 DEF Type
  <2>2. text' \subseteq {lesson}
    BY <1>8, <2>1 DEF Type
  <2>3. debounce'.text = text' /\ debounce'.lesson = lesson
    BY <1>8 DEF Type
  <2>4. QED
    BY <1>8, <2>1, <2>2, <2>3 DEF Type
<1>9. CASE PersistNote
  BY <1>9 DEF PersistNote
<1>10. ASSUME NEW put \in puts, StoreNote(put) PROVE NotesGoHome' /\ TextsGoHome'
  <2>1. put.lesson \in Lessons /\ put.text \subseteq {put.lesson}
    BY DEF Puts
  <2>2. QED
    BY <1>10, <2>1 DEF StoreNote
<1>11. ASSUME NEW put \in puts, NoteSaveFails(put) PROVE NotesGoHome' /\ TextsGoHome'
  BY <1>11 DEF NoteSaveFails
<1>12. CASE UNCHANGED lessonVars
  BY <1>12 DEF lessonVars
<1>13. QED
  BY <1>1, <1>2, <1>3, <1>4, <1>5, <1>6, <1>7, <1>8, <1>9, <1>10, <1>11, <1>12
     DEF LessonNext

\* A note contains only what was typed at its lesson, for a learner who waits for the
\* lesson of the URL and for its note, and whose notes arrive before the next lesson is
\* asked for: whatever fails, and whatever debounce and PUTs outlast the lesson.
THEOREM NotesGoHomeUnhurried == LessonSpec /\ Unhurried => []NotesGoHome
<1>1. LessonInit => NotesGoHome /\ TextsGoHome
  BY LessonAssumption DEF LessonInit, NotesGoHome, TextsGoHome, Idle
<1>2. /\ LessonTypeOK /\ (NotesGoHome /\ TextsGoHome) /\ [LessonNext]_lessonVars
      /\ [/\ \A l \in Lessons : NoteLoaded(l) => route = l
          /\ Type => lesson = route /\ reads[route] = Idle]_lessonVars
      => (NotesGoHome /\ TextsGoHome)'
  <2> SUFFICES ASSUME LessonTypeOK, NotesGoHome, TextsGoHome, [LessonNext]_lessonVars,
                      [/\ \A l \in Lessons : NoteLoaded(l) => route = l
                       /\ Type => lesson = route /\ reads[route] = Idle]_lessonVars
               PROVE  NotesGoHome' /\ TextsGoHome'
    OBVIOUS
  <2>1. CASE UNCHANGED lessonVars
    BY <2>1 DEF lessonVars, NotesGoHome, TextsGoHome
  <2>2. CASE /\ \A l \in Lessons : NoteLoaded(l) => route = l
             /\ Type => lesson = route /\ reads[route] = Idle
    BY <2>2, UnhurriedStep
  <2>3. QED
    BY <2>1, <2>2
<1>3. QED
  BY <1>1, <1>2, LessonTypeCorrect, PTL DEF LessonSpec, Unhurried
-------------------------------------------------------------------------------
(* The block editor. *)

LEMMA RequestTyped ==
  ASSUME NEW kind \in Kinds, NEW b \in Blocks
  PROVE  Request(kind, b) \in Requests
BY DEF Request, Requests

LEMMA EditorInitType == EditorInit => EditorTypeOK
  BY DEF EditorInit, EditorTypeOK

LEMMA EditorStepType == EditorTypeOK /\ [EditorNext]_editorVars => EditorTypeOK'
<1> SUFFICES ASSUME EditorTypeOK, [EditorNext]_editorVars PROVE EditorTypeOK'
  OBVIOUS
<1> USE DEF EditorTypeOK, idVars, rowVars, Kinds, Sends, Send
<1>1. ASSUME NEW h \in Hosts, OpenEditor(h) PROVE EditorTypeOK'
  BY <1>1 DEF OpenEditor
<1>2. ASSUME NEW h \in Hosts, Switch(h) PROVE EditorTypeOK'
  BY <1>2, RequestTyped DEF Switch
<1>3. CASE CloseEditor
  <2>1. flight' \subseteq Requests
    BY <1>3 DEF CloseEditor, Requests
  <2>2. QED
    BY <1>3, <2>1 DEF CloseEditor
<1>4. ASSUME NEW b \in Blocks, AddBlock(b) PROVE EditorTypeOK'
  BY <1>4, RequestTyped DEF AddBlock
<1>5. ASSUME NEW b \in Blocks, EditBlock(b) PROVE EditorTypeOK'
  BY <1>5 DEF EditBlock
<1>6. ASSUME NEW b \in Blocks, SaveBlock(b) PROVE EditorTypeOK'
  BY <1>6, RequestTyped DEF SaveBlock
<1>7. ASSUME NEW b \in Blocks, NEW kind \in Kinds, DeleteBlock(b, kind) PROVE EditorTypeOK'
  BY <1>7, RequestTyped DEF DeleteBlock
<1>8. ASSUME NEW b \in Blocks, TrashBlock(b) \/ CancelBlock(b) PROVE EditorTypeOK'
  BY <1>7, <1>8 DEF TrashBlock, CancelBlock
<1>9. ASSUME NEW r \in flight, Process(r) PROVE EditorTypeOK'
  <2>1. \A stage \in {"done", "refused"} : Staged(r, stage) => flight' \subseteq Requests
    BY DEF Staged, Requests
  <2>2. flight' \subseteq Requests
    BY <1>9, <2>1 DEF Process
  <2>3. row' \in [Blocks -> {"none", "draft", "saved", "gone"}]
    BY <1>9 DEF Process
  <2>4. QED
    BY <1>9, <2>2, <2>3 DEF Process
<1>10. ASSUME NEW r \in flight, CreateAnswered(r) \/ BlockSaved(r) \/ BlockDeleted(r)
       PROVE  EditorTypeOK'
  <2>1. r.block \in Blocks
    BY DEF Requests
  <2>2. QED
    BY <1>10, <2>1 DEF CreateAnswered, BlockSaved, BlockDeleted, Hears
<1>11. ASSUME NEW r \in flight, FailsUnheard(r) \/ RequestFails(r) PROVE EditorTypeOK'
  BY <1>11 DEF FailsUnheard, RequestFails, Hears
<1>12. CASE UNCHANGED editorVars
  BY <1>12 DEF editorVars
<1>13. QED
  BY <1>1, <1>2, <1>3, <1>4, <1>5, <1>6, <1>8, <1>9, <1>10, <1>11, <1>12 DEF EditorNext

\* Every value stays in its type.
THEOREM EditorTypeCorrect == EditorSpec => []EditorTypeOK
  BY EditorInitType, EditorStepType, PTL DEF EditorSpec

\* A closed editor knows of no draft and hears no answer; a draft is no block whose save was
\* answered; and what was answered was done and is not undone.
DraftInv ==
  /\ host = NoHost => fresh = {} /\ \A r \in flight : ~r.heard
  /\ fresh \cap acked = {}
  /\ \A r \in flight : r.stage = "done" =>
       /\ r.kind = "save" => row[r.block] \in {"saved", "gone"}
       /\ r.kind \in Deletes => row[r.block] = "gone"

LEMMA DoneStays ==
  ASSUME EditorTypeOK, DraftInv, NEW r \in flight, Process(r)
  PROVE  \A q \in flight' : q.stage = "done" =>
           /\ q.kind = "save" => row'[q.block] \in {"saved", "gone"}
           /\ q.kind \in Deletes => row'[q.block] = "gone"
<1> SUFFICES ASSUME NEW q \in flight', q.stage = "done"
             PROVE  /\ q.kind = "save" => row'[q.block] \in {"saved", "gone"}
                    /\ q.kind \in Deletes => row'[q.block] = "gone"
  OBVIOUS
<1>1. r \in Requests /\ r.block \in Blocks
  BY DEF EditorTypeOK, Requests
<1>2. CASE q \in flight
  <2>1. q \in Requests /\ q.block \in Blocks
    BY <1>2 DEF EditorTypeOK, Requests
  <2>2. QED
    BY <1>1, <1>2, <2>1 DEF Process, DraftInv, EditorTypeOK, Deletes
<1>3. CASE q \notin flight
  <2>1. q = [r EXCEPT !.stage = "done"]
    BY <1>1, <1>3 DEF Process, Staged, Requests
  <2>2. q.kind = r.kind /\ q.block = r.block
    BY <1>1, <2>1 DEF Requests
  <2>3. Staged(r, "done")
    BY <1>1, <1>3 DEF Process, Staged, Requests
  <2>4. QED
    BY <1>1, <2>2, <2>3, <1>3 DEF Process, Deletes, EditorTypeOK, Staged, Requests
<1>4. QED
  BY <1>2, <1>3

LEMMA DraftStep == EditorTypeOK /\ DraftInv /\ [EditorNext]_editorVars => DraftInv'
<1> SUFFICES ASSUME EditorTypeOK, DraftInv, [EditorNext]_editorVars PROVE DraftInv'
  OBVIOUS
<1> USE DEF idVars, rowVars, Sends, Send
<1>1. \A kind, b : Request(kind, b).stage = "sent"
  BY DEF Request
<1>2. ASSUME NEW h \in Hosts, OpenEditor(h) \/ Switch(h) PROVE DraftInv'
  BY <1>1, <1>2, EditorAssumption DEF OpenEditor, Switch, DraftInv
<1>3. CASE CloseEditor
  <2>1. \A r \in flight' : r.stage # "done" /\ ~r.heard
    BY <1>3 DEF CloseEditor, EditorTypeOK, Requests
  <2>2. QED
    BY <1>3, <2>1 DEF CloseEditor, DraftInv
<1>4. ASSUME NEW b \in Blocks, AddBlock(b) PROVE DraftInv'
  BY <1>1, <1>4 DEF AddBlock, DraftInv
<1>5. ASSUME NEW b \in Blocks, EditBlock(b) PROVE DraftInv'
  BY <1>5 DEF EditBlock, DraftInv
<1>6. ASSUME NEW b \in Blocks, SaveBlock(b) PROVE DraftInv'
  BY <1>1, <1>6 DEF SaveBlock, OnScreen, DraftInv
<1>7. ASSUME NEW b \in Blocks, NEW kind, DeleteBlock(b, kind), host # NoHost PROVE DraftInv'
  BY <1>1, <1>7 DEF DeleteBlock, DraftInv
<1>8. ASSUME NEW b \in Blocks, TrashBlock(b) \/ CancelBlock(b) PROVE DraftInv'
  BY <1>7, <1>8 DEF TrashBlock, CancelBlock, OnScreen, DraftInv
<1>9. ASSUME NEW r \in flight, Process(r) PROVE DraftInv'
  <2>1. host' = NoHost => \A q \in flight' : ~q.heard
    BY <1>9 DEF Process, Staged, DraftInv
  <2>2. QED
    BY <1>9, <2>1, DoneStays DEF Process, DraftInv
<1>10. ASSUME NEW r \in flight, CreateAnswered(r) PROVE DraftInv'
  BY <1>10 DEF CreateAnswered, Hears, DraftInv
<1>11. ASSUME NEW r \in flight, BlockSaved(r) \/ BlockDeleted(r) PROVE DraftInv'
  BY <1>11 DEF BlockSaved, BlockDeleted, Hears, DraftInv
<1>12. ASSUME NEW r \in flight, FailsUnheard(r) \/ RequestFails(r) PROVE DraftInv'
  BY <1>12 DEF FailsUnheard, RequestFails, Hears, DraftInv
<1>13. CASE UNCHANGED editorVars
  BY <1>13 DEF editorVars, DraftInv
<1>14. QED
  BY <1>2, <1>3, <1>4, <1>5, <1>6, <1>8, <1>9, <1>10, <1>11, <1>12, <1>13 DEF EditorNext
LEMMA DraftCorrect == EditorSpec => [](EditorTypeOK /\ DraftInv)
<1>1. EditorInit => DraftInv
  BY DEF EditorInit, DraftInv
<1>2. QED
  BY <1>1, EditorInitType, EditorStepType, DraftStep, PTL DEF EditorSpec

\* Cancelling and switching send no deletion of a block whose save was answered.
THEOREM SavedKept == EditorSpec => SavedStays
<1> DEFINE Spared(r) ==
      r.kind \in {"cancel", "discard"} /\ r.stage = "sent" /\ r.heard => r.block \notin acked
<1>1. ASSUME EditorTypeOK, DraftInv, [EditorNext]_editorVars, NEW r \in flight' \ flight
      PROVE  Spared(r)
  <2> USE <1>1 DEF Sends, Send
  <2>1. ASSUME NEW h \in Hosts, Switch(h) PROVE Spared(r)
    <3>1. PICK b \in fresh : r = Request("discard", b)
      BY <2>1 DEF Switch
    <3>2. QED
      BY <3>1 DEF Request, DraftInv
  <2>2. CASE CloseEditor
    BY <2>2 DEF CloseEditor, EditorTypeOK, Requests
  <2>3. ASSUME NEW b \in Blocks, AddBlock(b) \/ SaveBlock(b) \/ TrashBlock(b) PROVE Spared(r)
    BY <2>3 DEF AddBlock, SaveBlock, TrashBlock, DeleteBlock, Request
  <2>4. ASSUME NEW b \in Blocks, CancelBlock(b) PROVE Spared(r)
    <3>1. b \in fresh /\ r = Request("cancel", b)
      BY <2>4 DEF CancelBlock, DeleteBlock
    <3>2. QED
      BY <3>1 DEF Request, DraftInv
  <2>5. ASSUME NEW q \in flight, Process(q) PROVE Spared(r)
    <3>1. ASSUME NEW stage \in {"done", "refused"}, Staged(q, stage) PROVE r.stage = stage
      BY <3>1 DEF Staged, EditorTypeOK, Requests
    <3>2. QED
      BY <2>5, <3>1 DEF Process
  <2>6. ASSUME NEW q \in flight,
               \/ CreateAnswered(q) \/ BlockSaved(q) \/ BlockDeleted(q)
               \/ FailsUnheard(q) \/ RequestFails(q)
        PROVE  Spared(r)
    BY <2>6 DEF CreateAnswered, BlockSaved, BlockDeleted, FailsUnheard, RequestFails, Hears
  <2>7. ASSUME NEW h \in Hosts, OpenEditor(h) PROVE Spared(r)
    BY <2>7 DEF OpenEditor
  <2>8. ASSUME NEW b \in Blocks, EditBlock(b) PROVE Spared(r)
    BY <2>8 DEF EditBlock
  <2>9. CASE UNCHANGED editorVars
    BY <2>9 DEF editorVars
  <2>10. QED
    BY <2>1, <2>2, <2>3, <2>4, <2>5, <2>6, <2>7, <2>8, <2>9 DEF EditorNext
<1>2. ASSUME EditorTypeOK, DraftInv, [EditorNext]_editorVars
      PROVE  \A r \in flight' \ flight :
               r.kind \in {"cancel", "discard"} /\ r.stage = "sent" /\ r.heard =>
                 r.block \notin acked
  BY <1>1, <1>2
<1>3. QED
  BY <1>2, DraftCorrect, PTL DEF EditorSpec, SavedStays

\* A draft is forgotten in the ways that DraftsAccounted names.
THEOREM DraftsKept == EditorSpec => DraftsAccounted
<1> DEFINE Named(b) ==
      \/ CloseEditor
      \/ \E r \in flight :
           /\ r.block = b
           /\ \/ r.kind = "create" /\ ~r.heard /\ Process(r)
              \/ FailsUnheard(r) \/ RequestFails(r)
<1>1. ASSUME EditorTypeOK, DraftInv, [EditorNext]_editorVars, NEW b \in Blocks, ~Ghost(b)
      PROVE  ~Ghost(b)' \/ Named(b)
  <2> USE <1>1 DEF Sends, Send, rowVars, idVars
  <2>1. ASSUME fresh \subseteq fresh', flight \subseteq flight', UNCHANGED row PROVE ~Ghost(b)'
    BY <2>1 DEF Ghost, Minded
  <2>2. ASSUME NEW h \in Hosts, OpenEditor(h) PROVE ~Ghost(b)'
    BY <2>1, <2>2 DEF OpenEditor, DraftInv
  <2>3. ASSUME NEW h \in Hosts, Switch(h) PROVE ~Ghost(b)'
    <3>1. CASE b \in fresh
      <4>1. Request("discard", b) \in flight'
        BY <2>3, <3>1 DEF Switch
      <4>2. Minded(b)'
        BY <4>1 DEF Minded, Request, Deletes
      <4>3. QED
        BY <4>2 DEF Ghost
    <3>2. CASE b \notin fresh
      BY <2>3, <3>2 DEF Switch, Ghost, Minded
    <3>3. QED
      BY <3>1, <3>2
  <2>4. ASSUME NEW c \in Blocks,
               \/ AddBlock(c) \/ EditBlock(c) \/ SaveBlock(c) \/ TrashBlock(c) \/ CancelBlock(c)
        PROVE  ~Ghost(b)'
    <3>1. fresh \subseteq fresh' /\ flight \subseteq flight' /\ UNCHANGED row
      BY <2>4 DEF AddBlock, EditBlock, SaveBlock, TrashBlock, CancelBlock, DeleteBlock
    <3>2. QED
      BY <2>1, <3>1
  <2>5. ASSUME NEW r \in flight, Process(r) PROVE ~Ghost(b)' \/ Named(b)
    <3>1. r \in Requests /\ r.block \in Blocks
      BY DEF EditorTypeOK, Requests
    <3>2. CASE r.kind = "create" /\ r.block = b /\ ~r.heard
      BY <2>5, <3>2
    <3>3. CASE r.kind = "create" /\ r.block = b /\ r.heard
      <4>1. [r EXCEPT !.stage = "done"] \in flight'
        BY <2>5, <3>3 DEF Process, Staged, Deletes
      <4>2. [r EXCEPT !.stage = "done"].kind = "create" /\ [r EXCEPT !.stage = "done"].block = b
        BY <3>1, <3>3 DEF Requests
      <4>3. Minded(b)'
        BY <4>1, <4>2 DEF Minded
      <4>4. QED
        BY <4>3 DEF Ghost
    <3>4. CASE r.kind # "create" /\ r.block = b
      <4>1. row'[b] # "draft"
        BY <2>5, <3>1, <3>4 DEF Process, EditorTypeOK
      <4>2. QED
        BY <4>1 DEF Ghost
    <3>5. CASE r.block # b
      <4>1. row'[b] = row[b] /\ fresh' = fresh
        BY <2>5, <3>1, <3>5 DEF Process, EditorTypeOK
      <4>2. \A q \in flight : q # r => q \in flight'
        BY <2>5 DEF Process, Staged
      <4>3. QED
        BY <3>5, <4>1, <4>2 DEF Ghost, Minded
    <3>6. QED
      BY <3>2, <3>3, <3>4, <3>5
  <2>6. ASSUME NEW r \in flight, CreateAnswered(r) PROVE ~Ghost(b)'
    BY <2>6 DEF CreateAnswered, Hears, Ghost, Minded, Deletes
  <2>7. ASSUME NEW r \in flight, BlockSaved(r) \/ BlockDeleted(r) PROVE ~Ghost(b)'
    <3>1. r.block = b => row[b] # "draft"
      BY <2>7 DEF BlockSaved, BlockDeleted, Hears, DraftInv, Deletes
    <3>2. r.stage = "done" /\ r.kind # "create" /\ flight' = flight \ {r}
          /\ fresh' = fresh \ {r.block} /\ row' = row
      BY <2>7 DEF BlockSaved, BlockDeleted, Hears
    <3>3. QED
      BY <3>1, <3>2 DEF Ghost, Minded
  <2>8. ASSUME NEW r \in flight, FailsUnheard(r) \/ RequestFails(r) PROVE ~Ghost(b)' \/ Named(b)
    <3>1. CASE r.block = b
      BY <2>8, <3>1
    <3>2. CASE r.block # b
      <4>1. flight' = flight \ {r} /\ fresh' = fresh /\ row' = row
        BY <2>8 DEF FailsUnheard, RequestFails, Hears
      <4>2. QED
        BY <3>2, <4>1 DEF Ghost, Minded
    <3>3. QED
      BY <3>1, <3>2
  <2>9. CASE UNCHANGED editorVars
    BY <2>1, <2>9 DEF editorVars
  <2>10. QED
    BY <2>2, <2>3, <2>4, <2>5, <2>6, <2>7, <2>8, <2>9 DEF EditorNext
<1>2. ASSUME EditorTypeOK, DraftInv, [EditorNext]_editorVars
      PROVE  \A b \in Blocks : Ghost(b)' /\ ~Ghost(b) => Named(b)
  BY <1>1, <1>2
<1>3. QED
  BY <1>2, DraftCorrect, PTL DEF EditorSpec, DraftsAccounted

-------------------------------------------------------------------------------
(* A visit of any of the pages. *)

\* Each page behaves in a visit as it does alone.
THEOREM PagesImplementEach == PagesSpec => PlayerSpec /\ LessonSpec /\ EditorSpec /\ TemplateSpec
<1>1. PagesInit => PlayerInit /\ LessonInit /\ EditorInit /\ TemplateInit
  BY DEF PagesInit
<1>2. [PagesNext]_pagesVars =>
        /\ [PlayerNext]_playerVars /\ [LessonNext]_lessonVars /\ [EditorNext]_editorVars
        /\ [TemplateNext]_templateVars
  BY DEF PagesNext, pagesVars
<1>3. QED
  BY <1>1, <1>2, PTL DEF PagesSpec, PlayerSpec, LessonSpec, EditorSpec, TemplateSpec

\* Every value of every page stays in its type.
THEOREM PagesTypeCorrect == PagesSpec => []PagesTypeOK
<1>1. PlayerTypeOK /\ LessonTypeOK /\ EditorTypeOK /\ TemplateTypeOK => PagesTypeOK
  BY DEF PagesTypeOK
<1>2. QED
  BY <1>1, PagesImplementEach, PlayerTypeCorrect, LessonTypeCorrect, EditorTypeCorrect,
     TemplateTypeCorrect, PTL

\* What each page promises, in any visit.
THEOREM PagesKeepWork ==
  PagesSpec => /\ []NeverClosesEarly /\ SelectionsStay /\ TimeUpCloses
               /\ NotesAccounted /\ DraftsAccounted /\ SavedStays
               /\ SavedAsListed /\ OnlyPositionsRefused /\ NothingLeftOver
  BY PagesImplementEach, ClosesInTime, SelectionsKept, SignalIsHeard, NotesKept, DraftsKept,
     SavedKept, SavesAreListed, RefusalsAreOfPositions, NothingIsLeftOver
===============================================================================
