------------------------------ MODULE LessonPage ------------------------------
(***************************************************************************)
(* The page on which a learner reads a lesson and takes private notes,     *)
(* LessonViewPage, with the requests it has under way and the notes the    *)
(* server keeps.                                                           *)
(*                                                                         *)
(* One instance of the page serves one lesson after the other.  A change   *)
(* of the route asks for the lesson and for its note and cancels nothing:  *)
(* answers come in any order, for whichever lesson.  The textarea is       *)
(* bound to what was answered or typed last.  Typing starts a debounce     *)
(* that carries the lesson on the screen; when it ends the note is saved,  *)
(* and a note that is saved replaces the one before.                       *)
(*                                                                         *)
(* A learner types one word at each lesson, named like the lesson: a text  *)
(* is the set of the words in it.  What the answer to a PUT does, the      *)
(* label that says when the note was saved, is left out.                   *)
(***************************************************************************)
EXTENDS Naturals, FiniteSets

CONSTANTS
  Lessons,    \* the lessons the learner visits
  MaxPuts,    \* bound: PUTs under way at a time
  Nowhere     \* not a lesson: no route, nothing on the screen

ASSUME LessonAssumption == Nowhere \notin Lessons /\ MaxPuts \in Nat

VARIABLES
  route,      \* the lesson of the URL, or Nowhere when the page is not open
  lesson,     \* the lesson on the screen, or Nowhere
  text,       \* noteContent: what the textarea holds
  debounce,   \* what the debounce waits to save, or Idle
  loads,      \* the lessons that are asked for (bound: once at a time each)
  reads,      \* reads[l]: the GET of the note of l, or Idle (same bound)
  puts,       \* the PUTs under way; two of the same text count as one
  notes,      \* notes[l]: the note of lesson l at the server
  typed       \* history: typed[l], what the textarea held after the last key at l

askVars == <<loads, reads>>
lessonVars == <<route, lesson, text, debounce, loads, reads, puts, notes, typed>>

Texts == SUBSET Lessons
Idle == [stage |-> "idle"]
Debounces == [lesson : Lessons, text : Texts, stage : {"typed"}]
Reads == [stage : {"sent"}] \cup [stage : {"read"}, text : Texts]
Puts == [lesson : Lessons, text : Texts]

LessonInit ==
  /\ route = Nowhere /\ lesson = Nowhere /\ text = {}
  /\ debounce = Idle
  /\ loads = {} /\ reads = [l \in Lessons |-> Idle]
  /\ puts = {}
  /\ notes = [l \in Lessons |-> {}] /\ typed = notes
-------------------------------------------------------------------------------
(* The route. *)

\* loadLesson and loadNote: the screen is cleared, the textarea is not.
Visit(l) ==
  /\ route # l /\ l \notin loads /\ reads[l] = Idle
  /\ route' = l /\ lesson' = Nowhere
  /\ loads' = loads \cup {l}
  /\ reads' = [reads EXCEPT ![l] = [stage |-> "sent"]]
  /\ UNCHANGED <<text, debounce, puts, notes, typed>>

\* retryLoad, after a lesson could not be loaded: its note is not read again.
Retry ==
  /\ route # Nowhere /\ lesson = Nowhere /\ route \notin loads
  /\ loads' = loads \cup {route}
  /\ UNCHANGED <<route, lesson, text, debounce, reads, puts, notes, typed>>

\* Another page, or the tab is closed: the debounce is dropped, and the answers
\* find nobody.  A PUT goes on, or fails.
LeaveLesson ==
  /\ route # Nowhere
  /\ route' = Nowhere /\ lesson' = Nowhere /\ text' = {}
  /\ debounce' = Idle
  /\ loads' = {} /\ reads' = [l \in Lessons |-> Idle]
  /\ UNCHANGED <<puts, notes, typed>>
-------------------------------------------------------------------------------
(* The answers. *)

\* The answer for any lesson is shown.
LessonLoaded(l) ==
  /\ l \in loads
  /\ loads' = loads \ {l} /\ lesson' = l
  /\ UNCHANGED <<route, text, debounce, reads, puts, notes, typed>>

LessonFails(l) ==
  /\ l \in loads
  /\ loads' = loads \ {l} /\ lesson' = Nowhere
  /\ UNCHANGED <<route, text, debounce, reads, puts, notes, typed>>

\* The server reads the note.
ReadNote(l) ==
  /\ reads[l].stage = "sent"
  /\ reads' = [reads EXCEPT ![l] = [stage |-> "read", text |-> notes[l]]]
  /\ UNCHANGED <<route, lesson, text, debounce, loads, puts, notes, typed>>

\* The note of any lesson goes into the textarea.
NoteLoaded(l) ==
  /\ reads[l].stage = "read"
  /\ text' = reads[l].text
  /\ reads' = [reads EXCEPT ![l] = Idle]
  /\ UNCHANGED <<route, lesson, debounce, loads, puts, notes, typed>>

NoteFails(l) ==
  /\ reads[l] # Idle
  /\ text' = {}
  /\ reads' = [reads EXCEPT ![l] = Idle]
  /\ UNCHANGED <<route, lesson, debounce, loads, puts, notes, typed>>
-------------------------------------------------------------------------------
(* Typing and saving. *)

\* onNoteChange: the debounce keeps the last key only.
Type ==
  LET changed == text \cup {lesson} IN
  /\ lesson # Nowhere
  /\ text' = changed
  /\ debounce' = [lesson |-> lesson, text |-> changed, stage |-> "typed"]
  /\ typed' = [typed EXCEPT ![lesson] = changed]
  /\ UNCHANGED <<route, lesson, askVars, puts, notes>>

\* Mutant: the note is saved for the lesson on the screen.
PersistOnScreen ==
  /\ debounce # Idle /\ lesson # Nowhere /\ Cardinality(puts) < MaxPuts
  /\ puts' = puts \cup {[lesson |-> lesson, text |-> debounce.text]}
  /\ debounce' = Idle
  /\ UNCHANGED <<route, lesson, text, askVars, notes, typed>>

\* 600 ms after the last key.
PersistNote ==
  /\ debounce # Idle /\ Cardinality(puts) < MaxPuts
  /\ puts' = puts \cup {[lesson |-> debounce.lesson, text |-> debounce.text]}
  /\ debounce' = Idle
  /\ UNCHANGED <<route, lesson, text, askVars, notes, typed>>

\* my_lesson_note: the row is created or overwritten.
StoreNote(put) ==
  /\ put \in puts
  /\ puts' = puts \ {put}
  /\ notes' = [notes EXCEPT ![put.lesson] = put.text]
  /\ UNCHANGED <<route, lesson, text, debounce, askVars, typed>>

\* Refused or lost before it is processed: it is logged and no more.
NoteSaveFails(put) ==
  /\ put \in puts
  /\ puts' = puts \ {put}
  /\ UNCHANGED <<route, lesson, text, debounce, askVars, notes, typed>>

LessonNext ==
  \/ \E l \in Lessons :
       \/ Visit(l) \/ LessonLoaded(l) \/ LessonFails(l)
       \/ ReadNote(l) \/ NoteLoaded(l) \/ NoteFails(l)
  \/ Retry \/ LeaveLesson \/ Type \/ PersistNote
  \/ \E put \in puts : StoreNote(put) \/ NoteSaveFails(put)

LessonSpec == LessonInit /\ [][LessonNext]_lessonVars
-------------------------------------------------------------------------------
LessonTypeOK ==
  /\ route \in Lessons \cup {Nowhere} /\ lesson \in Lessons \cup {Nowhere}
  /\ text \in Texts
  /\ debounce \in Debounces \cup {Idle}
  /\ loads \subseteq Lessons
  /\ reads \in [Lessons -> Reads \cup {Idle}]
  /\ puts \subseteq Puts
  /\ notes \in [Lessons -> Texts] /\ typed \in [Lessons -> Texts]

\* What was typed last at lesson l is its note, or is on its way to be.
Waits(l) == debounce = [lesson |-> l, text |-> typed[l], stage |-> "typed"]
Last(l) == [lesson |-> l, text |-> typed[l]]
Kept(l) == notes[l] = typed[l] \/ Waits(l) \/ Last(l) \in puts

\* Typing at another lesson within the time of the debounce.
Replaces(l) == Waits(l) /\ lesson # l /\ Type
LosesPut(l) == NoteSaveFails(Last(l))
Reorders(l) == \E put \in puts : put.lesson = l /\ put # Last(l) /\ StoreNote(put)

\* What was typed last at a lesson becomes its note unless the page is left
\* before the debounce ends, the next key falls at another lesson, the PUT
\* fails, or an older PUT is processed after it: whatever lessons and notes are
\* fetched, fail and cross each other, and whichever lesson is on the screen
\* when the debounce ends.
NotesAccounted ==
  [][\A l \in Lessons : Kept(l) /\ ~Kept(l)' =>
       \/ Waits(l) /\ LeaveLesson
       \/ Replaces(l) \/ LosesPut(l) \/ Reorders(l)]_lessonVars

\* A note contains only what was typed while its lesson was on the screen.
NotesGoHome == \A l \in Lessons : notes[l] \subseteq {l}
===============================================================================
