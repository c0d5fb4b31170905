----------------------------- MODULE ClientPages ------------------------------
(***************************************************************************)
(* The four pages of the Angular client on which work of the user can be   *)
(* lost: a quiz, a lesson with its notes, the editor of a lesson, and the  *)
(* form of a quiz template.  The router shows one page at a time and the   *)
(* pages share nothing: a behavior is a visit of one of them, with as many *)
(* ways in and out as it has.                                              *)
(***************************************************************************)
EXTENDS QuizPlayer, LessonPage, BlockEditor, TemplateEditor

VARIABLE visit

pagesVars == <<visit, playerVars, lessonVars, editorVars, templateVars>>

\* A page that is not visited begins in one way only.
PagesInit ==
  /\ visit \in {"quiz", "lesson", "editor", "template"}
  /\ PlayerInit /\ LessonInit /\ EditorInit /\ TemplateInit
  /\ visit # "quiz" => watched = CHOOSE q \in Questions : TRUE
  /\ visit # "template" => finished = {}

PagesNext ==
  \/ visit = "quiz" /\ PlayerNext /\ UNCHANGED <<visit, lessonVars, editorVars, templateVars>>
  \/ visit = "lesson" /\ LessonNext /\ UNCHANGED <<visit, playerVars, editorVars, templateVars>>
  \/ visit = "editor" /\ EditorNext /\ UNCHANGED <<visit, playerVars, lessonVars, templateVars>>
  \/ visit = "template" /\ TemplateNext /\ UNCHANGED <<visit, playerVars, lessonVars, editorVars>>

PagesSpec == PagesInit /\ [][PagesNext]_pagesVars

PagesTypeOK == PlayerTypeOK /\ LessonTypeOK /\ EditorTypeOK /\ TemplateTypeOK
===============================================================================
