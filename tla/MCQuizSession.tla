----------------------------- MODULE MCQuizSession ----------------------------
(* Instances of QuizSession for TLC. *)
EXTENDS QuizSession, TLC

CONSTANTS question1, question2, writer1, writer2, viewer1, viewer2

TwoQuestions == {question1, question2}
OneWriter == {writer1}
TwoWriters == {writer1, writer2}
OneViewer == {viewer1}
TwoViewers == {viewer1, viewer2}

Symmetry == Permutations(TwoQuestions) \cup Permutations(TwoViewers)
===============================================================================
