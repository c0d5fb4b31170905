SPECIFICATION Spec
CONSTANTS
  question1 = question1
  question2 = question2
  writer1 = writer1
  writer2 = writer2
  viewer1 = viewer1
  viewer2 = viewer2
  NoTime = NoTime
  Questions <- TwoQuestions
  Writers <- OneWriter
  Viewers <- TwoViewers
  WithDuration = TRUE
  Duration = 1
  TemplateEnd = NoTime
  Horizon = 2
SYMMETRY Symmetry
INVARIANTS TypeOK MarksAreRight OneCompletion
PROPERTIES   SentInTime
