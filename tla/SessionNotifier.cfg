\* An interactive session, a job and one that is refused, two questions each.
CONSTANTS
  q1 = q1
  q2 = q2
  Question = {q1, q2}
  AskUserQuestion = {q2}
  Configs <- ThreeSessions
  LateMessages = TRUE
  MaxMessages = 2
  Wanted = {"permission_requested", "turn_result", "session_error", "session_closed"}
  Attempts = 2
SPECIFICATION Spec
INVARIANTS
  QuestionsAgree
PROPERTIES
  ReceivedInOrder
  QuestionAnswered
CHECK_DEADLOCK FALSE
