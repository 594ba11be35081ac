SPECIFICATION Spec
CONSTANTS
  Questions = {p}
  ZoneQuestions = {}
  MaxPerAgent = 2
  OutboxSize = 2
  MaxSessions = 2
  MaxUpsets = 0
INVARIANTS OpenQuestionsAreAnswerable
CHECK_DEADLOCK FALSE
