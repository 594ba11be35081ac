SPECIFICATION Spec
CONSTANTS
  Questions = {p}
  ZoneQuestions = {p}
  MaxPerAgent = 2
  OutboxSize = 2
  MaxSessions = 2
  MaxUpsets = 0
INVARIANTS AllOpenQuestionsAreShown AllButtonsReachTheRuntime
CHECK_DEADLOCK FALSE
