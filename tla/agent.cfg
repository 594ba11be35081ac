SPECIFICATION AgentSpec
CONSTANTS
  p = p
  q = q
  Questions = {p, q}
  ZoneQuestions = {q}
  MaxPerAgent = 1
  OutboxSize = 1
  MaxSessions = 2
  MaxUpsets = 1
  People = {me, ann, bob}
  Meet = {{me, ann}, {me, bob}}
  Bytes = {1, 2}
  MaxSockets = 1
  MaxMoves = 3
  MaxFrames = 1
  MaxCuts = 0
  MaxDrops = 0
  MaxRefusals = 0
CHECK_DEADLOCK FALSE
INVARIANTS OpenQuestionsAreShown ButtonsReachTheRuntime VoiceIsTheirs
PROPERTIES ImplementsConsent
