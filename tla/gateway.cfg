SPECIFICATION BothSpec
CONSTANTS
  Workers = {w1, w2}
  Pool = {w1, w2, w3}
  MaxTroubles = 3
  w1 = w1
  s1 = s1
  s2 = s2
  Scopes = {s1, s2}
  BanterScopes = {}
  NoTurn = NoTurn
  MaxLive = 2
  MaxBatch = 2
  MaxAttempts = 2
  MaxMsgs = 2
CHECK_DEADLOCK FALSE
INVARIANTS OneConnection StoppedIsGone
PROPERTIES ComesBack EveryoneIsAnswered
