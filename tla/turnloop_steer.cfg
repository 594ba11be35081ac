SPECIFICATION Spec
CONSTANTS
  w1 = w1
  w2 = w2
  w3 = w3
  w4 = w4
  s1 = s1
  s2 = s2
  Scopes = {s1, s2}
  BanterScopes = {}
  Workers = {w1}
  NoTurn = NoTurn
  MaxLive = 1
  MaxBatch = 4
  MaxAttempts = 2
  MaxMsgs = 4
  Limit <- LimitCancel
CHECK_DEADLOCK FALSE
SYMMETRY WorkerSymmetry
INVARIANTS SteerIsHonest
