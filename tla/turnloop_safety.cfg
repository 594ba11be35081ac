SPECIFICATION Spec
CONSTANTS
  w1 = w1
  w2 = w2
  w3 = w3
  w4 = w4
  s1 = s1
  s2 = s2
  Scopes = {s1, s2}
  BanterScopes = {s2}
  Workers = {w1, w2, w3, w4}
  NoTurn = NoTurn
  MaxLive = 2
  MaxBatch = 2
  MaxAttempts = 2
  MaxMsgs = 2
  Limit <- LimitSafety
CHECK_DEADLOCK FALSE
SYMMETRY WorkerSymmetry
INVARIANTS OneTurnPerScope ScopeOrder NeverSilent WorkConserving
PROPERTIES IsAMailbox NothingShownAfterStop
