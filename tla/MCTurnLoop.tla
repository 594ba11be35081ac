---------------------------- MODULE MCTurnLoop ----------------------------
(* Small instances of TurnLoop for TLC. *)
EXTENDS TurnLoop, TLC

CONSTANTS w1, w2, w3, w4, s1, s2

Budget(f, c, r, d, st) ==
  [k \in Disturbances |-> CASE k = "fault" -> f [] k = "cancel" -> c
     [] k = "reload" -> r [] k = "drop" -> d [] k = "stop" -> st]

LimitSafety == Budget(2, 1, 1, 1, 1)
LimitDrop == Budget(0, 0, 0, 1, 0)
LimitNone == Budget(0, 0, 0, 0, 0)
LimitCancel == Budget(0, 1, 0, 0, 0)

WorkerSymmetry == Permutations(Workers)
=============================================================================
