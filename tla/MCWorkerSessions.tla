------------------------- MODULE MCWorkerSessions -------------------------
(* Small instances of WorkerSessions for TLC. *)
EXTENDS WorkerSessions, TLC

CONSTANTS a, b

Budget(mode, warm, crash, reload, rotate, move, owner, tool, fault) ==
  [k \in Happenings |->
     CASE k = "warm" -> warm [] k = "crash" -> crash [] k = "reload" -> reload
       [] k = "rotate" -> rotate [] k = "move" -> move [] k = "owner" -> owner
       [] k = "tool" -> tool [] k = "fault" -> fault [] k = "mode" -> mode]

LimitsCrash == {Budget(1, 1, 1, 0, 1, 0, 1, 0, 1)}
LimitsReload == {Budget(0, 1, 0, 1, 1, 1, 0, 0, 1)}
LimitsBoth == LimitsCrash \cup LimitsReload
LimitsMoves == {Budget(0, 0, 1, 0, 0, 3, 0, 0, 1)}
LimitsResumed == {Budget(0, 0, 0, 1, 0, 1, 0, 0, 0)}
LimitsBook == {Budget(1, 1, 0, 1, 0, 0, 0, 0, 0)}
LimitsTwice == {Budget(1, 3, 0, 1, 0, 0, 0, 0, 0)}
LimitsMemory == {Budget(0, 0, 0, 1, 0, 0, 1, 0, 0)}
LimitsTool == {Budget(0, 0, 0, 0, 0, 0, 0, 1, 1)}
LimitsRace == {Budget(0, 1, 0, 2, 0, 0, 0, 0, 0)}
LimitsRotate == {Budget(0, 1, 0, 1, 1, 0, 0, 0, 0)}
LimitsMove == {Budget(0, 1, 0, 0, 0, 1, 0, 0, 0)}
===========================================================================
