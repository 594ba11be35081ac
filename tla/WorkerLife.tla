----------------------------- MODULE WorkerLife -----------------------------
(***************************************************************************)
(* The life of one worker: the runtime processes it starts, restarts and   *)
(* reloads, one after the other (packages/acp-harness/src/runner/worker.ts *)
(* and acp/agent-process.ts), and what the runner does about their deaths  *)
(* (runner/AgentRunner.ts).                                                *)
(*                                                                         *)
(* When a process dies, two handlers hear of it, in either order: its      *)
(* `exit' event, and -- if its handshake was still pending -- whoever      *)
(* awaits the start, whose promise is rejected.  A process that was told   *)
(* to stop lives on for a while (three seconds at most, then SIGKILL), and *)
(* may still answer a handshake in that time.                              *)
(*                                                                         *)
(* Abstracted: the bridge a first start opens before it spawns, and what a *)
(* turn does between claiming the worker and giving it back.               *)
(***************************************************************************)
EXTENDS Integers, FiniteSets

CONSTANTS
  MaxProcs,  \* bound: processes ever started
  Limit      \* bound: crashes, failed handshakes, reloads and stops

Disturbances == {"crash", "refuse", "reload", "stop"}
ASSUME BoundAssumption ==
  /\ MaxProcs \in Nat \ {0}
  /\ Limit \in [Disturbances -> Nat]
  /\ 1 + Limit["crash"] + Limit["reload"] <= MaxProcs  \* none is refused for the bound

Procs == 1..MaxProcs

VARIABLES
  life,       \* of each process: none, booting, up, gone
  stopped,    \* processes told to stop (AgentProcess.stop)
  replaced,   \* worker.#replaced
  current,    \* worker.#process (0 for null)
  starting,   \* worker.#starting: the process whose start it awaits
  owner,      \* who awaits the start of a process: ready(), restart, reload
  exitDue,    \* dead processes whose `exit' event is still to be handled
  settling,   \* per process, its start: none, pending, failing, ok, failed
  dead,       \* worker.dead
  restarts,   \* worker.restarts
  turn,       \* worker.turn: idle, waiting (on a start), running
  on,         \* the process the turn waits for or runs on
  pending,    \* #reloadPending has this worker
  reloading,  \* this worker's part of #reloading is not resolved
  stopping,   \* worker.#stopping
  crashed,    \* ghost: the state each process crashed in (no: it did not)
  left        \* disturbances still allowed

vars == <<life, stopped, replaced, current, starting, owner, exitDue, settling,
          dead, restarts, turn, on, pending, reloading, stopping, crashed, left>>

Alive(p) == life[p] \in {"booting", "up"}
Unstarted == {p \in Procs : life[p] = "none"}
Fresh == CHOOSE p \in Unstarted : TRUE
Spend(kind) == left[kind] > 0 /\ left' = [left EXCEPT ![kind] = @ - 1]

Init ==
  \* start() awaits the first worker's first process.
  /\ life = [p \in Procs |-> IF p = 1 THEN "booting" ELSE "none"]
  /\ owner = [p \in Procs |-> IF p = 1 THEN "ready" ELSE "none"]
  /\ settling = [p \in Procs |-> IF p = 1 THEN "pending" ELSE "none"]
  /\ current = 1 /\ starting = 1
  /\ stopped = {} /\ replaced = {} /\ exitDue = {}
  /\ dead = FALSE /\ restarts = 0
  /\ turn = "idle" /\ on = 0
  /\ pending = FALSE /\ reloading = FALSE /\ stopping = FALSE
  /\ crashed = [p \in Procs |-> "no"] /\ left = Limit

-----------------------------------------------------------------------------
(* Starting a process.                                                     *)

\* #start: a new process takes the worker's place at once; its handshake is
\* awaited by `who'.
Starts(who) ==
  /\ Unstarted # {}
  /\ life' = [life EXCEPT ![Fresh] = "booting"]
  /\ owner' = [owner EXCEPT ![Fresh] = who]
  /\ settling' = [settling EXCEPT ![Fresh] = "pending"]
  /\ current' = Fresh /\ starting' = Fresh

NoStart == UNCHANGED <<life, owner, settling, current, starting>>

\* The handshake is answered -- possibly by a process told to stop since,
\* whose reply was on its way.  A worker that is stopping refuses it.
Initialized(p) ==
  /\ life[p] = "booting" /\ settling[p] = "pending"
  /\ life' = [life EXCEPT ![p] = "up"]
  /\ settling' = [settling EXCEPT ![p] = IF stopping THEN "failing" ELSE "ok"]
  /\ stopped' = IF stopping THEN stopped \cup {p} ELSE stopped
  /\ reloading' = IF owner[p] = "reload" /\ ~stopping THEN FALSE ELSE reloading
  /\ UNCHANGED <<replaced, current, starting, owner, exitDue, dead, restarts, turn,
                 on, pending, stopping, crashed, left>>

\* The handshake is answered with an error; nothing stops the process.
Refuses(p) ==
  /\ life[p] = "booting" /\ settling[p] = "pending" /\ p \notin stopped
  /\ Spend("refuse")
  /\ settling' = [settling EXCEPT ![p] = "failing"]
  /\ UNCHANGED <<life, stopped, replaced, current, starting, owner, exitDue, dead,
                 restarts, turn, on, pending, reloading, stopping, crashed>>

\* The start's promise is rejected: the worker is given up on, whoever
\* started it -- ready(), #onWorkerExit or #reloadWorker.
StartFails(p) ==
  /\ settling[p] = "failing"
  /\ settling' = [settling EXCEPT ![p] = "failed"]
  /\ dead' = TRUE
  /\ reloading' = IF owner[p] = "reload" THEN FALSE ELSE reloading
  /\ UNCHANGED <<life, stopped, replaced, current, starting, owner, exitDue, restarts,
                 turn, on, pending, stopping, crashed, left>>

-----------------------------------------------------------------------------
(* The death of a process.                                                 *)

Falls(p) ==
  /\ life' = [life EXCEPT ![p] = "gone"]
  /\ exitDue' = exitDue \cup {p}
  /\ settling' = [settling EXCEPT ![p] = IF @ = "pending" THEN "failing" ELSE @]
  /\ UNCHANGED <<stopped, replaced, current, starting, owner, dead, restarts, turn, on,
                 pending, reloading, stopping>>

Crash(p) ==
  /\ Alive(p) /\ p \notin stopped
  /\ Spend("crash")
  /\ crashed' = [crashed EXCEPT ![p] = life[p]]
  /\ Falls(p)

\* SIGTERM, or SIGKILL three seconds later.
Killed(p) ==
  /\ Alive(p) /\ p \in stopped
  /\ Falls(p)
  /\ UNCHANGED <<crashed, left>>

\* Mutant: the exit of a process a reload replaced is taken for a crash.
ExitTakenForCrash(p) ==
  /\ p \in exitDue
  /\ exitDue' = exitDue \ {p}
  /\ \/ (stopping \/ dead) /\ NoStart /\ UNCHANGED <<dead, restarts>>
     \/ /\ ~stopping /\ ~dead /\ restarts = 0
        /\ restarts' = 1 /\ Starts("restart") /\ UNCHANGED dead
     \/ /\ ~stopping /\ ~dead /\ restarts = 1
        /\ dead' = TRUE /\ NoStart /\ UNCHANGED restarts
  /\ UNCHANGED <<stopped, replaced, turn, on, pending, reloading, stopping, crashed, left>>

\* Worker's onExit and #onWorkerExit: nothing for a process replaced on
\* purpose or a worker that is stopping or given up on; else one quiet
\* restart, and the second time the worker is given up on.
Exit(p) ==
  /\ p \in exitDue
  /\ exitDue' = exitDue \ {p}
  /\ \/ /\ p \in replaced \/ stopping \/ dead
        /\ NoStart /\ UNCHANGED <<dead, restarts>>
     \/ /\ p \notin replaced /\ ~stopping /\ ~dead /\ restarts = 0
        /\ restarts' = 1 /\ Starts("restart") /\ UNCHANGED dead
     \/ /\ p \notin replaced /\ ~stopping /\ ~dead /\ restarts = 1
        /\ dead' = TRUE /\ NoStart /\ UNCHANGED restarts
  /\ UNCHANGED <<stopped, replaced, turn, on, pending, reloading, stopping, crashed, left>>

-----------------------------------------------------------------------------
(* Turns.                                                                  *)

\* A drain hands the worker a turn, which awaits ready(): the start under
\* way, or the last one, settled long ago.
Claim ==
  /\ turn = "idle" /\ ~dead /\ ~stopping
  /\ turn' = "waiting" /\ on' = starting
  /\ UNCHANGED <<life, stopped, replaced, current, starting, owner, exitDue, settling,
                 dead, restarts, pending, reloading, stopping, crashed, left>>

\* The start the turn waited for succeeded; it goes on with #process.
TurnRuns ==
  /\ turn = "waiting" /\ settling[on] = "ok" /\ current # 0
  /\ turn' = "running" /\ on' = current
  /\ UNCHANGED <<life, stopped, replaced, current, starting, owner, exitDue, settling,
                 dead, restarts, pending, reloading, stopping, crashed, left>>

\* Mutant: the old process is left running beside the new one.
ReplacesKeepingOld ==
  /\ replaced' = replaced \cup ({current} \ {0})
  /\ Starts("reload")
  /\ UNCHANGED stopped

\* Worker.reload: the process is stopped on purpose and a new one started.
Replaces ==
  /\ stopped' = stopped \cup ({current} \ {0})
  /\ replaced' = replaced \cup ({current} \ {0})
  /\ Starts("reload")

\* Mutant: the turn ends and the reload that waited for it is forgotten.
TurnEndsForgetful ==
  /\ \/ turn = "running"
     \/ turn = "waiting" /\ (settling[on] = "failed" \/ current = 0)
  /\ turn' = "idle" /\ on' = 0 /\ pending' = FALSE
  /\ NoStart
  /\ UNCHANGED <<stopped, replaced, reloading, exitDue, dead, restarts, stopping, crashed, left>>

\* The turn is over -- answered, called off or failed -- and a reload that
\* waited for it goes (#reloadWorker): unless the agent is stopping, and
\* without a look at whether the worker was given up on meanwhile.
TurnEnds ==
  /\ \/ turn = "running"
     \/ turn = "waiting" /\ (settling[on] = "failed" \/ current = 0)
  /\ turn' = "idle" /\ on' = 0 /\ pending' = FALSE
  /\ \/ pending /\ ~stopping /\ Replaces /\ UNCHANGED reloading
     \/ /\ ~pending \/ stopping
        /\ NoStart /\ UNCHANGED <<stopped, replaced>>
        /\ reloading' = IF pending THEN FALSE ELSE reloading
  /\ UNCHANGED <<exitDue, dead, restarts, stopping, crashed, left>>

\* worker.running: there is a process, and its exit has not been heard of.
Running == current # 0 /\ (Alive(current) \/ current \in exitDue)

\* Mutant: a reload that does not wait for the worker's turn.
ReloadAtOnce ==
  /\ ~reloading /\ ~stopping /\ ~dead
  /\ Running \/ turn # "idle"
  /\ Spend("reload")
  /\ reloading' = TRUE
  /\ Replaces
  /\ UNCHANGED <<exitDue, dead, restarts, turn, on, pending, stopping, crashed>>

\* reload(): now if the worker is idle, else when its turn ends.
Reload ==
  /\ ~reloading /\ ~stopping /\ ~dead
  /\ Running \/ turn # "idle"
  /\ Spend("reload")
  /\ reloading' = TRUE
  /\ \/ turn = "idle" /\ Replaces /\ UNCHANGED pending
     \/ turn # "idle" /\ pending' = TRUE /\ NoStart /\ UNCHANGED <<stopped, replaced>>
  /\ UNCHANGED <<exitDue, dead, restarts, turn, on, stopping, crashed>>

\* Mutant: a stop that only forgets the process.
StopForgetting ==
  /\ ~stopping /\ Spend("stop")
  /\ stopping' = TRUE /\ current' = 0
  /\ UNCHANGED <<life, stopped, replaced, starting, owner, exitDue, settling, dead,
                 restarts, turn, on, pending, reloading, crashed>>

\* Worker.stop: the agent stops, or the pool makes a new worker in a dead
\* one's slot.
Stop ==
  /\ ~stopping /\ Spend("stop")
  /\ stopping' = TRUE
  /\ stopped' = stopped \cup ({current} \ {0})
  /\ current' = 0
  /\ UNCHANGED <<life, replaced, starting, owner, exitDue, settling, dead, restarts,
                 turn, on, pending, reloading, crashed>>

-----------------------------------------------------------------------------
(* The specification.                                                      *)

Next ==
  \/ \E p \in Procs : \/ Initialized(p) \/ Refuses(p) \/ StartFails(p)
                      \/ Crash(p) \/ Killed(p) \/ Exit(p)
  \/ Claim \/ TurnRuns \/ TurnEnds \/ Reload \/ Stop

Spec == Init /\ [][Next]_vars

\* A handshake is answered or fails, a signal kills, a handler runs, a turn
\* ends (module TurnLoop: the idle clock sees to it).
Fairness ==
  /\ \A p \in Procs : /\ WF_vars(Initialized(p) \/ StartFails(p))
                      /\ WF_vars(Killed(p)) /\ WF_vars(Exit(p))
  /\ WF_vars(TurnRuns \/ TurnEnds)

FairSpec == Spec /\ Fairness

-----------------------------------------------------------------------------
(* Properties.                                                             *)

\* Type invariant of the worker (the private fields of Worker).
TypeOK ==
  /\ life \in [Procs -> {"none", "booting", "up", "gone"}]
  /\ owner \in [Procs -> {"none", "ready", "restart", "reload"}]
  /\ settling \in [Procs -> {"none", "pending", "failing", "ok", "failed"}]
  /\ stopped \subseteq Procs /\ replaced \subseteq Procs /\ exitDue \subseteq Procs
  /\ current \in 0..MaxProcs /\ starting \in Procs /\ on \in 0..MaxProcs
  /\ dead \in BOOLEAN /\ restarts \in {0, 1}
  /\ turn \in {"idle", "waiting", "running"}
  /\ pending \in BOOLEAN /\ reloading \in BOOLEAN /\ stopping \in BOOLEAN
  /\ crashed \in [Procs -> {"no", "booting", "up"}] /\ left \in [Disturbances -> Nat]

\* No runtime is left running that the worker has forgotten: every process
\* that lives is the worker's own, or has been told to stop -- through
\* crashes, reloads in the middle of a restart, and a stop in the middle of
\* a handshake (stop() "must own a process even while its initialize
\* handshake is pending").
NoForgottenProcess ==
  \A p \in Procs : Alive(p) => p = current \/ p \in stopped

\* A reload never takes the process from under a running turn, and a turn
\* that claims the worker after one runs on the new process.
TurnKeepsItsProcess ==
  turn = "running" /\ ~stopping => on \notin replaced

\* The one quiet restart is spent on crashes only: on one of a process that
\* is the worker's no more and that no reload replaced.  The exit of one that
\* a reload replaced, however late it comes and whether it crashed or was
\* killed, never costs it.
RestartIsForACrash ==
  restarts = 1 => \E p \in Procs \ replaced : p # current /\ crashed[p] # "no"

\* Whatever dies under it, a reload that was asked for is over in the end.
ReloadEnds == reloading ~> ~reloading

\* After a stop every process is gone in the end, whatever was under way.
StopLeavesNoProcess == stopping ~> (\A p \in Procs : ~Alive(p))

\* A worker given up on has no process: the pool will never claim it, so a
\* live one would run for nobody (#onWorkerExit: "a live process nothing
\* will ever claim").
GivenUpHasNoProcess ==
  dead /\ ~stopping => \A p \in Procs : Alive(p) => p \in stopped

\* "One quiet restart per worker on a crash" (#onWorkerExit): a worker is
\* given up on for a process that died on its way up or a second crash, never
\* for one crash of a process that was up.
OneCrashIsSurvived ==
  dead /\ ~stopping =>
    \/ \E p \in Procs : crashed[p] = "booting"
    \/ \E p, q \in Procs : p # q /\ crashed[p] # "no" /\ crashed[q] # "no"

=============================================================================
