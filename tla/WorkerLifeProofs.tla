-------------------------- MODULE WorkerLifeProofs --------------------------
(***************************************************************************)
(* Proofs about one worker's processes, for any number of processes,       *)
(* crashes, reloads and failed handshakes.                                 *)
(***************************************************************************)
EXTENDS WorkerLife, TLAPS

\* Until it is stopped the worker has a process, the processes told to stop
\* are those a reload replaced, and none of those is its own.
Ownership ==
  /\ stopping <=> current = 0
  /\ ~stopping => stopped = replaced
  /\ current \notin replaced
  /\ \A p \in Procs : p = current \/ p \in replaced => life[p] # "none"

\* An exit still to be handled is that of a dead process, and -- unless a
\* reload replaced it -- of the worker's own.
ExitsAreOurs ==
  /\ \A p \in exitDue : life[p] = "gone"
  /\ \A p \in exitDue : p \in replaced \/ stopping \/ p = current

\* A process that crashed is gone, and one that is gone and was never told to
\* stop has crashed.
GoneCrashed ==
  \A p \in Procs : /\ life[p] = "gone" /\ p \notin stopped => crashed[p] # "no"
                   /\ crashed[p] # "no" => life[p] = "gone"

\* The inductive invariant: the three properties, and why they last.
Inv ==
  /\ TypeOK
  /\ NoForgottenProcess /\ TurnKeepsItsProcess /\ RestartIsForACrash
  /\ Ownership /\ ExitsAreOurs /\ GoneCrashed

\* The next process has not been started before.
LEMMA FreshIsUnstarted ==
  ASSUME Unstarted # {}
  PROVE  Fresh \in Procs /\ life[Fresh] = "none"
BY DEF Fresh, Unstarted

LEMMA SpendType ==
  ASSUME TypeOK, NEW k \in Disturbances, Spend(k)
  PROVE  left' \in [Disturbances -> Nat]
<1>1. left[k] \in Nat /\ left[k] > 0 /\ left' = [left EXCEPT ![k] = left[k] - 1]
  BY DEF TypeOK, Spend
<1>2. left[k] - 1 \in Nat
  BY <1>1
<1> QED BY <1>1, <1>2 DEF TypeOK

LEMMA DisturbancesAre ==
  /\ "crash" \in Disturbances /\ "refuse" \in Disturbances
  /\ "reload" \in Disturbances /\ "stop" \in Disturbances
BY DEF Disturbances

LEMMA InitInv == Init => Inv
<1> SUFFICES ASSUME Init PROVE Inv
  OBVIOUS
<1>1. 1 \in Procs /\ MaxProcs \in Nat
  BY BoundAssumption DEF Procs
<1>2. 1 \in 0..MaxProcs /\ 0 \in 0..MaxProcs
  BY <1>1, BoundAssumption DEF Procs
<1>3. left \in [Disturbances -> Nat]
  BY BoundAssumption DEF Init
<1>4. TypeOK
  BY <1>1, <1>2, <1>3 DEF Init, TypeOK
<1> QED BY <1>1, <1>4 DEF Init, Inv, NoForgottenProcess, TurnKeepsItsProcess,
       RestartIsForACrash, Ownership, ExitsAreOurs, GoneCrashed, Alive

\* What a start does to the processes.
LEMMA StartsEffect ==
  ASSUME TypeOK, NEW who \in {"restart", "reload"}, Starts(who)
  PROVE  /\ Fresh \in Procs /\ life[Fresh] = "none" /\ current' = Fresh /\ Fresh # 0
         /\ life' = [life EXCEPT ![Fresh] = "booting"]
         /\ life' \in [Procs -> {"none", "booting", "up", "gone"}]
         /\ owner' \in [Procs -> {"none", "ready", "restart", "reload"}]
         /\ settling' \in [Procs -> {"none", "pending", "failing", "ok", "failed"}]
         /\ current' \in 0..MaxProcs /\ starting' \in Procs
<1>1. Fresh \in Procs /\ life[Fresh] = "none"
  BY FreshIsUnstarted DEF Starts
<1>2. MaxProcs \in Nat /\ Fresh \in 0..MaxProcs /\ Fresh # 0
  BY <1>1, BoundAssumption DEF Procs
<1> HIDE DEF Fresh
<1> QED BY <1>1, <1>2 DEF Starts, TypeOK

LEMMA InitializedInv == ASSUME Inv, NEW p \in Procs, Initialized(p) PROVE Inv'
<1>1. TypeOK'
  BY DEF Inv, TypeOK, Initialized
<1>2. \A q \in Procs : life'[q] # "none" <=> life[q] # "none"
  BY DEF Inv, TypeOK, Initialized
<1>3. \A q \in Procs : (life'[q] = "gone" <=> life[q] = "gone") /\ (Alive(q)' <=> Alive(q))
  BY DEF Inv, TypeOK, Initialized, Alive
<1> QED BY <1>1, <1>2, <1>3 DEF Inv, TypeOK, Initialized, NoForgottenProcess,
       TurnKeepsItsProcess, RestartIsForACrash, Ownership, ExitsAreOurs, GoneCrashed

LEMMA RefusesInv == ASSUME Inv, NEW p \in Procs, Refuses(p) PROVE Inv'
<1>1. left' \in [Disturbances -> Nat]
  BY SpendType, DisturbancesAre DEF Refuses, Inv
<1> QED BY <1>1 DEF Inv, TypeOK, Refuses, NoForgottenProcess, Alive,
       TurnKeepsItsProcess, RestartIsForACrash, Ownership, ExitsAreOurs, GoneCrashed

LEMMA StartFailsInv == ASSUME Inv, NEW p \in Procs, StartFails(p) PROVE Inv'
BY DEF Inv, TypeOK, StartFails, NoForgottenProcess, Alive, TurnKeepsItsProcess,
       RestartIsForACrash, Ownership, ExitsAreOurs, GoneCrashed

\* A death, by itself or by a signal.
LEMMA FallsInv ==
  ASSUME Inv, NEW p \in Procs, Alive(p), Falls(p), left' \in [Disturbances -> Nat],
         crashed' \in [Procs -> {"no", "booting", "up"}],
         p \notin stopped => p = current,
         p \notin stopped => crashed'[p] # "no",
         \A q \in Procs \ {p} : crashed'[q] = crashed[q],
         crashed[p] # "no" => crashed'[p] # "no"
  PROVE  Inv'
<1>1. /\ life' = [life EXCEPT ![p] = "gone"] /\ exitDue' = exitDue \cup {p}
      /\ UNCHANGED <<stopped, replaced, starting, current, owner, dead, restarts, turn, on,
                     pending, reloading, stopping>>
  BY DEF Falls
<1>2. TypeOK'
  BY <1>1 DEF Inv, TypeOK, Falls
<1>3. \A q \in Procs : /\ Alive(q)' => Alive(q)
                       /\ life'[q] # "none" <=> life[q] # "none"
                       /\ life'[q] = "gone" <=> life[q] = "gone" \/ q = p
  BY <1>1 DEF Inv, TypeOK, Alive
<1>4. ExitsAreOurs'
  <2>1. p \in replaced \/ stopping \/ p = current
    BY DEF Inv, Ownership
  <2> QED BY <1>1, <1>3, <2>1 DEF Inv, ExitsAreOurs, TypeOK
<1>5. GoneCrashed'
  BY <1>1, <1>3 DEF Inv, GoneCrashed, Alive
<1> QED BY <1>1, <1>2, <1>3, <1>4, <1>5 DEF Inv, NoForgottenProcess,
       TurnKeepsItsProcess, RestartIsForACrash, Ownership

LEMMA CrashInv == ASSUME Inv, NEW p \in Procs, Crash(p) PROVE Inv'
<1>1. left' \in [Disturbances -> Nat]
  BY SpendType, DisturbancesAre DEF Crash, Inv
<1>2. /\ crashed' = [crashed EXCEPT ![p] = life[p]]
      /\ life[p] \in {"booting", "up"}
  BY DEF Crash, Alive
<1>3. /\ crashed' \in [Procs -> {"no", "booting", "up"}] /\ crashed'[p] # "no"
      /\ \A q \in Procs \ {p} : crashed'[q] = crashed[q]
  BY <1>2 DEF Inv, TypeOK
<1>4. p = current
  BY DEF Crash, Inv, NoForgottenProcess
<1> QED BY <1>1, <1>3, <1>4, FallsInv DEF Crash

LEMMA KilledInv == ASSUME Inv, NEW p \in Procs, Killed(p) PROVE Inv'
<1>1. left' \in [Disturbances -> Nat] /\ crashed' \in [Procs -> {"no", "booting", "up"}]
  BY DEF Killed, Inv, TypeOK
<1> QED BY <1>1, FallsInv DEF Killed

LEMMA ExitInv == ASSUME Inv, NEW p \in Procs, Exit(p) PROVE Inv'
<1>1. CASE NoStart /\ UNCHANGED restarts /\ dead' \in BOOLEAN
  BY <1>1 DEF Exit, NoStart, Inv, TypeOK, NoForgottenProcess, Alive, TurnKeepsItsProcess,
     RestartIsForACrash, Ownership, ExitsAreOurs, GoneCrashed
<1>2. CASE /\ p \notin replaced /\ ~stopping /\ restarts' = 1 /\ Starts("restart")
           /\ UNCHANGED dead
  <2>1. p = current /\ life[p] = "gone" /\ exitDue' = exitDue \ {p}
    BY <1>2 DEF Exit, Inv, ExitsAreOurs
  <2>2. p \notin stopped /\ crashed[p] # "no" /\ stopped = replaced
    BY <1>2, <2>1 DEF Inv, Ownership, GoneCrashed
  <2>3. /\ Fresh \in Procs /\ life[Fresh] = "none" /\ current' = Fresh /\ Fresh # 0
        /\ life' = [life EXCEPT ![Fresh] = "booting"]
    BY <1>2, StartsEffect DEF Inv
  <2>4. TypeOK'
    BY <1>2, StartsEffect DEF Exit, Inv, TypeOK
  <2> HIDE DEF Fresh
  <2>5. NoForgottenProcess'
    BY <2>1, <2>3 DEF Exit, Inv, TypeOK, NoForgottenProcess, Alive
  <2>6. Ownership'
    BY <1>2, <2>2, <2>3 DEF Exit, Inv, TypeOK, Ownership
  <2>7. ExitsAreOurs'
    BY <2>1, <2>3 DEF Exit, Inv, TypeOK, ExitsAreOurs
  <2>8. GoneCrashed'
    BY <2>3 DEF Exit, Inv, TypeOK, GoneCrashed
  <2>9. TurnKeepsItsProcess' /\ RestartIsForACrash'
    BY <1>2, <2>1, <2>2, <2>3 DEF Exit, Inv, TurnKeepsItsProcess, RestartIsForACrash
  <2> QED BY <2>4, <2>5, <2>6, <2>7, <2>8, <2>9 DEF Inv
<1> QED BY <1>1, <1>2 DEF Exit, Inv, TypeOK

LEMMA ClaimInv == ASSUME Inv, Claim PROVE Inv'
<1>1. starting \in 0..MaxProcs
  BY BoundAssumption DEF Inv, TypeOK, Procs
<1> QED BY <1>1 DEF Claim, Inv, TypeOK, NoForgottenProcess, Alive, TurnKeepsItsProcess,
     RestartIsForACrash, Ownership, ExitsAreOurs, GoneCrashed

LEMMA TurnRunsInv == ASSUME Inv, TurnRuns PROVE Inv'
BY DEF TurnRuns, Inv, TypeOK, NoForgottenProcess, Alive, TurnKeepsItsProcess,
       RestartIsForACrash, Ownership, ExitsAreOurs, GoneCrashed

\* A reload, whoever runs it, once no turn is left on the worker.
LEMMA ReplacesInv ==
  ASSUME Inv, ~stopping, Replaces, turn' # "running", turn' \in {"idle", "waiting", "running"},
         on' \in 0..MaxProcs, pending' \in BOOLEAN, reloading' \in BOOLEAN,
         left' \in [Disturbances -> Nat],
         UNCHANGED <<exitDue, dead, restarts, stopping, crashed>>
  PROVE  Inv'
<1>1. /\ Fresh \in Procs /\ life[Fresh] = "none" /\ current' = Fresh /\ Fresh # 0
      /\ life' = [life EXCEPT ![Fresh] = "booting"]
  BY StartsEffect DEF Inv, Replaces
<1>2. /\ current \in Procs /\ stopped' = stopped \cup {current}
      /\ replaced' = replaced \cup {current}
  <2>1. current # 0
    BY DEF Inv, Ownership
  <2> QED BY <2>1, BoundAssumption DEF Inv, TypeOK, Replaces, Procs
<1>3. TypeOK'
  BY <1>2, StartsEffect DEF Replaces, Inv, TypeOK
<1> HIDE DEF Fresh
<1>4. NoForgottenProcess'
  BY <1>1, <1>2 DEF Inv, TypeOK, NoForgottenProcess, Alive
<1>5. Ownership'
  BY <1>1, <1>2 DEF Inv, TypeOK, Ownership
<1>6. ExitsAreOurs'
  BY <1>1, <1>2 DEF Inv, TypeOK, ExitsAreOurs
<1>7. GoneCrashed'
  BY <1>1, <1>2 DEF Inv, TypeOK, GoneCrashed
<1>8. TurnKeepsItsProcess' /\ RestartIsForACrash'
  BY <1>1, <1>2 DEF Inv, TurnKeepsItsProcess, RestartIsForACrash, GoneCrashed
<1> QED BY <1>3, <1>4, <1>5, <1>6, <1>7, <1>8 DEF Inv

LEMMA TurnEndsInv == ASSUME Inv, TurnEnds PROVE Inv'
<1>1. 0 \in 0..MaxProcs
  BY BoundAssumption
<1>2. CASE ~stopping /\ Replaces /\ UNCHANGED reloading
  BY <1>1, <1>2, ReplacesInv DEF TurnEnds, Inv, TypeOK
<1>3. CASE /\ NoStart /\ UNCHANGED <<stopped, replaced>>
           /\ reloading' = IF pending THEN FALSE ELSE reloading
  BY <1>1, <1>3 DEF TurnEnds, NoStart, Inv, TypeOK, NoForgottenProcess, Alive,
     TurnKeepsItsProcess, RestartIsForACrash, Ownership, ExitsAreOurs, GoneCrashed
<1> QED BY <1>2, <1>3 DEF TurnEnds

LEMMA ReloadInv == ASSUME Inv, Reload PROVE Inv'
<1>1. left' \in [Disturbances -> Nat]
  BY SpendType, DisturbancesAre DEF Reload, Inv
<1>2. CASE turn = "idle" /\ Replaces /\ UNCHANGED pending
  BY <1>1, <1>2, ReplacesInv DEF Reload, Inv, TypeOK
<1>3. CASE pending' = TRUE /\ NoStart /\ UNCHANGED <<stopped, replaced>>
  BY <1>1, <1>3 DEF Reload, NoStart, Inv, TypeOK, NoForgottenProcess, Alive,
     TurnKeepsItsProcess, RestartIsForACrash, Ownership, ExitsAreOurs, GoneCrashed
<1> QED BY <1>2, <1>3 DEF Reload

LEMMA StopInv == ASSUME Inv, Stop PROVE Inv'
<1>1. left' \in [Disturbances -> Nat]
  BY SpendType, DisturbancesAre DEF Stop, Inv
<1>2. current \in Procs /\ stopped' = stopped \cup {current} /\ 0 \in 0..MaxProcs
  <2>1. current # 0
    BY DEF Inv, Ownership, Stop
  <2> QED BY <2>1, BoundAssumption DEF Inv, TypeOK, Stop, Procs
<1> QED BY <1>1, <1>2, BoundAssumption DEF Stop, Inv, TypeOK, NoForgottenProcess, Alive,
     TurnKeepsItsProcess, RestartIsForACrash, Ownership, ExitsAreOurs, GoneCrashed, Procs

LEMMA NextInv == Inv /\ [Next]_vars => Inv'
<1> SUFFICES ASSUME Inv, [Next]_vars PROVE Inv'
  OBVIOUS
<1>1. CASE \E p \in Procs : \/ Initialized(p) \/ Refuses(p) \/ StartFails(p)
                            \/ Crash(p) \/ Killed(p) \/ Exit(p)
  BY <1>1, InitializedInv, RefusesInv, StartFailsInv, CrashInv, KilledInv, ExitInv
<1>2. CASE Claim \/ TurnRuns \/ TurnEnds \/ Reload \/ Stop
  BY <1>2, ClaimInv, TurnRunsInv, TurnEndsInv, ReloadInv, StopInv
<1>3. CASE UNCHANGED vars
  BY <1>3 DEF vars, Inv, TypeOK, NoForgottenProcess, Alive, TurnKeepsItsProcess,
     RestartIsForACrash, Ownership, ExitsAreOurs, GoneCrashed
<1> QED BY <1>1, <1>2, <1>3 DEF Next

LEMMA SpecInv == Spec => []Inv
BY InitInv, NextInv, PTL DEF Spec

\* No runtime process outlives the worker's knowledge of it (Worker.#start,
\* restart, reload and stop), however often it crashes and is reloaded.
THEOREM NoProcessIsForgotten == Spec => []NoForgottenProcess
<1>1. Inv => NoForgottenProcess
  BY DEF Inv
<1> QED BY <1>1, SpecInv, PTL

\* No turn has its process replaced under it by a reload (#reloadPending).
THEOREM TurnsKeepTheirProcess == Spec => []TurnKeepsItsProcess
<1>1. Inv => TurnKeepsItsProcess
  BY DEF Inv
<1> QED BY <1>1, SpecInv, PTL

\* A reload never uses up the worker's one quiet restart (#replaced).
THEOREM RestartsAreForCrashes == Spec => []RestartIsForACrash
<1>1. Inv => RestartIsForACrash
  BY DEF Inv
<1> QED BY <1>1, SpecInv, PTL

=============================================================================
