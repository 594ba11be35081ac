------------------------------ MODULE TurnLoop ------------------------------
(***************************************************************************)
(* How one agent answers the conversations it is in: the turn loop of the  *)
(* harness (packages/acp-harness/src/runner/AgentRunner.ts) over its pool  *)
(* of runtime processes (runner/pool.ts, runner/worker.ts).                *)
(*                                                                         *)
(* A scope is a conversation.  Its messages wait in a queue; a drain hands *)
(* each scope that has no turn in flight to a worker, which answers a      *)
(* batch of them in one turn.  A turn awaits, in order, its worker, its    *)
(* session and (for a session nobody has spoken in) the standing           *)
(* instructions, before it prompts the runtime: every await is a point     *)
(* where another handler may run, so every stretch of code between two     *)
(* awaits is one action here.                                              *)
(*                                                                         *)
(* Abstracted: which idle worker a scope prefers (any idle worker may take *)
(* it), the text of a message, the session book, the processes (a start    *)
(* here is one step; module WorkerLife has its races), and the `!forget'   *)
(* scopes, whose turns ask the model one question of their own.            *)
(***************************************************************************)
EXTENDS Integers, Sequences, FiniteSets, Functions

CONSTANTS
  Scopes,        \* conversations
  BanterScopes,  \* those that are a moment of banter: nobody waits for an answer
  Workers,       \* worker objects, made one at a time
  NoTurn,        \* worker.turn = null
  MaxLive,       \* the agent's parallelism
  MaxBatch,      \* messages drained into one prompt (MAX_BATCH)
  MaxAttempts,   \* MAX_ATTEMPTS
  MaxMsgs,       \* bound: messages ever sent
  Limit          \* bound: how often each kind of disturbance may happen

Disturbances == {"fault", "cancel", "reload", "drop", "stop"}

ASSUME ScopesAssumption == IsFiniteSet(Scopes) /\ BanterScopes \subseteq Scopes
ASSUME PoolAssumption == IsFiniteSet(Workers) /\ MaxLive \in Nat \ {0}
ASSUME BatchAssumption == MaxBatch \in Nat \ {0} /\ MaxAttempts \in Nat \ {0}
ASSUME BoundAssumption == MaxMsgs \in Nat /\ Limit \in [Disturbances -> Nat]
\* A drain never runs out of worker objects: every worker that dies costs a fault.
ASSUME EnoughWorkers == Cardinality(Workers) >= MaxLive + Limit["fault"]

VARIABLES
  queue,      \* #queues: per scope, the messages waiting, oldest first
  ahead,      \* the key order of #queues: <<a, b>> when a drain visits a first
  inFlight,   \* #inFlight: scopes with a turn running
  turns,      \* worker.turn (and #turns)
  status,     \* a worker's life: unmade, starting, up, dead
  restarts,   \* worker.restarts
  steer,      \* #steerPending
  activity,   \* #queuedActivity: scopes shown as queued in the office
  pending,    \* #reloadPending: busy workers that reload when their turn ends
  reloading,  \* workers the reload in progress still waits for
  refused,    \* #modelRefusal is set
  refusalSaid,\* #refusalSaid
  gw,         \* the gateway: up, closed (old client), joining (new client)
  stopping,   \* #stopping
  attempt,    \* trigger.attempt, per message
  sent,       \* messages sent so far: message m is the m-th
  left,       \* disturbances still allowed
  asked,      \* ghost: where each message was sent: message m in asked[m]
  told,       \* ghost: messages the runner said a line for
  excused,    \* ghost: messages nobody waits for: banter, or called off
  shown,      \* ghost: how often the runtime was shown each message
  midTurn     \* ghost: messages that came while their scope's turn ran

engine == <<queue, ahead, inFlight, turns, status, steer, activity, told>>
vars == <<queue, ahead, inFlight, turns, status, restarts, steer, activity, pending,
          reloading, refused, refusalSaid, gw, stopping, attempt, sent, left,
          asked, told, excused, shown, midTurn>>

-----------------------------------------------------------------------------
(* The turn, and the part of the state a drain reads and writes.           *)

Msgs == 1..MaxMsgs
Phases == {"starting", "opening", "priming", "prompted"}

Turn == [scope : Scopes, batch : Seq(Msgs) \ {<<>>}, phase : Phases, steer : BOOLEAN,
         prompted : BOOLEAN, cancelled : BOOLEAN, stopSent : BOOLEAN,
         lost : BOOLEAN]
ASSUME NoTurnAssumption == NoTurn \notin Turn

\* `stopSent': the runtime was told to stop the prompt it is running.
\* `lost': the process the turn was talking to has gone.
NewTurn(s, batch, asSteer) ==
  [scope |-> s, batch |-> batch, phase |-> "starting", steer |-> asSteer,
   prompted |-> FALSE, cancelled |-> FALSE, stopSent |-> FALSE, lost |-> FALSE]

Now == [queue |-> queue, ahead |-> ahead, inFlight |-> inFlight, turns |-> turns,
        status |-> status, steer |-> steer, activity |-> activity, told |-> told]

Become(S) ==
  /\ queue' = S.queue
  /\ ahead' = S.ahead
  /\ inFlight' = S.inFlight
  /\ turns' = S.turns
  /\ status' = S.status
  /\ steer' = S.steer
  /\ activity' = S.activity
  /\ told' = S.told

Live(S) == {w \in Workers : S.status[w] \in {"starting", "up"}}
Idle(S) == {w \in Live(S) : S.turns[w] = NoTurn}
Unmade(S) == {w \in Workers : S.status[w] = "unmade"}
\* Mutant: a drain that does not look at #inFlight.
WaitingAnyway(S) == {s \in Scopes : S.queue[s] # <<>>}
Waiting(S) == {s \in Scopes : S.queue[s] # <<>>} \ S.inFlight
MsgsOf(seq) == {seq[i] : i \in DOMAIN seq}
Batch(q) == SubSeq(q, 1, IF Len(q) < MaxBatch THEN Len(q) ELSE MaxBatch)
Rest(q) == SubSeq(q, Len(Batch(q)) + 1, Len(q))

\* A Map keeps its keys in the order they were first set; a scope's key goes
\* when its queue is emptied.
Keys(q) == {s \in Scopes : q[s] # <<>>}
KeySet(q, s) == IF q[s] # <<>> THEN ahead ELSE ahead \cup (Keys(q) \X {s})
KeysLeft(order, q) == order \cap (Keys(q) \X Keys(q))

-----------------------------------------------------------------------------
(* The drain, which every handler that may have freed or filled something  *)
(* ends with.                                                              *)

\* Who takes whom: a scope gets an idle worker if there is one, else a new
\* one if the ceiling on live workers has room, else it goes on waiting.
Claims(S) ==
  UNION {{c \in Injection(D, Idle(S) \cup Unmade(S)) :
            LET taken == {c[s] : s \in D}
                made  == taken \cap Unmade(S)
            IN /\ Cardinality(Live(S)) + Cardinality(made) <= MaxLive
               /\ \A p \in S.ahead : p[1] \in Waiting(S) /\ p[2] \in D => p[1] \in D
               /\ made # {} \/ D # Waiting(S) => Idle(S) \subseteq taken
               /\ D # Waiting(S)
                    => Cardinality(Live(S)) + Cardinality(made) = MaxLive}
         : D \in SUBSET Waiting(S)}

Started(S, c) ==
  LET takenBy(w) == CHOOSE s \in DOMAIN c : c[s] = w
      taken == {c[s] : s \in DOMAIN c}
      behind == [s \in Scopes |-> IF s \in DOMAIN c THEN Rest(S.queue[s])
                                                   ELSE S.queue[s]]
  IN [S EXCEPT
        !.queue = behind,
        !.ahead = KeysLeft(S.ahead, behind),
        !.inFlight = S.inFlight \cup DOMAIN c,
        !.turns = [w \in Workers |->
                     IF w \in taken
                     THEN NewTurn(takenBy(w), Batch(S.queue[takenBy(w)]),
                                  takenBy(w) \in S.steer)
                     ELSE S.turns[w]],
        !.status = [w \in Workers |-> IF w \in taken /\ S.status[w] = "unmade"
                                      THEN "starting" ELSE S.status[w]],
        !.steer = S.steer \ DOMAIN c,
        !.activity = S.activity \ DOMAIN c]

\* Mutant: the waiting messages are dropped without a word.
RefusedSilently(S) ==
  [S EXCEPT !.queue = [s \in Scopes |-> <<>>], !.ahead = {}, !.steer = {},
            !.activity = {}]

\* Nothing left to run on: every waiting conversation is told so, and dropped.
Refused(S) ==
  [S EXCEPT
     !.queue = [s \in Scopes |-> <<>>],
     !.ahead = {},
     !.steer = {},
     !.activity = {},
     !.told = S.told \cup UNION {MsgsOf(S.queue[s]) : s \in Scopes \ BanterScopes}]

Drained(S) ==
  IF stopping THEN {S}
  ELSE IF Live(S) = {} THEN {Refused(S)}
  ELSE {Started(S, c) : c \in Claims(S)}

\* What a worker's death does at once when it was the last one.
NotedIfNothingLeft(S) == IF Live(S) = {} THEN Refused(S) ELSE S

-----------------------------------------------------------------------------
(* The end of a turn.                                                      *)

\* The `finally' of #runTurnOn up to its drain: the worker and the scope are
\* free, a reload that waited for the turn starts, and what came meanwhile
\* is a steer.
Closed(w, S, requeued) ==
  LET s == S.turns[w].scope
  IN [S EXCEPT
        !.inFlight = S.inFlight \ {s},
        !.turns = [S.turns EXCEPT ![w] = NoTurn],
        !.status = IF w \in pending /\ S.status[w] = "up"
                   THEN [S.status EXCEPT ![w] = "starting"] ELSE S.status,
        !.steer = IF ~requeued /\ S.queue[s] # <<>> THEN S.steer \cup {s}
                                                    ELSE S.steer]

\* Mutant: a turn that ends without a drain.
TurnEndsUndrained(w, S, requeued) ==
  /\ Become(Closed(w, S, requeued))
  /\ pending' = pending \ {w}
  /\ reloading' = reloading

\* A reload of a dead worker is over once its turn is; any other goes on
\* until the new process is up.
TurnEnds(w, S, requeued) ==
  /\ \E D \in Drained(Closed(w, S, requeued)) : Become(D)
  /\ pending' = pending \ {w}
  /\ reloading' = IF w \in pending /\ S.status[w] = "dead"
                  THEN reloading \ {w} ELSE reloading

Said(S, batch) == [S EXCEPT !.told = S.told \cup MsgsOf(batch)]

PutBackLast(batch, q) == q \o batch  \* Mutant: put back behind what came since.
PutBack(batch, q) == batch \o q

\* Mutants: retried although it was prompted; retried again and again.
MayRetryPrompted(t, isRefused) ==
  ~isRefused /\ \A m \in MsgsOf(t.batch) : attempt[m] + 1 < MaxAttempts
MayRetryForever(t, isRefused) == ~t.prompted /\ ~isRefused
MayRetry(t, isRefused) ==
  /\ ~t.prompted
  /\ ~isRefused
  /\ \A m \in MsgsOf(t.batch) : attempt[m] + 1 < MaxAttempts

\* #turnFailed, then the `finally': the messages go back once, at the front
\* and still a steer if they were one, else the failure is said.  That the
\* model was refused is said once in a conversation: what comes after ends
\* without a word.
TurnFails(w, isRefused) ==
  LET t == turns[w]
      silent == stopping \/ t.scope \in BanterScopes \/ t.cancelled
  IN /\ refused' = isRefused
     /\ \/ /\ silent
           /\ TurnEnds(w, Now, FALSE)
           /\ UNCHANGED <<attempt, refusalSaid>>
        \/ /\ ~silent
           /\ MayRetry(t, isRefused)
           /\ LET S == [Now EXCEPT
                          !.queue = [queue EXCEPT ![t.scope] = PutBack(t.batch, @)],
                          !.ahead = KeySet(queue, t.scope),
                          !.steer = IF t.steer THEN steer \cup {t.scope} ELSE steer]
              IN TurnEnds(w, S, TRUE)
           /\ \E most \in {attempt[m] : m \in MsgsOf(t.batch)} :
                /\ \A m \in MsgsOf(t.batch) : attempt[m] <= most
                /\ attempt' = [m \in Msgs |-> IF m \in MsgsOf(t.batch)
                                              THEN most + 1 ELSE attempt[m]]
           /\ UNCHANGED refusalSaid
        \/ /\ ~silent
           /\ isRefused /\ t.scope \in refusalSaid
           /\ TurnEnds(w, Now, FALSE)
           /\ UNCHANGED <<attempt, refusalSaid>>
        \/ /\ ~silent
           /\ ~MayRetry(t, isRefused) /\ ~(isRefused /\ t.scope \in refusalSaid)
           /\ TurnEnds(w, Said(Now, t.batch), FALSE)
           /\ refusalSaid' = IF isRefused THEN refusalSaid \cup {t.scope}
                                         ELSE refusalSaid
           /\ UNCHANGED attempt

Spend(kind) ==
  /\ left[kind] > 0
  /\ left' = [left EXCEPT ![kind] = @ - 1]

-----------------------------------------------------------------------------
(* The actions.                                                            *)

Init ==
  /\ queue = [s \in Scopes |-> <<>>] /\ ahead = {}
  /\ inFlight = {}
  /\ turns = [w \in Workers |-> NoTurn]
  \* start() boots the first worker; the others are made by a drain.
  /\ \E w \in Workers : status = [v \in Workers |-> IF v = w THEN "up" ELSE "unmade"]
  /\ restarts = [w \in Workers |-> 0]
  /\ steer = {} /\ activity = {}
  /\ pending = {} /\ reloading = {}
  /\ refused = FALSE /\ refusalSaid = {}
  /\ gw = "up" /\ stopping = FALSE
  /\ attempt = [m \in Msgs |-> 0]
  /\ sent = 0 /\ left = Limit
  /\ asked = <<>> /\ told = {} /\ excused = {} /\ midTurn = {}
  /\ shown = [m \in Msgs |-> 0]

\* #enqueue: a message for this agent, in the scope it was said in.
Enqueue(s) ==
  /\ gw = "up" /\ ~stopping
  /\ sent < MaxMsgs
  /\ sent' = sent + 1
  /\ asked' = Append(asked, s)
  /\ LET S == [Now EXCEPT
                 !.queue = [queue EXCEPT ![s] = Append(@, sent + 1)],
                 !.ahead = KeySet(queue, s),
                 !.activity = IF s \in BanterScopes THEN activity
                                                    ELSE activity \cup {s}]
     IN \E D \in Drained(S) : Become(D)
  /\ excused' = IF s \in BanterScopes THEN excused \cup {sent + 1} ELSE excused
  /\ midTurn' = IF s \in inFlight THEN midTurn \cup {sent + 1} ELSE midTurn
  /\ UNCHANGED <<restarts, pending, reloading, refused, refusalSaid, gw,
                 stopping, attempt, left, shown>>

Unchanged1 == UNCHANGED <<restarts, gw, stopping, sent, asked, excused, midTurn>>

\* The worker is ready and the office has introduced itself: on to a session.
Begin(w) ==
  /\ turns[w] # NoTurn /\ turns[w].phase = "starting"
  /\ status[w] = "up"
  /\ gw # "joining" /\ ~refused /\ ~stopping
  /\ turns' = [turns EXCEPT ![w].phase = "opening"]
  /\ Unchanged1
  /\ UNCHANGED <<queue, ahead, inFlight, status, steer, activity, told, pending,
                 reloading, refused, refusalSaid, attempt, left, shown>>

\* `if (!ready) return': a client that has not heard `agent:ready' yet ends
\* the turn there.  So does a line of banter whose moment passed.
BeginNothing(w) ==
  /\ turns[w] # NoTurn /\ turns[w].phase = "starting"
  /\ status[w] = "up"
  /\ gw = "joining" \/ turns[w].scope \in BanterScopes
  /\ TurnEnds(w, Now, FALSE)
  /\ Unchanged1
  /\ UNCHANGED <<refused, refusalSaid, attempt, left, shown>>

\* The start the turn waited for failed, the model was refused before, or the
\* worker was stopped.
BeginFails(w) ==
  /\ turns[w] # NoTurn /\ turns[w].phase = "starting"
  /\ \/ status[w] = "dead" \/ stopping
     \/ status[w] = "up" /\ gw # "joining" /\ refused
  /\ TurnFails(w, refused)
  /\ Unchanged1
  /\ UNCHANGED <<left, shown>>

\* The session is open.  A turn called off meanwhile stops here; one in a
\* session that has been told nothing fetches the instructions first.
Opened(w) ==
  /\ turns[w] # NoTurn /\ turns[w].phase = "opening" /\ ~turns[w].lost
  /\ \/ turns[w].cancelled /\ TurnEnds(w, Now, FALSE)
     \/ /\ ~turns[w].cancelled
        /\ turns' = [turns EXCEPT ![w].phase = "priming"]
        /\ UNCHANGED <<queue, ahead, inFlight, status, steer, activity, told, pending,
                       reloading>>
  /\ Unchanged1
  /\ UNCHANGED <<refused, refusalSaid, attempt, left, shown>>

\* The process went, session/new failed, or the model asked for is not offered.
OpenFails(w) ==
  /\ turns[w] # NoTurn /\ turns[w].phase = "opening"
  /\ \/ turns[w].lost /\ TurnFails(w, refused) /\ UNCHANGED left
     \/ ~turns[w].lost /\ Spend("fault") /\ \E r \in {refused, TRUE} : TurnFails(w, r)
  /\ Unchanged1
  /\ UNCHANGED shown

\* The prompt goes out, whatever happened while the instructions were read.
\* Without a process to take it, it is rejected by the next step.
Prompt(w) ==
  /\ turns[w] # NoTurn
  /\ \/ turns[w].phase = "priming"
     \/ turns[w].phase = "opening" /\ ~turns[w].lost /\ ~turns[w].cancelled
  /\ turns' = [turns EXCEPT ![w].phase = "prompted", ![w].prompted = TRUE]
  /\ shown' = IF turns[w].lost THEN shown
              ELSE [m \in Msgs |-> IF m \in MsgsOf(turns[w].batch)
                                   THEN shown[m] + 1 ELSE shown[m]]
  /\ Unchanged1
  /\ UNCHANGED <<queue, ahead, inFlight, status, steer, activity, told, pending,
                 reloading, refused, refusalSaid, attempt, left>>

\* The runtime's reply, spoken where the question came from.
Answer(w) ==
  /\ turns[w] # NoTurn /\ turns[w].phase = "prompted" /\ ~turns[w].lost
  /\ TurnEnds(w, Said(Now, turns[w].batch), FALSE)
  /\ Unchanged1
  /\ UNCHANGED <<refused, refusalSaid, attempt, left, shown>>

PromptFails(w) ==
  /\ turns[w] # NoTurn /\ turns[w].phase = "prompted"
  /\ \/ turns[w].lost /\ UNCHANGED left
     \/ ~turns[w].lost /\ Spend("fault")
  /\ TurnFails(w, refused)
  /\ Unchanged1
  /\ UNCHANGED shown

\* Mutant: the clock runs out and only the room is told.
StallUntold(w) ==
  /\ turns[w] # NoTurn /\ turns[w].phase = "prompted"
  /\ ~turns[w].cancelled
  /\ turns' = [turns EXCEPT ![w].cancelled = TRUE]
  /\ told' = IF turns[w].scope \in BanterScopes THEN told
             ELSE told \cup MsgsOf(turns[w].batch)
  /\ Unchanged1
  /\ UNCHANGED <<queue, ahead, inFlight, status, steer, activity, pending, reloading,
                 refused, refusalSaid, attempt, left, shown>>

\* #stalled: the idle clock of a prompted turn runs out.  Said, then stopped
\* the way the owner would have.  #touch never arms the clock of a turn that
\* was called off before it was prompted.
Stall(w) ==
  /\ turns[w] # NoTurn /\ turns[w].phase = "prompted"
  /\ ~turns[w].cancelled
  /\ turns' = [turns EXCEPT ![w].cancelled = TRUE, ![w].stopSent = TRUE]
  /\ told' = IF turns[w].scope \in BanterScopes THEN told
             ELSE told \cup MsgsOf(turns[w].batch)
  /\ Unchanged1
  /\ UNCHANGED <<queue, ahead, inFlight, status, steer, activity, pending, reloading,
                 refused, refusalSaid, attempt, left, shown>>

\* `!cancel' in scope s: the turn in that scope, failing that every turn;
\* and the messages of the scopes shown as queued.
Cancel(s) ==
  LET here == {w \in Workers : turns[w] # NoTurn /\ turns[w].scope = s}
      all == {w \in Workers : turns[w] # NoTurn}
      targets == IF here # {} THEN here ELSE all
      dropped == IF here # {} THEN activity \cap {s} ELSE activity
  IN /\ gw = "up" /\ ~stopping /\ s \notin BanterScopes
     /\ Spend("cancel")
     /\ queue' = [q \in Scopes |-> IF q \in dropped THEN <<>> ELSE queue[q]]
     /\ ahead' = KeysLeft(ahead, queue')
     /\ activity' = activity \ dropped
     /\ turns' = [w \in Workers |->
                    IF w \in targets
                    THEN [turns[w] EXCEPT !.cancelled = TRUE,
                            !.stopSent = @ \/ turns[w].phase = "prompted"]
                    ELSE turns[w]]
     /\ excused' = excused \cup (UNION {MsgsOf(queue[q]) : q \in dropped})
                           \cup (UNION {MsgsOf(turns[w].batch) : w \in targets})
     /\ UNCHANGED <<inFlight, status, restarts, steer, pending, reloading, refused,
                    refusalSaid, gw, stopping, attempt, sent, asked, told, shown,
                    midTurn>>

Unchanged2 == UNCHANGED <<refused, refusalSaid, gw, stopping, attempt, sent,
                          asked, excused, shown, midTurn>>

\* The process's handshake is done.  A restart and a reload drain again.
StartOk(w) ==
  /\ status[w] = "starting" /\ ~stopping
  /\ LET S == [Now EXCEPT !.status = [status EXCEPT ![w] = "up"]]
     IN IF restarts[w] > 0 \/ w \in reloading
        THEN \E D \in Drained(S) : Become(D)
        ELSE Become(S)
  /\ reloading' = IF w \in pending THEN reloading ELSE reloading \ {w}
  /\ UNCHANGED <<restarts, pending, left>> /\ Unchanged2

\* A first start that fails is noticed by the turn that waits for it; a
\* restart or a reload that fails takes the waiting messages down at once.
StartFails(w) ==
  /\ status[w] = "starting" /\ ~stopping
  /\ Spend("fault")
  /\ LET S == [Now EXCEPT !.status = [status EXCEPT ![w] = "dead"]]
     IN IF restarts[w] > 0 \/ w \in reloading
        THEN \E D \in Drained(NotedIfNothingLeft(S)) : Become(D)
        ELSE Become(S)
  /\ reloading' = IF w \in pending THEN reloading ELSE reloading \ {w}
  /\ UNCHANGED <<restarts, pending>> /\ Unchanged2

\* #onWorkerExit: one quiet restart, then the worker is given up on.
Crash(w) ==
  /\ status[w] = "up" /\ ~stopping
  /\ Spend("fault")
  /\ LET t == turns[w]
         broken == IF t # NoTurn /\ t.phase # "starting"
                   THEN [turns EXCEPT ![w].lost = TRUE] ELSE turns
     IN IF restarts[w] = 0
        THEN Become([Now EXCEPT !.status = [status EXCEPT ![w] = "starting"],
                                !.turns = broken])
        ELSE Become(NotedIfNothingLeft(
                     [Now EXCEPT !.status = [status EXCEPT ![w] = "dead"],
                                 !.turns = broken]))
  /\ restarts' = [restarts EXCEPT ![w] = IF @ = 0 THEN 1 ELSE @]
  /\ UNCHANGED <<pending, reloading>> /\ Unchanged2

\* reload(): idle workers now, busy ones when their turn ends; asked for
\* again while one is under way, it joins that one.
Reload ==
  /\ reloading = {} /\ ~stopping /\ Live(Now) # {}
  /\ Spend("reload")
  /\ reloading' = Live(Now)
  /\ pending' = Live(Now) \ Idle(Now)
  /\ status' = [w \in Workers |-> IF w \in Idle(Now) THEN "starting" ELSE status[w]]
  /\ UNCHANGED <<queue, ahead, inFlight, turns, restarts, steer, activity, told>> /\ Unchanged2

\* The socket drops; #reconnect makes a new client, which knows nothing of
\* the office until it hears `agent:ready'.
Drop ==
  /\ gw = "up" /\ ~stopping /\ Spend("drop")
  /\ gw' = "closed"
  /\ UNCHANGED <<engine, restarts, pending, reloading, refused, refusalSaid,
                 stopping, attempt, sent, asked, excused, shown, midTurn>>

Redial ==
  /\ gw = "closed" /\ ~stopping
  /\ gw' = "joining"
  /\ UNCHANGED <<engine, restarts, pending, reloading, refused, refusalSaid,
                 stopping, attempt, sent, asked, left, excused, shown, midTurn>>

Rejoined ==
  /\ gw = "joining" /\ ~stopping
  /\ gw' = "up"
  /\ UNCHANGED <<engine, restarts, pending, reloading, refused, refusalSaid,
                 stopping, attempt, sent, asked, left, excused, shown, midTurn>>

\* Mutant: a stop that leaves the processes running.
StopKeepingProcesses ==
  /\ ~stopping /\ Spend("stop")
  /\ stopping' = TRUE
  /\ queue' = [s \in Scopes |-> <<>>] /\ ahead' = {}
  /\ activity' = {}
  /\ UNCHANGED <<inFlight, turns, status, restarts, steer, pending, reloading,
                 refused, refusalSaid, gw, attempt, sent, asked, told, excused, shown,
                 midTurn>>

\* stop(): turns are called off, the queues emptied, the processes stopped.
Stop ==
  /\ ~stopping /\ Spend("stop")
  /\ stopping' = TRUE
  /\ turns' = [w \in Workers |->
                 IF turns[w] = NoTurn THEN NoTurn
                 ELSE [turns[w] EXCEPT !.cancelled = TRUE, !.lost = TRUE]]
  /\ queue' = [s \in Scopes |-> <<>>] /\ ahead' = {}
  /\ activity' = {}
  /\ UNCHANGED <<inFlight, status, restarts, steer, pending, reloading, refused,
                 refusalSaid, gw, attempt, sent, asked, told, excused, shown, midTurn>>

-----------------------------------------------------------------------------
(* The specification.                                                      *)

TurnStep(w) == \/ Begin(w) \/ BeginNothing(w) \/ BeginFails(w)
               \/ Opened(w) \/ OpenFails(w)
               \/ Prompt(w) \/ Answer(w) \/ PromptFails(w) \/ Stall(w)

WorkerStep(w) == StartOk(w) \/ StartFails(w) \/ Crash(w)

Next ==
  \/ \E s \in Scopes : Enqueue(s) \/ Cancel(s)
  \/ \E w \in Workers : TurnStep(w) \/ WorkerStep(w)
  \/ Reload \/ Drop \/ Redial \/ Rejoined \/ Stop

Spec == Init /\ [][Next]_vars

Lost(w) == turns[w] # NoTurn /\ turns[w].lost
StopSent(w) == turns[w] # NoTurn /\ turns[w].stopSent
Primed(w) == turns[w] # NoTurn /\ turns[w].phase = "priming"

\* What the code runs by itself: continuations of settled promises, timers
\* (the clock of a prompted turn, the ten seconds the instructions may take),
\* the reconnect loop.  The clock starts again with every report of the
\* runtime (#touch): that it runs out, or the prompt returns, takes a runtime
\* that does not report for ever without answering.
CodeFairness ==
  /\ \A w \in Workers :
       /\ WF_vars(Begin(w) \/ BeginNothing(w) \/ BeginFails(w))
       /\ WF_vars(Primed(w) /\ Prompt(w))
       /\ WF_vars(Lost(w) /\ OpenFails(w))
       /\ WF_vars(Stall(w))
       /\ WF_vars(Lost(w) /\ PromptFails(w))
  /\ WF_vars(Redial) /\ WF_vars(Rejoined)

\* What a working runtime does: it answers its handshake, it opens a session,
\* and a prompt it was told to stop returns.  That it answers a prompt nobody
\* stopped is not assumed.
RuntimeFairness ==
  \A w \in Workers :
    /\ WF_vars(StartOk(w))
    /\ WF_vars(Opened(w) \/ Prompt(w))
    /\ WF_vars(StopSent(w) /\ Answer(w))

CodeSpec == Spec /\ CodeFairness
FairSpec == CodeSpec /\ RuntimeFairness

-----------------------------------------------------------------------------
(* Properties.                                                             *)

Queued == UNION {MsgsOf(queue[s]) : s \in Scopes}
Busy == {w \in Workers : turns[w] # NoTurn}
Running == UNION {MsgsOf(turns[w].batch) : w \in Busy}
Done == (1..sent) \ (Queued \cup Running)

\* What is over in a conversation that was told once that the agent's model
\* was refused: it is told no more.
ToldBefore == {m \in Done : /\ asked[m] \in refusalSaid
                            /\ \E n \in told : asked[n] = asked[m]}

\* Type invariant of the turn loop (AgentRunner's private fields).
TypeOK ==
  /\ queue \in [Scopes -> Seq(Msgs)]
  /\ ahead \subseteq Scopes \X Scopes
  /\ inFlight \subseteq Scopes
  /\ turns \in [Workers -> Turn \cup {NoTurn}]
  /\ status \in [Workers -> {"unmade", "starting", "up", "dead"}]
  /\ restarts \in [Workers -> {0, 1}]
  /\ steer \subseteq Scopes /\ activity \subseteq Scopes
  /\ pending \subseteq Workers /\ reloading \subseteq Workers
  /\ refused \in BOOLEAN /\ refusalSaid \subseteq Scopes
  /\ gw \in {"up", "closed", "joining"} /\ stopping \in BOOLEAN
  /\ attempt \in [Msgs -> 0..(MaxAttempts - 1)]  \* a message goes back once
  /\ sent \in 0..MaxMsgs /\ asked \in Seq(Scopes) /\ Len(asked) = sent
  /\ left \in [Disturbances -> Nat]
  /\ told \subseteq Msgs /\ excused \subseteq Msgs /\ midTurn \subseteq Msgs
  /\ shown \in [Msgs -> Nat]

\* One prompt in flight per conversation: no two workers run a turn of the
\* same scope, and #inFlight is exactly the scopes with a turn -- across
\* drains, retries, crashes, reloads and cancels.
OneTurnPerScope ==
  /\ \A w \in Busy : turns[w].scope \in inFlight
  /\ \A s \in inFlight : \E w \in Busy : turns[w].scope = s
  /\ \A v, w \in Busy : turns[v].scope = turns[w].scope => v = w

\* "The ceiling is on workers that can work" (pool.ts claim): replacing dead
\* workers never takes the live ones past the agent's parallelism.
LiveWithinCeiling ==
  Cardinality({w \in Workers : status[w] \in {"starting", "up"}}) <= MaxLive

\* A message is retried only while nothing was prompted: no message is ever
\* put to the runtime twice (#turnFailed).
ShownOnce == \A m \in Msgs : shown[m] <= 1

\* Where each message is in its life, as the mailbox sees it.
Life == [m \in Msgs |->
  CASE m > sent -> "unsent"
    [] m \in Queued -> "waiting"
    [] \E w \in Busy : m \in MsgsOf(turns[w].batch) /\ turns[w].prompted -> "shown"
    [] \E w \in Busy : m \in MsgsOf(turns[w].batch) /\ ~turns[w].prompted -> "held"
    [] OTHER -> "over"]

Box == INSTANCE Mailbox WITH life <- Life

\* The pool, with its crashes, retries, reloads and reconnects, is a mailbox:
\* what was put to the runtime never goes back to a queue, what is over never
\* starts again (#turnFailed, #drain, !cancel).
IsAMailbox == Box!Spec

\* A scope's messages keep the order they came in: what its turn holds and
\* what waits behind it, put together, is in order and has no duplicate --
\* after retries too.
ScopeOrder ==
  \A s \in Scopes :
    LET held == {w \in Busy : turns[w].scope = s}
        line(w) == turns[w].batch \o queue[s]
        ordered(q) == \A i, j \in DOMAIN q : i < j => q[i] < q[j]
    IN /\ ordered(queue[s])
       /\ \A w \in held : ordered(line(w))

\* Never silently (#turnFailed): a message that is neither waiting nor being
\* answered had a line said for it, or nobody waits for it, or its own
\* conversation had heard before that the model was refused ("a person who
\* asks twice does not need telling twice") -- as long as the socket has not
\* dropped.
NeverSilent ==
  ~stopping /\ left["drop"] = Limit["drop"]
    => Done \subseteq told \cup excused \cup ToldBefore

\* The same through dropped sockets.  A turn that begins on a gateway that is
\* still joining ends without a word.
NeverSilentThroughDrops ==
  ~stopping => Done \subseteq told \cup excused \cup ToldBefore

\* No conversation waits while a worker is idle or one more may be made.
\* (Until a turn on a worker that just died has failed, which drains.)
WorkConserving ==
  (~stopping /\ Waiting(Now) # {} /\ \A w \in Busy : status[w] # "dead")
    => Idle(Now) = {} /\ Cardinality(Live(Now)) = MaxLive

\* Once stopped, the agent puts nothing to its runtime any more.
NothingShownAfterStop == [][stopping => shown' = shown]_vars

\* Every message is answered, explained or called off in the end, however
\* long the runtime is silent in a prompt, fails or dies (no reconnect) -- or
\* is over where the refusal of the model had been said before.
EveryoneIsAnswered ==
  \A m \in Msgs : (sent >= m) ~> (m \in told \cup excused \cup ToldBefore)

\* A reload asked for is done in the end, also when it waits for a turn.
ReloadEnds == (reloading # {}) ~> (reloading = {})

\* A turn is framed as a steer -- "arrived while you were working"
\* (context.ts) -- only if one of its messages came during that scope's turn.
SteerIsHonest ==
  \A w \in Busy : turns[w].steer => MsgsOf(turns[w].batch) \cap midTurn # {}

\* A turn called off while it is still opening "stops the moment there is a
\* session to stop" (!cancel): a turn that was called off is either never put
\* to the runtime, or the runtime is told to stop it.
CalledOffReachesRuntime ==
  \A w \in Busy :
    turns[w].prompted /\ turns[w].cancelled /\ ~turns[w].lost => turns[w].stopSent

\* "A turn the runtime goes silent on is stopped ... so thinking never means
\* hung" (packages/acp-harness/README.md): whatever the runtime does or does
\* not answer, a turn is over or called off in the end.
SilenceIsStopped ==
  \A w \in Workers :
    (turns[w] # NoTurn) ~> (turns[w] = NoTurn \/ turns[w].cancelled)

=============================================================================
