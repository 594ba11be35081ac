------------------------------ MODULE Gateway ------------------------------
(***************************************************************************)
(* One agent's connection to its office: the gateway client, the loops     *)
(* that reconnect it and the tools that hold it (gateway/client.ts;        *)
(* AgentRunner.ts, start to #reconnect; worker.ts and mcp/bridge.ts).      *)
(*                                                                         *)
(* Connecting asks the office, joins its room and waits for `agent:ready', *)
(* with a clock on the last wait only; leaving the room stops neither the  *)
(* clock nor the wait.  Every client has the runner's handlers, so a       *)
(* closed one starts a loop whichever client the runner holds by then.     *)
(*                                                                         *)
(* Abstracted: credentials, back-off delays, what is published again (see  *)
(* Approvals and Tasks), the worker processes (see WorkerLife).            *)
(***************************************************************************)
EXTENDS Integers, Sequences, FiniteSets

CONSTANTS
  Workers,     \* slots of the pool
  MaxTroubles  \* bound: sockets dropped, joins refused, handshakes timed out

VARIABLES
  clients,   \* every GatewayClient made, oldest first, and who waits in connect()
  current,   \* the runner's #gateway
  loops,     \* reconnect loops waiting out their delay
  life,      \* where start() and stop() stand
  bridge,    \* per worker: the client its tools were opened with
  cut,       \* ghost: a handshake was cut between joining and `agent:ready'
  caught,    \* ghost: stop() met a connect under way
  left       \* bound

vars == <<clients, current, loops, life, bridge, cut, caught, left>>

None == 0
New(by) == [at |-> "asking", waits |-> by]

Init ==
  /\ clients = <<>> /\ current = None /\ loops = 0 /\ life = "new"
  /\ bridge = [w \in Workers |-> None]
  /\ cut = FALSE /\ caught = FALSE /\ left = MaxTroubles

At(c, s) == c \in DOMAIN clients /\ clients[c].at \in s
Live == {c \in DOMAIN clients : At(c, {"joined", "ready"})}
Waiting == {c \in DOMAIN clients : clients[c].waits # "nobody"}
Stopping == life \in {"stopping", "stopped"}
Trouble == left > 0 /\ left' = left - 1

-----------------------------------------------------------------------------
(* Starting and stopping.                                                  *)

\* start: the first client is the runner's own
Starts ==
  /\ life = "new" /\ life' = "connecting"
  /\ clients' = <<New("start")>> /\ current' = 1
  /\ UNCHANGED <<loops, bridge, cut, caught, left>>

\* stop, up to the workers' end
Stops ==
  /\ life \in {"connecting", "up", "failed"} /\ life' = "stopping"
  /\ caught' = (Waiting # {})
  /\ UNCHANGED <<clients, current, loops, bridge, cut, left>>

Gone(c) == [clients EXCEPT ![c].at = "gone"]

\* ... and it leaves the room of the client it holds by then, if that has one.
Leaves ==
  /\ life = "stopping" /\ life' = "stopped"
  /\ clients' = IF current \in Live THEN Gone(current) ELSE clients
  /\ UNCHANGED <<current, loops, bridge, cut, caught, left>>

\* A worker's bridge is opened with the client there is, and kept for its life.
Opens(w) ==
  /\ life = "up" /\ bridge[w] = None
  /\ bridge' = [bridge EXCEPT ![w] = current]
  /\ UNCHANGED <<clients, current, loops, life, cut, caught, left>>

-----------------------------------------------------------------------------
(* A client's connection.                                                  *)

\* #join answers: the client has a room, and the office an agent.
Joins(c) ==
  /\ At(c, {"asking"}) /\ clients' = [clients EXCEPT ![c].at = "joined"]
  /\ UNCHANGED <<current, loops, life, bridge, cut, caught, left>>

\* `agent:ready': whoever waits in connect() goes on.  A start goes on whether
\* or not it was stopped meanwhile; a loop is over.
Readies(c) ==
  /\ At(c, {"joined"})
  /\ clients' = [clients EXCEPT ![c] = [at |-> "ready", waits |-> "nobody"]]
  /\ life' = IF clients[c].waits = "start" /\ life = "connecting" THEN "up" ELSE life
  /\ UNCHANGED <<current, loops, bridge, cut, caught, left>>

\* Mutant: an attempt that failed is the last.
GivesUp == 0
Again == IF Stopping THEN 0 ELSE 1

\* connect() rejects: a start has failed, a loop goes round again.
Rejected(c) ==
  /\ loops' = IF clients[c].waits = "loop" THEN loops + Again ELSE loops
  /\ life' = IF clients[c].waits = "start" /\ life = "connecting" THEN "failed" ELSE life

\* The office or the join refuses.
Refuses(c) ==
  /\ At(c, {"asking"}) /\ Trouble
  /\ clients' = [clients EXCEPT ![c] = [at |-> "gone", waits |-> "nobody"]]
  /\ Rejected(c) /\ UNCHANGED <<current, bridge, cut, caught>>

\* No `agent:ready' for 10 s: the wait is over, the room is not left.
TimesOut(c) ==
  /\ clients[c].waits # "nobody" /\ \/ clients[c].at = "joined" /\ Trouble
                                    \/ clients[c].at = "gone" /\ UNCHANGED left
  /\ clients' = [clients EXCEPT ![c].waits = "nobody"]
  /\ Rejected(c) /\ cut' = TRUE /\ UNCHANGED <<current, bridge, caught>>

\* Mutant: the handlers put on at each connect add up, and all of them run.
EveryHandler(c) == IF Stopping THEN 0 ELSE 2
LoopOnClose(c) == Again

\* onLeave and the runner's `closed' handler, of any client it ever made
Drops(c) ==
  /\ c \in Live /\ Trouble /\ clients' = Gone(c)
  /\ loops' = loops + LoopOnClose(c)
  /\ cut' = (cut \/ clients[c].waits # "nobody")
  /\ UNCHANGED <<current, life, bridge, caught>>

-----------------------------------------------------------------------------
(* The reconnect loops.                                                    *)

\* Mutant: a loop that wakes after stop() goes on.
WakesAnyway == TRUE
GoesOn == ~Stopping

\* #reconnect after its delay: a new client is the runner's, whatever it held.
Wakes ==
  /\ loops > 0 /\ loops' = loops - 1
  /\ IF GoesOn THEN /\ clients' = Append(clients, New("loop"))
                    /\ current' = Len(clients) + 1
     ELSE UNCHANGED <<clients, current>>
  /\ UNCHANGED <<life, bridge, cut, caught, left>>

Connection(c) == Joins(c) \/ Readies(c) \/ Refuses(c) \/ TimesOut(c) \/ Drops(c)
Next ==
  \/ Starts \/ Stops \/ Leaves \/ Wakes
  \/ \E w \in Workers : Opens(w)
  \/ \E c \in DOMAIN clients : Connection(c)

Spec == Init /\ [][Next]_vars
\* The office answers or refuses, the clocks run, and stop() gets through.
FairSpec ==
  /\ Spec /\ WF_vars(Wakes) /\ WF_vars(Leaves)
  /\ WF_vars(\E c \in DOMAIN clients : Joins(c) \/ Refuses(c))
  /\ WF_vars(\E c \in DOMAIN clients : Readies(c) \/ TimesOut(c))

-----------------------------------------------------------------------------
(* Properties.                                                             *)

\* A client is somewhere on its way, and the runner holds one it made.
TypeOK ==
  /\ \A c \in DOMAIN clients : /\ clients[c].at \in {"asking", "joined", "ready", "gone"}
                               /\ clients[c].waits \in {"start", "loop", "nobody"}
  /\ current \in 0..Len(clients) /\ (life = "new" <=> clients = <<>>)
  /\ loops \in Nat /\ bridge \in [Workers -> 0..Len(clients)]
  /\ life \in {"new", "connecting", "up", "failed", "stopping", "stopped"}

\* A running agent whose client has no connection has a loop that will make
\* one, or a connect that will end: it is never offline for good (#reconnect).
NeverStranded == life = "up" => current \in Live \/ loops > 0 \/ Waiting # {}

\* Two connections of one agent hear every line twice, and answer with one.
\* It takes a handshake cut between joining and `agent:ready' to have two.
OneConnection == ~cut => Cardinality(Live) <= 1

\* A stopped agent is out of the office, and stays out, unless stop() met a
\* connect under way, which nothing calls off (stop, #reconnect).
StoppedIsGone == life = "stopped" /\ ~caught /\ ~cut => Live = {}

\* A running agent is in the office again, for all that was dropped and refused.
ComesBack == [](life = "up" => <>(current \in Live \/ Stopping))

\* The tools of a worker reach the office whenever the agent does; worker.ts,
\* restart: "After a crash: the same bridge, a fresh process".
ToolsReachTheOffice ==
  \A w \in Workers : life = "up" /\ bridge[w] # None /\ At(current, {"ready"})
                       => bridge[w] \in Live

\* The same two without what excuses them.
HearsOnce == Cardinality(Live) <= 1
StoppedIsOut == life = "stopped" => Live = {}
=============================================================================
