------------------------- MODULE GatewayFleetProofs -------------------------
(***************************************************************************)
(* Proofs about an agent's connection, for any number of workers, drops,   *)
(* refusals and time-outs; and about the supervisor of a machine's fleet,  *)
(* for any agents, polls, edits and runners.                               *)
(*                                                                         *)
(* While no handshake has been cut, there is one attempt at most: a client *)
(* that is on its way or connected, which the runner holds, or a loop that *)
(* will make one (Sole).  A running agent always has one of the two        *)
(* (HasWay), and an agent stopped outside a connect has neither (StopOK).  *)
(*                                                                         *)
(* A reconcile deletes by name.  What it has on its list stays there, once *)
(* each, as long as it is alone (ListsHold), so what it deletes is what it *)
(* stopped, and whoever runs is an entry (AllListed).                      *)
(***************************************************************************)
EXTENDS Gateway, Fleet, TLAPS, SequenceTheorems, FiniteSetTheorems

Client == [at : {"asking", "joined", "ready", "gone"}, waits : {"start", "loop", "nobody"}]

Typed ==
  /\ clients \in Seq(Client) /\ loops \in Nat
  /\ life \in {"new", "connecting", "up", "failed", "stopping", "stopped"}
  /\ life = "new" <=> clients = <<>>
  /\ current \in 0 .. Len(clients) /\ bridge \in [Workers -> 0 .. Len(clients)]
  /\ cut \in BOOLEAN /\ caught \in BOOLEAN

Made == 1 .. Len(clients)
Alive == {c \in Made : clients[c].at # "gone"}

\* Who joins, and, while no handshake is cut, who has joined, is waited for;
\* start() waits for the first client only, and not once the agent is up.
WaitsOK ==
  \A c \in Made :
    /\ clients[c].at = "asking" => clients[c].waits # "nobody"
    /\ ~cut /\ clients[c].at = "joined" => clients[c].waits # "nobody"
    /\ clients[c].waits = "start" => c = 1 /\ life # "up"

\* One attempt at most, and the runner holds it.
Sole == ~cut => Alive \subseteq {current} /\ loops <= 1 /\ (loops > 0 => Alive = {})

\* Stopped outside a connect, nothing is under way.
StopOK ==
  /\ Stopping /\ ~caught => \A c \in Made : clients[c].waits = "nobody"
  /\ life = "stopped" /\ ~caught /\ ~cut => Alive = {}

\* A client of a running agent that is gone has a loop, or a wait that ends in one.
HasWay ==
  life \in {"connecting", "up"} =>
    /\ current \in Made
    /\ clients[current].at = "gone" => loops > 0 \/ clients[current].waits # "nobody"

NewIsIdle == life = "new" => loops = 0

IInv == Typed /\ WaitsOK /\ Sole /\ StopOK /\ HasWay /\ NewIsIdle

-----------------------------------------------------------------------------
LEMMA MadeAreTheDomain ==
  ASSUME Typed
  PROVE  /\ DOMAIN clients = Made /\ Len(clients) \in Nat
         /\ \A c \in Made : clients[c] \in Client
BY DEF Typed, Made

\* One client written over.
LEMMA WriteClient ==
  ASSUME Typed, NEW c \in Made, NEW r \in Client, clients' = [clients EXCEPT ![c] = r]
  PROVE  /\ clients' \in Seq(Client) /\ Len(clients') = Len(clients) /\ Made' = Made
         /\ clients' # <<>> /\ life # "new"
         /\ clients'[c] = r /\ \A d \in Made : d # c => clients'[d] = clients[d]
<1>1. clients' \in Seq(Client) /\ Len(clients') = Len(clients)
  BY ExceptSeq DEF Typed, Made
<1>2. Len(clients) \in Nat /\ Len(clients) > 0
  BY DEF Typed, Made
<1>3. clients' # <<>> /\ life # "new"
  BY <1>1, <1>2 DEF Typed
<1>4. clients'[c] = r /\ \A d \in Made : d # c => clients'[d] = clients[d]
  BY DEF Typed, Made
<1> QED
  BY <1>1, <1>3, <1>4 DEF Made

\* What a step of client c may do to the rest: r is the client from now on.
\* The four parts are what each action must show of it.
LEMMA ClientInv ==
  ASSUME IInv, NEW c \in Made, NEW r \in Client, clients' = [clients EXCEPT ![c] = r],
         UNCHANGED <<current, bridge, caught>>,
         cut' \in BOOLEAN, cut => cut', loops' \in Nat, loops' >= loops,
         life' = life \/ (life = "connecting" /\ life' \in {"up", "failed"}),
         \* waits
         /\ r.at = "asking" => r.waits # "nobody"
         /\ ~cut' /\ r.at = "joined" => r.waits # "nobody"
         /\ r.waits # "nobody" => r.waits = clients[c].waits
         /\ life' = "up" /\ life # "up" => clients[c].waits = "start" /\ r.waits = "nobody",
         \* one attempt
         /\ ~cut' /\ r.at # "gone" => clients[c].at # "gone" /\ loops' = loops
         /\ ~cut' /\ r.at = "gone" => loops' = loops \/ (clients[c].at # "gone" /\ loops' = loops + 1),
         \* a way
         life' \in {"connecting", "up"} /\ c = current /\ r.at = "gone"
           => loops' > 0 \/ r.waits # "nobody",
         \* no way from a stop
         life = "stopped" /\ ~caught /\ ~cut' /\ r.at # "gone" => clients[c].at # "gone"
  PROVE  IInv'
<1>1. /\ clients' \in Seq(Client) /\ Len(clients') = Len(clients) /\ Made' = Made
      /\ clients' # <<>> /\ life # "new"
      /\ clients'[c] = r /\ \A d \in Made : d # c => clients'[d] = clients[d]
  BY WriteClient DEF IInv
<1>2. Typed'
  BY <1>1 DEF IInv, Typed
<1>3. WaitsOK'
  <2>1. ASSUME NEW d \in Made, d # c
        PROVE  /\ clients'[d].at = "asking" => clients'[d].waits # "nobody"
               /\ ~cut' /\ clients'[d].at = "joined" => clients'[d].waits # "nobody"
               /\ clients'[d].waits = "start" => d = 1 /\ life' # "up"
    <3>1. clients'[d] = clients[d]
      BY <1>1, <2>1
    <3>2. clients[d].waits = "start" => d = 1 /\ life # "up"
      BY DEF IInv, WaitsOK
    <3>3. life' = "up" /\ life # "up" => c = 1
      BY DEF IInv, WaitsOK
    <3> QED
      BY <2>1, <3>1, <3>2, <3>3 DEF IInv, WaitsOK
  <2>2. r.waits = "start" => c = 1 /\ life' # "up"
    BY DEF IInv, WaitsOK
  <2> QED
    BY <1>1, <2>1, <2>2 DEF WaitsOK
<1>4. Sole'
  <2> SUFFICES ASSUME ~cut' PROVE Alive' \subseteq {current} /\ loops' <= 1 /\ (loops' > 0 => Alive' = {})
    BY DEF Sole
  <2>1. Alive \subseteq {current} /\ loops <= 1 /\ (loops > 0 => Alive = {}) /\ loops \in Nat
    BY DEF IInv, Typed, Sole
  <2>2. CASE r.at # "gone"
    <3>1. Alive' = Alive
      BY <1>1, <2>2 DEF Alive
    <3> QED
      BY <2>1, <2>2, <3>1
  <2>3. CASE r.at = "gone"
    <3>1. Alive' = Alive \ {c}
      BY <1>1, <2>3 DEF Alive
    <3>2. CASE loops' = loops
      BY <2>1, <3>1, <3>2
    <3>3. CASE clients[c].at # "gone" /\ loops' = loops + 1
      <4>1. c \in Alive
        BY <3>3 DEF Alive
      <4> QED
        BY <2>1, <3>1, <3>3, <4>1
    <3> QED
      BY <2>3, <3>2, <3>3
  <2> QED
    BY <2>2, <2>3
<1>5. StopOK'
  <2>1. Stopping' => Stopping
    BY DEF Stopping
  <2>2. Stopping' /\ ~caught' => \A d \in Made' : clients'[d].waits = "nobody"
    BY <1>1, <2>1 DEF IInv, StopOK
  <2>3. life' = "stopped" /\ ~caught' /\ ~cut' => Alive' = {}
    BY <1>1 DEF IInv, StopOK, Alive
  <2> QED
    BY <2>2, <2>3 DEF StopOK
<1>6. HasWay'
  <2> SUFFICES ASSUME life' \in {"connecting", "up"}
               PROVE  /\ current \in Made'
                      /\ clients'[current].at = "gone" => loops' > 0 \/ clients'[current].waits # "nobody"
    BY DEF HasWay
  <2>1. life \in {"connecting", "up"}
    OBVIOUS
  <2>2. /\ current \in Made
        /\ clients[current].at = "gone" => loops > 0 \/ clients[current].waits # "nobody"
    BY <2>1 DEF IInv, HasWay
  <2>3. loops > 0 => loops' > 0
    BY DEF IInv, Typed
  <2> QED
    BY <1>1, <2>2, <2>3
<1>7. NewIsIdle'
  BY <1>1 DEF NewIsIdle
<1> QED
  BY <1>2, <1>3, <1>4, <1>5, <1>6, <1>7 DEF IInv

LEMMA InitInv == Init => IInv
<1> SUFFICES ASSUME Init PROVE IInv
  OBVIOUS
<1>1. Typed
  <2>1. clients = <<>> /\ clients \in Seq(Client) /\ Len(clients) = 0
    BY DEF Init
  <2>2. current = 0 /\ bridge \in [Workers -> 0 .. 0]
    BY DEF Init, None
  <2>3. cut \in BOOLEAN /\ caught \in BOOLEAN
    BY DEF Init
  <2>4. loops \in Nat /\ life = "new"
    BY DEF Init
  <2>5. life = "new" <=> clients = <<>>
    BY <2>1, <2>4
  <2>6. current \in 0 .. Len(clients) /\ bridge \in [Workers -> 0 .. Len(clients)]
    BY <2>1, <2>2
  <2> QED
    BY <2>1, <2>3, <2>4, <2>5, <2>6 DEF Typed
<1>2. Made = {}
  BY DEF Init, Made
<1>3. Alive = {}
  BY <1>2 DEF Alive
<1>4. cut = FALSE /\ caught = FALSE /\ loops = 0 /\ life = "new"
  BY DEF Init
<1> QED
  BY <1>1, <1>2, <1>3, <1>4 DEF IInv, WaitsOK, Sole, StopOK, Stopping, HasWay, NewIsIdle

LEMMA JoinsInv == ASSUME IInv, NEW c \in DOMAIN clients, Joins(c) PROVE IInv'
<1> DEFINE r == [clients[c] EXCEPT !.at = "joined"]
<1>1. c \in Made /\ clients[c] \in Client /\ clients[c].at = "asking"
  BY MadeAreTheDomain DEF IInv, Joins, At
<1>2. r \in Client /\ r.at = "joined" /\ r.waits = clients[c].waits
  BY <1>1 DEF Client
<1>3. clients' = [clients EXCEPT ![c] = r] /\ UNCHANGED <<current, loops, life, bridge, cut, caught>>
  BY DEF Joins
<1>4. clients[c].waits # "nobody"
  BY <1>1 DEF IInv, WaitsOK
<1>5. cut \in BOOLEAN /\ loops \in Nat /\ loops >= loops
  BY DEF IInv, Typed
<1> HIDE DEF r
<1> QED
  BY <1>1, <1>2, <1>3, <1>4, <1>5, ClientInv

LEMMA ReadiesInv == ASSUME IInv, NEW c \in DOMAIN clients, Readies(c) PROVE IInv'
<1> DEFINE r == [at |-> "ready", waits |-> "nobody"]
<1>1. c \in Made /\ clients[c] \in Client /\ clients[c].at = "joined"
  BY MadeAreTheDomain DEF IInv, Readies, At
<1>2. r \in Client /\ r.at = "ready" /\ r.waits = "nobody"
  BY DEF Client
<1>3. clients' = [clients EXCEPT ![c] = r] /\ UNCHANGED <<current, loops, bridge, cut, caught>>
  BY DEF Readies
<1>4. life' = IF clients[c].waits = "start" /\ life = "connecting" THEN "up" ELSE life
  BY DEF Readies
<1>5. cut \in BOOLEAN /\ loops \in Nat /\ loops >= loops
  BY DEF IInv, Typed
<1> HIDE DEF r
<1> QED
  BY <1>1, <1>2, <1>3, <1>4, <1>5, ClientInv

LEMMA RefusesInv == ASSUME IInv, NEW c \in DOMAIN clients, Refuses(c) PROVE IInv'
<1> DEFINE r == [at |-> "gone", waits |-> "nobody"]
<1>1. c \in Made /\ clients[c] \in Client /\ clients[c].at = "asking"
  BY MadeAreTheDomain DEF IInv, Refuses, At
<1>2. r \in Client /\ r.at = "gone" /\ r.waits = "nobody"
  BY DEF Client
<1>3. clients' = [clients EXCEPT ![c] = r] /\ UNCHANGED <<current, bridge, cut, caught>>
  BY DEF Refuses
<1>4. /\ loops' = IF clients[c].waits = "loop" THEN loops + Again ELSE loops
      /\ life' = IF clients[c].waits = "start" /\ life = "connecting" THEN "failed" ELSE life
  BY DEF Refuses, Rejected
<1>5. Again \in {0, 1} /\ (life \in {"connecting", "up"} => Again = 1)
  BY DEF Again, Stopping
<1>6. cut \in BOOLEAN /\ loops \in Nat
  BY DEF IInv, Typed
<1>7. loops' \in Nat /\ loops' >= loops /\ loops' \in {loops, loops + 1}
  BY <1>4, <1>5, <1>6
<1>8. clients[c].waits \in {"start", "loop"} /\ (clients[c].waits = "start" => life # "up")
  BY <1>1 DEF IInv, WaitsOK, Client
<1>9. life' \in {"connecting", "up"} => loops' > 0
  BY <1>4, <1>5, <1>6, <1>8
<1> HIDE DEF r
<1> QED
  BY <1>1, <1>2, <1>3, <1>4, <1>6, <1>7, <1>9, ClientInv

\* A wait timed out cuts the handshake: what was said of one that is not cut
\* says nothing from here on.
LEMMA TimesOutInv == ASSUME IInv, NEW c \in DOMAIN clients, TimesOut(c) PROVE IInv'
<1> DEFINE r == [clients[c] EXCEPT !.waits = "nobody"]
<1>1. c \in Made /\ clients[c] \in Client /\ clients[c].at \in {"joined", "gone"}
  BY MadeAreTheDomain DEF IInv, TimesOut
<1>2. r \in Client /\ r.at = clients[c].at /\ r.waits = "nobody"
  BY <1>1 DEF Client
<1>3. clients' = [clients EXCEPT ![c] = r] /\ UNCHANGED <<current, bridge, caught>> /\ cut' = TRUE
  BY DEF TimesOut
<1>4. /\ loops' = IF clients[c].waits = "loop" THEN loops + Again ELSE loops
      /\ life' = IF clients[c].waits = "start" /\ life = "connecting" THEN "failed" ELSE life
  BY DEF TimesOut, Rejected
<1>5. Again \in {0, 1} /\ (life \in {"connecting", "up"} => Again = 1)
  BY DEF Again, Stopping
<1>6. loops \in Nat
  BY DEF IInv, Typed
<1>7. loops' \in Nat /\ loops' >= loops
  BY <1>4, <1>5, <1>6
<1>8. clients[c].waits \in {"start", "loop"} /\ (clients[c].waits = "start" => life # "up")
  BY <1>1 DEF IInv, WaitsOK, Client, TimesOut
<1>9. life' \in {"connecting", "up"} => loops' > 0
  BY <1>4, <1>5, <1>6, <1>8
<1> HIDE DEF r
<1> QED
  BY <1>1, <1>2, <1>3, <1>4, <1>7, <1>9, ClientInv

LEMMA DropsInv == ASSUME IInv, NEW c \in DOMAIN clients, Drops(c) PROVE IInv'
<1> DEFINE r == [clients[c] EXCEPT !.at = "gone"]
<1>1. c \in Made /\ clients[c] \in Client /\ clients[c].at \in {"joined", "ready"}
  BY MadeAreTheDomain DEF IInv, Drops, Live, At
<1>2. r \in Client /\ r.at = "gone" /\ r.waits = clients[c].waits
  BY <1>1 DEF Client
<1>3. clients' = [clients EXCEPT ![c] = r] /\ UNCHANGED <<current, life, bridge, caught>>
  BY DEF Drops, Gone
<1>4. loops' = loops + Again /\ cut' = (cut \/ clients[c].waits # "nobody")
  BY DEF Drops, LoopOnClose
<1>5. Again \in {0, 1} /\ (life \in {"connecting", "up"} => Again = 1)
  BY DEF Again, Stopping
<1>6. loops \in Nat /\ cut \in BOOLEAN
  BY DEF IInv, Typed
<1>7. /\ loops' \in Nat /\ loops' >= loops /\ loops' \in {loops, loops + 1}
      /\ life \in {"connecting", "up"} => loops' > 0
  BY <1>4, <1>5, <1>6
<1>8. cut' \in BOOLEAN /\ (cut => cut')
  BY <1>4, <1>6
<1>9. r.at # "asking" /\ r.at # "joined" /\ clients[c].at # "gone"
  BY <1>1, <1>2
<1> HIDE DEF r
<1> QED
  BY <1>1, <1>2, <1>3, <1>7, <1>8, <1>9, ClientInv

-----------------------------------------------------------------------------
(* The runner's own steps.                                                 *)

\* A client made: it is the runner's, and the only one while none was cut.
LEMMA MadeInv ==
  ASSUME IInv, NEW by \in {"start", "loop"}, clients' = Append(clients, New(by)),
         current' = Len(clients) + 1, UNCHANGED <<bridge, cut, caught>>,
         ~cut => Alive = {} /\ loops' = 0,
         loops' \in Nat, ~Stopping, life' # "new",
         by = "start" => clients = <<>> /\ life' = "connecting",
         life' = life \/ (life = "new" /\ life' = "connecting")
  PROVE  IInv'
<1> DEFINE n == Len(clients) + 1
<1>1. New(by) \in Client /\ New(by).at = "asking" /\ New(by).waits = by
  BY DEF New, Client
<1>2. clients \in Seq(Client) /\ Len(clients) \in Nat
  BY DEF IInv, Typed
<1>3. /\ clients' \in Seq(Client) /\ Len(clients') = n /\ clients' # <<>>
      /\ \A c \in Made : clients'[c] = clients[c]
      /\ clients'[n] = New(by)
  BY <1>1, <1>2, AppendProperties DEF Made
<1>4. Made' = Made \cup {n} /\ n \notin Made
  BY <1>2, <1>3 DEF Made
<1>5. Typed'
  BY <1>2, <1>3 DEF IInv, Typed, Stopping
<1>6. WaitsOK'
  <2>1. \A c \in Made :
          /\ clients'[c].at = "asking" => clients'[c].waits # "nobody"
          /\ ~cut' /\ clients'[c].at = "joined" => clients'[c].waits # "nobody"
          /\ clients'[c].waits = "start" => c = 1 /\ life' # "up"
    BY <1>3 DEF IInv, WaitsOK
  <2>2. by = "start" => n = 1
    BY <1>2
  <2> QED
    BY <1>1, <1>3, <1>4, <2>1, <2>2 DEF WaitsOK
<1>7. Sole'
  <2>1. Alive' = Alive \cup {n}
    BY <1>1, <1>3, <1>4 DEF Alive
  <2> QED
    BY <2>1 DEF Sole
<1>8. StopOK'
  BY DEF StopOK, Stopping
<1>9. HasWay'
  BY <1>1, <1>3, <1>4 DEF HasWay
<1>10. NewIsIdle'
  BY DEF NewIsIdle
<1> QED
  BY <1>5, <1>6, <1>7, <1>8, <1>9, <1>10 DEF IInv

LEMMA StartsInv == ASSUME IInv, Starts PROVE IInv'
<1>1. clients = <<>> /\ loops = 0
  BY DEF IInv, Typed, NewIsIdle, Starts
<1>2. clients' = Append(clients, New("start")) /\ current' = Len(clients) + 1
  BY <1>1 DEF Starts
<1>3. Alive = {}
  BY <1>1 DEF Alive, Made
<1>4. /\ UNCHANGED <<bridge, cut, caught, loops>> /\ life = "new" /\ life' = "connecting"
      /\ ~Stopping
  BY DEF Starts, Stopping
<1> QED
  BY <1>1, <1>2, <1>3, <1>4, MadeInv

LEMMA WakesInv == ASSUME IInv, Wakes PROVE IInv'
<1>1. loops \in Nat /\ loops > 0 /\ loops' = loops - 1 /\ UNCHANGED <<life, bridge, cut, caught>>
  BY DEF IInv, Typed, Wakes
<1>2. CASE ~Stopping
  <2>1. clients' = Append(clients, New("loop")) /\ current' = Len(clients) + 1
    BY <1>2 DEF Wakes, GoesOn
  <2>2. ~cut => Alive = {} /\ loops' = 0
    BY <1>1 DEF IInv, Sole
  <2>3. life' # "new" /\ loops' \in Nat
    BY <1>1 DEF IInv, NewIsIdle
  <2> QED
    BY <1>1, <1>2, <2>1, <2>2, <2>3, MadeInv
<1>3. CASE Stopping
  <2>1. UNCHANGED <<clients, current>> /\ loops' \in Nat
    BY <1>1, <1>3 DEF Wakes, GoesOn
  <2>2. Alive' = Alive /\ Made' = Made
    BY <2>1 DEF Alive, Made
  <2> QED
    BY <1>1, <1>3, <2>1, <2>2
    DEF IInv, Typed, WaitsOK, Sole, StopOK, Stopping, HasWay, NewIsIdle
<1> QED
  BY <1>2, <1>3

LEMMA StopsInv == ASSUME IInv, Stops PROVE IInv'
<1>1. /\ life \in {"connecting", "up", "failed"} /\ life' = "stopping" /\ caught' = (Waiting # {})
      /\ UNCHANGED <<clients, current, loops, bridge, cut>>
  BY DEF Stops
<1>2. Alive' = Alive /\ Made' = Made
  BY <1>1 DEF Alive, Made
<1>3. ~caught' => \A c \in Made : clients[c].waits = "nobody"
  BY <1>1, MadeAreTheDomain DEF IInv, Waiting
<1>4. caught' \in BOOLEAN
  BY <1>1
<1>5. Typed'
  BY <1>1, <1>4 DEF IInv, Typed
<1>6. StopOK'
  BY <1>1, <1>2, <1>3 DEF StopOK
<1> QED
  BY <1>1, <1>2, <1>5, <1>6 DEF IInv, WaitsOK, Sole, HasWay, NewIsIdle

\* The room left is the one the runner holds, and it holds the only one.
LEMMA LeavesInv == ASSUME IInv, Leaves PROVE IInv'
<1>1. /\ life = "stopping" /\ life' = "stopped" /\ UNCHANGED <<current, loops, bridge, cut, caught>>
      /\ clients' = IF current \in Live THEN Gone(current) ELSE clients
  BY DEF Leaves
<1>2. ~caught => \A c \in Made : clients[c].waits = "nobody"
  BY <1>1 DEF IInv, StopOK, Stopping
<1>3. CASE current \in Live
  <2> DEFINE c == current
             r == [clients[c] EXCEPT !.at = "gone"]
  <2>1. c \in Made /\ clients[c] \in Client /\ clients[c].at \in {"joined", "ready"}
    BY <1>3, MadeAreTheDomain DEF IInv, Live, At
  <2>2. r \in Client /\ r.at = "gone" /\ r.waits = clients[c].waits
    BY <2>1 DEF Client
  <2>3. clients' = [clients EXCEPT ![c] = r]
    BY <1>1, <1>3 DEF Gone
  <2> HIDE DEF r
  <2>4. /\ clients' \in Seq(Client) /\ Len(clients') = Len(clients) /\ Made' = Made
        /\ clients' # <<>> /\ clients'[c] = r /\ \A d \in Made : d # c => clients'[d] = clients[d]
    BY <2>1, <2>2, <2>3, WriteClient DEF IInv
  <2>5. Typed'
    BY <1>1, <2>4 DEF IInv, Typed
  <2>6. WaitsOK'
    BY <1>1, <2>2, <2>4 DEF IInv, WaitsOK
  <2>7. Alive' = Alive \ {current}
    BY <1>1, <2>2, <2>4 DEF Alive
  <2>8. Sole'
    BY <1>1, <2>7 DEF IInv, Sole
  <2>9. \A d \in Made' : clients'[d].waits = clients[d].waits
    BY <2>2, <2>4
  <2>10. ~cut' => Alive' = {}
    BY <1>1, <2>7 DEF IInv, Sole
  <2>11. StopOK'
    BY <1>1, <1>2, <2>4, <2>9, <2>10 DEF StopOK
  <2> QED
    BY <1>1, <2>5, <2>6, <2>8, <2>11 DEF IInv, HasWay, NewIsIdle
<1>4. CASE current \notin Live
  <2>1. UNCHANGED clients
    BY <1>1, <1>4
  <2>2. Alive' = Alive /\ Made' = Made
    BY <2>1 DEF Alive, Made
  <2>3. Typed'
    BY <1>1, <2>1 DEF IInv, Typed
  <2>4. ~caught /\ ~cut => Alive = {}
    <3> SUFFICES ASSUME ~caught, ~cut, NEW c \in Alive PROVE FALSE
      OBVIOUS
    <3>1. c = current /\ c \in Made /\ clients[c].waits = "nobody" /\ clients[c] \in Client
      BY <1>2, MadeAreTheDomain DEF IInv, Sole, Alive
    <3>2. clients[c].at = "ready"
      BY <3>1 DEF IInv, WaitsOK, Alive, Client
    <3> QED
      BY <1>4, <3>1, <3>2, MadeAreTheDomain DEF IInv, Live, At
  <2>5. StopOK'
    BY <1>1, <1>2, <2>1, <2>2, <2>4 DEF StopOK
  <2> QED
    BY <1>1, <2>1, <2>2, <2>3, <2>5 DEF IInv, WaitsOK, Sole, HasWay, NewIsIdle
<1> QED
  BY <1>3, <1>4

LEMMA StepInv == IInv /\ [Next]_vars => IInv'
<1> SUFFICES ASSUME IInv, [Next]_vars PROVE IInv'
  OBVIOUS
<1>1. CASE Starts \/ Stops \/ Leaves \/ Wakes
  BY <1>1, StartsInv, StopsInv, LeavesInv, WakesInv
<1>2. ASSUME NEW c \in DOMAIN clients, Connection(c) PROVE IInv'
  BY <1>2, JoinsInv, ReadiesInv, RefusesInv, TimesOutInv, DropsInv DEF Connection
<1>3. CASE UNCHANGED vars \/ \E w \in Workers : Opens(w)
  <2>1. UNCHANGED <<clients, current, loops, life, cut, caught>>
    BY <1>3 DEF vars, Opens
  <2>2. bridge' \in [Workers -> 0 .. Len(clients)]
    BY <1>3 DEF vars, Opens, IInv, Typed
  <2>3. Alive' = Alive /\ Made' = Made
    BY <2>1 DEF Alive, Made
  <2>4. Typed'
    BY <2>1, <2>2 DEF IInv, Typed
  <2> QED
    BY <2>1, <2>3, <2>4 DEF IInv, WaitsOK, Sole, StopOK, Stopping, HasWay, NewIsIdle
<1> QED
  BY <1>1, <1>2, <1>3 DEF Next

LEMMA Invariance == Spec => []IInv
BY InitInv, StepInv, PTL DEF Spec

LEMMA LiveAreAlive == ASSUME IInv PROVE Live \subseteq Alive
BY MadeAreTheDomain DEF IInv, Live, Alive, At

\* One agent has one connection to its office, for any number of drops,
\* refusals and reconnect loops, as long as no handshake was cut between
\* joining and `agent:ready' (#connect, #reconnect).
THEOREM ThereIsOneConnection == Spec => []OneConnection
<1>1. IInv => OneConnection
  <2> SUFFICES ASSUME IInv, ~cut PROVE Cardinality(Live) <= 1
    BY DEF OneConnection
  <2>1. Live \subseteq {current}
    BY LiveAreAlive DEF IInv, Sole
  <2>2. Live = {} \/ Live = {current}
    BY <2>1
  <2>3. Cardinality({}) = 0 /\ Cardinality({current}) = 1
    BY FS_EmptySet, FS_Singleton
  <2> QED
    BY <2>2, <2>3
<1> QED
  BY <1>1, Invariance, PTL

\* A stopped agent is out of the office and stays out, unless stop() met a
\* connect under way or a handshake was cut (stop, #reconnect).
THEOREM StoppedAgentsAreGone == Spec => []StoppedIsGone
<1>1. IInv => StoppedIsGone
  BY LiveAreAlive DEF IInv, StopOK, StoppedIsGone
<1> QED
  BY <1>1, Invariance, PTL

\* A running agent is never offline without a loop or a wait that will end it:
\* what ComesBack's fairness has to work on (#reconnect, `closed').
THEOREM NobodyIsStranded == Spec => []NeverStranded
<1>1. IInv => NeverStranded
  <2> SUFFICES ASSUME IInv, life = "up" PROVE current \in Live \/ loops > 0 \/ Waiting # {}
    BY DEF NeverStranded
  <2>1. /\ current \in Made /\ clients[current] \in Client
        /\ clients[current].at = "gone" => loops > 0 \/ clients[current].waits # "nobody"
    BY MadeAreTheDomain DEF IInv, HasWay
  <2>2. CASE clients[current].at \in {"joined", "ready"}
    <3>1. current \in DOMAIN clients
      BY <2>1, MadeAreTheDomain DEF IInv
    <3>2. At(current, {"joined", "ready"})
      BY <2>2, <3>1 DEF At
    <3> QED
      BY <3>1, <3>2 DEF Live
  <2>3. CASE clients[current].at = "asking"
    BY <2>1, <2>3, MadeAreTheDomain DEF IInv, WaitsOK, Waiting
  <2>4. CASE clients[current].at = "gone"
    BY <2>1, <2>4, MadeAreTheDomain DEF IInv, Waiting
  <2> QED
    BY <2>1, <2>2, <2>3, <2>4 DEF Client
<1> QED
  BY <1>1, Invariance, PTL

\* Every client is somewhere on its way, and the runner and its tools hold
\* clients that were made.
THEOREM GatewayIsTyped == Spec => []TypeOK
<1>1. IInv => TypeOK
  BY MadeAreTheDomain DEF IInv, Typed, TypeOK, Client
<1> QED
  BY <1>1, Invariance, PTL
-----------------------------------------------------------------------------
(* The supervisor's fleet.                                                 *)

Doing == [name : Names, i : Ids, config : AllVersions]
Poll ==
  {NotPolling}
    \cup [at : {"answered"}, next : [Names -> AllVersions]]
    \cup [at : {"stops", "waits"}, next : [Names -> AllVersions], todo : Seq(Doing)]
Runner ==
  {NoRunner}
    \cup [at : {"starting", "starting stopped", "up", "failed", "stopping"},
          name : Names, version : AllVersions]

FleetTyped ==
  /\ wanted \in [Names -> AllVersions] /\ raced \in BOOLEAN
  /\ entries \in [Names -> Ids \cup {NoRun}] /\ runners \in [Ids -> Runner]
  /\ polls \in [1..MaxPolls -> Poll]
  /\ \A p \in 1..MaxPolls : polls[p].at = "waits" => polls[p].todo # <<>>

\* An entry is a runner of that name, and so is whoever a reconcile has on its
\* list, as long as it is there.
EntriesOK == \A n \in Names : entries[n] # NoRun => ~RunnerGone(entries[n]) /\ runners[entries[n]].name = n
Named(one) == ~RunnerGone(one.i) => runners[one.i].name = one.name
ListsOK == \A p \in Reconciling : \A k \in 1..Len(polls[p].todo) : Named(polls[p].todo[k])

\* Until two reconciles race, or a stop a start: there is one, whoever is on its
\* list is an entry still and there once, and whoever runs is an entry.
Alone == \A p, q \in Reconciling : p = q
ListsHold ==
  \A p \in Reconciling :
    /\ \A k \in 1..Len(polls[p].todo) : entries[polls[p].todo[k].name] = polls[p].todo[k].i
    /\ \A k, l \in 1..Len(polls[p].todo) : polls[p].todo[k].name = polls[p].todo[l].name => k = l
AllListed == \A i \in Ids : ~RunnerGone(i) => Listed(i) /\ runners[i].at # "starting stopped"
Quiet == ~raced => Alone /\ ListsHold /\ AllListed

FleetInv == FleetTyped /\ EntriesOK /\ ListsOK /\ Quiet

-----------------------------------------------------------------------------
LEMMA RunnerHere ==
  ASSUME FleetTyped, NEW i \in Ids, ~RunnerGone(i)
  PROVE  runners[i] \in [at : {"starting", "starting stopped", "up", "failed", "stopping"},
                         name : Names, version : AllVersions]
<1>1. runners[i] \in Runner /\ runners[i] # NoRunner
  BY DEF FleetTyped, RunnerGone, NoRunner
<1> QED BY <1>1, Zenon DEF Runner

LEMMA PollAt ==
  ASSUME FleetTyped, NEW p \in 1..MaxPolls
  PROVE  /\ polls[p].at = "answered" => polls[p] \in [at : {"answered"}, next : [Names -> AllVersions]]
         /\ p \in Reconciling <=> polls[p].at \in {"stops", "waits"}
         /\ p \in Reconciling => polls[p] \in
              [at : {"stops", "waits"}, next : [Names -> AllVersions], todo : Seq(Doing)]
BY DEF FleetTyped, Poll, NotPolling, Reconciling

\* The list a reconcile begins with.
Items == {[name |-> n, i |-> entries[n], config |-> runners[entries[n]].version]
           : n \in {n \in Names : entries[n] # NoRun}}

LEMMA ItemsListed ==
  ASSUME FleetTyped, EntriesOK
  PROVE  /\ SetToSeq(Items) \in Seq(Items) /\ Items \subseteq Doing
         /\ \A x \in Items : x.i = entries[x.name] /\ x.i # NoRun
         /\ \A k, l \in 1..Len(SetToSeq(Items)) :
              SetToSeq(Items)[k].name = SetToSeq(Items)[l].name => k = l
<1> DEFINE S == Items
           n == Cardinality(S)
           f == SetToSeq(S)
<1>1. Items \subseteq Doing /\ \A x \in Items : x.i = entries[x.name] /\ x.i # NoRun
  <2> SUFFICES ASSUME NEW m \in Names, entries[m] # NoRun
               PROVE  [name |-> m, i |-> entries[m], config |-> runners[entries[m]].version] \in Doing
    BY DEF Items
  <2>1. entries[m] \in Ids /\ ~RunnerGone(entries[m])
    BY DEF FleetTyped, EntriesOK
  <2> QED BY <2>1, RunnerHere DEF Doing
<1>2. \A x, y \in S : x.name = y.name => x = y
  BY DEF Items
<1>3. IsFiniteSet(S)
  <2> DEFINE g == [x \in S |-> x.name]
  <2>1. g \in Injection(S, Names)
    BY <1>1, <1>2 DEF Injection, IsInjective, Doing
  <2> QED BY <2>1, FleetAssumption, FS_Injection
<1>4. n \in Nat /\ ExistsBijection(1..n, S)
  BY <1>3, FS_CardinalityType
<1>5. \E g \in [1..n -> S] : IsInjective(g)
  BY <1>4 DEF ExistsBijection, Bijection, Injection, IsInjective
<1>6. f \in [1..n -> S] /\ IsInjective(f)
  BY <1>5 DEF SetToSeq
<1>7. f \in Seq(S) /\ Len(f) = n
  BY <1>4, <1>6
<1>8. \A k, l \in 1..n : f[k] = f[l] => k = l
  BY <1>6 DEF IsInjective
<1> QED BY <1>1, <1>2, <1>6, <1>7, <1>8

LEMMA FleetInitInv == FleetInit => FleetInv
<1> SUFFICES ASSUME FleetInit PROVE FleetInv
  OBVIOUS
<1>1. \A i \in Ids : RunnerGone(i)
  BY DEF FleetInit, RunnerGone, NoRunner
<1>2. Reconciling = {}
  BY DEF FleetInit, Reconciling, NotPolling
<1>3. FleetTyped
  <2>1. NoRunner \in Runner /\ NotPolling \in Poll
    BY Zenon DEF Runner, Poll
  <2>2. runners \in [Ids -> Runner] /\ polls \in [1..MaxPolls -> Poll]
    BY <2>1 DEF FleetInit
  <2>3. \A p \in 1..MaxPolls : polls[p].at = "idle"
    BY DEF FleetInit, NotPolling
  <2> QED BY <2>2, <2>3 DEF FleetInit, FleetTyped, AllVersions
<1>4. EntriesOK /\ ListsOK /\ Quiet
  BY <1>1, <1>2 DEF FleetInit, EntriesOK, ListsOK, Quiet, Alone, ListsHold, AllListed
<1> QED BY <1>3, <1>4 DEF FleetInv

\* What asks for an answer, or loses one, is no reconcile.
LEMMA AsksInv ==
  ASSUME FleetInv, NEW p \in 1..MaxPolls, Polls(p) \/ Misses(p) PROVE FleetInv'
<1>1. UNCHANGED <<wanted, entries, runners, raced>>
  BY DEF Polls, Misses
<1>2. /\ polls'[p].at \in {"idle", "answered"} /\ p \notin Reconciling
      /\ \A q \in 1..MaxPolls \ {p} : polls'[q] = polls[q]
      /\ DOMAIN polls = 1..MaxPolls /\ DOMAIN polls' = 1..MaxPolls
  <2>1. DOMAIN polls = 1..MaxPolls
    BY DEF FleetInv, FleetTyped
  <2>2. polls[p].at \in {"idle", "answered"}
    BY DEF Polls, Misses, NotPolling
  <2>3. CASE Polls(p)
    BY <2>1, <2>2, <2>3 DEF Polls, Reconciling
  <2>4. CASE Misses(p)
    BY <2>1, <2>2, <2>4 DEF Misses, Reconciling, NotPolling
  <2> QED BY <2>3, <2>4
<1>3. FleetTyped'
  <2>1. polls'[p] \in Poll
    <3>1. CASE Polls(p)
      <4>1. polls'[p] = [at |-> "answered", next |-> wanted] /\ wanted \in [Names -> AllVersions]
        BY <3>1 DEF Polls, FleetInv, FleetTyped
      <4>2. polls'[p] \in [at : {"answered"}, next : [Names -> AllVersions]]
        BY <4>1
      <4> QED BY <4>2 DEF Poll
    <3>2. CASE Misses(p)
      <4>1. polls'[p] = NotPolling
        BY <3>2 DEF Misses, FleetInv, FleetTyped
      <4> QED BY <4>1, Zenon DEF Poll
    <3> QED BY <3>1, <3>2
  <2>2. polls' = [polls EXCEPT ![p] = polls'[p]]
    BY DEF Polls, Misses, FleetInv, FleetTyped
  <2>3. polls' \in [1..MaxPolls -> Poll]
    BY <2>1, <2>2 DEF FleetInv, FleetTyped
  <2>4. \A q \in 1..MaxPolls : polls'[q].at = "waits" => polls'[q].todo # <<>>
    BY <1>2 DEF FleetInv, FleetTyped
  <2> QED BY <1>1, <2>3, <2>4 DEF FleetInv, FleetTyped
<1>4. Reconciling' = Reconciling
  BY <1>2 DEF Reconciling
<1>5. \A q \in Reconciling : q \in 1..MaxPolls /\ polls'[q] = polls[q]
  BY <1>2 DEF Reconciling
<1>6. EntriesOK' /\ ListsOK'
  BY <1>1, <1>4, <1>5 DEF FleetInv, EntriesOK, ListsOK, Named, RunnerGone
<1>7. /\ Alone => Alone'
      /\ ListsHold => ListsHold'
      /\ AllListed => AllListed'
  <2>1. Alone => Alone'
    BY <1>4 DEF Alone
  <2>2. \A q \in Reconciling : polls'[q].todo = polls[q].todo
    BY <1>5
  <2>3. ListsHold => ListsHold'
    BY <1>1, <1>4, <2>2 DEF ListsHold
  <2>4. AllListed => AllListed'
    BY <1>1 DEF AllListed, Listed, RunnerGone
  <2> QED BY <2>1, <2>3, <2>4
<1>8. Quiet'
  BY <1>1, <1>7 DEF FleetInv, Quiet
<1> QED BY <1>3, <1>6, <1>8 DEF FleetInv

\* A reconcile begins with the entries there are, and alone if none is on its way.
LEMMA BeginsInv ==
  ASSUME FleetInv, NEW p \in 1..MaxPolls, BeginsReconcile(p) PROVE FleetInv'
<1> DEFINE list == SetToSeq(Items)
<1>1. UNCHANGED <<wanted, entries, runners>> /\ raced' = (raced \/ Reconciling # {})
  BY DEF BeginsReconcile
<1>2. /\ list \in Seq(Items) /\ list \in Seq(Doing)
      /\ \A k \in 1..Len(list) : list[k] \in Items
      /\ \A x \in Items : x.i = entries[x.name] /\ x.i # NoRun /\ x.name \in Names
      /\ \A k, l \in 1..Len(list) : list[k].name = list[l].name => k = l
  <2>1. list \in Seq(Items) /\ Items \subseteq Doing
    BY ItemsListed DEF FleetInv
  <2>2. list \in Seq(Doing)
    BY <2>1
  <2> QED BY <2>1, <2>2, ItemsListed DEF FleetInv, Doing
<1>3. /\ polls[p].at = "answered" /\ p \notin Reconciling
      /\ polls' = [polls EXCEPT ![p] = [at |-> "stops", next |-> polls[p].next, todo |-> list]]
  BY DEF BeginsReconcile, Items, Reconciling
<1>4. /\ polls'[p] = [at |-> "stops", next |-> polls[p].next, todo |-> list]
      /\ \A q \in 1..MaxPolls \ {p} : polls'[q] = polls[q]
      /\ DOMAIN polls = 1..MaxPolls /\ DOMAIN polls' = 1..MaxPolls
  BY <1>3 DEF FleetInv, FleetTyped
<1>5. FleetTyped'
  <2>1. polls[p].next \in [Names -> AllVersions]
    BY <1>3, PollAt DEF FleetInv
  <2>2. polls'[p] \in [at : {"stops", "waits"}, next : [Names -> AllVersions], todo : Seq(Doing)]
    BY <1>2, <1>4, <2>1
  <2>3. polls' \in [1..MaxPolls -> Poll]
    BY <1>3, <1>4, <2>2 DEF FleetInv, FleetTyped, Poll
  <2>4. \A q \in 1..MaxPolls : polls'[q].at = "waits" => polls'[q].todo # <<>>
    BY <1>4 DEF FleetInv, FleetTyped
  <2>5. raced' \in BOOLEAN
    BY <1>1
  <2> QED BY <1>1, <2>3, <2>4, <2>5 DEF FleetInv, FleetTyped
<1>6. Reconciling' = Reconciling \cup {p}
  BY <1>4 DEF Reconciling
<1>7. \A q \in Reconciling : polls'[q] = polls[q]
  BY <1>3, <1>4 DEF Reconciling
<1>8. polls'[p].todo = list
  BY <1>4
<1>9. EntriesOK'
  BY <1>1 DEF FleetInv, EntriesOK, RunnerGone
<1>10. ListsOK'
  <2> SUFFICES ASSUME NEW q \in Reconciling', NEW k \in 1..Len(polls'[q].todo)
               PROVE  Named(polls[q].todo[k])'
    BY DEF ListsOK
  <2>1. CASE q = p
    <3>1. list[k] \in Items /\ polls'[q].todo[k] = list[k]
      BY <1>2, <1>8, <2>1
    <3>2. ASSUME NEW x \in Items PROVE runners[x.i].name = x.name
      BY <1>2 DEF FleetInv, EntriesOK
    <3> QED BY <1>1, <3>1, <3>2 DEF Named
  <2>2. CASE q # p
    <3>1. q \in Reconciling /\ polls'[q] = polls[q]
      BY <1>6, <1>7, <2>2
    <3>2. Named(polls[q].todo[k])
      BY <3>1 DEF FleetInv, ListsOK
    <3> QED BY <1>1, <3>1, <3>2 DEF Named, RunnerGone
  <2> QED BY <2>1, <2>2
<1>11. Quiet'
  <2> SUFFICES ASSUME ~raced' PROVE Alone' /\ ListsHold' /\ AllListed'
    BY DEF Quiet
  <2>1. ~raced /\ Reconciling' = {p}
    BY <1>1, <1>6
  <2>2. Alone' /\ ListsHold'
    BY <1>1, <1>2, <1>8, <2>1 DEF Alone, ListsHold
  <2>3. AllListed'
    BY <1>1, <2>1 DEF FleetInv, Quiet, AllListed, Listed, RunnerGone
  <2> QED BY <2>2, <2>3
<1> QED BY <1>5, <1>9, <1>10, <1>11 DEF FleetInv

Whereabouts == {"starting", "starting stopped", "up", "failed", "stopping"}
\* Nobody comes, goes or is renamed.
SameCrew == \A j \in Ids : /\ runners'[j].at = "gone" <=> runners[j].at = "gone"
                           /\ runners[j].at # "gone" => runners'[j].name = runners[j].name

\* A runner that is somewhere is somewhere else.
LEMMA MovesOn ==
  ASSUME FleetTyped, NEW i \in Ids, ~RunnerGone(i), NEW s \in Whereabouts,
         runners' = [runners EXCEPT ![i].at = s]
  PROVE  /\ runners' \in [Ids -> Runner] /\ SameCrew
         /\ \A j \in Ids : runners'[j].at = IF j = i THEN s ELSE runners[j].at
<1>1. runners[i] \in [at : Whereabouts, name : Names, version : AllVersions]
  BY RunnerHere DEF Whereabouts
<1>2. runners'[i] \in [at : Whereabouts, name : Names, version : AllVersions]
      /\ runners'[i].at = s /\ runners'[i].name = runners[i].name
  BY <1>1 DEF FleetTyped
<1>3. runners'[i] \in Runner
  BY <1>2 DEF Runner, Whereabouts
<1>4. \A j \in Ids \ {i} : runners'[j] = runners[j]
  BY DEF FleetTyped
<1>5. runners' \in [Ids -> Runner]
  BY <1>3, <1>4 DEF FleetTyped
<1>6. s # "gone"
  BY DEF Whereabouts
<1> QED BY <1>2, <1>4, <1>5, <1>6 DEF SameCrew, RunnerGone

LEMMA SameCrewKeeps ==
  ASSUME FleetTyped, UNCHANGED entries, SameCrew
  PROVE  /\ EntriesOK => EntriesOK'
         /\ \A x \in Doing : Named(x) => Named(x)'
         /\ \A i \in Ids : ~RunnerGone(i) /\ Listed(i) => Listed(i)'
<1>1. ASSUME NEW j \in Ids
      PROVE  /\ runners'[j].at = "gone" <=> runners[j].at = "gone"
             /\ runners[j].at # "gone" => runners'[j].name = runners[j].name
  BY <1>1 DEF SameCrew
<1>2. ASSUME EntriesOK, NEW n \in Names, entries'[n] # NoRun
      PROVE  runners'[entries'[n]].at # "gone" /\ runners'[entries'[n]].name = n
  <2>1. entries'[n] = entries[n] /\ entries[n] \in Ids
    BY <1>2 DEF FleetTyped
  <2>2. runners[entries[n]].at # "gone" /\ runners[entries[n]].name = n
    BY <1>2, <2>1 DEF EntriesOK, RunnerGone
  <2> QED BY <1>1, <2>1, <2>2
<1>3. ASSUME NEW x \in Doing, Named(x) PROVE Named(x)'
  <2>1. x.i \in Ids
    BY DEF Doing
  <2> QED BY <1>1, <1>3, <2>1 DEF Named, RunnerGone
<1>4. ASSUME NEW i \in Ids, ~RunnerGone(i), Listed(i) PROVE Listed(i)'
  BY <1>1, <1>4 DEF Listed, RunnerGone
<1>5. EntriesOK => EntriesOK'
  BY <1>2 DEF EntriesOK, RunnerGone
<1> QED BY <1>3, <1>4, <1>5

LEMMA ListTyped ==
  ASSUME FleetTyped, NEW p \in Reconciling
  PROVE  /\ p \in 1..MaxPolls /\ polls[p].todo \in Seq(Doing)
         /\ \A k \in 1..Len(polls[p].todo) : polls[p].todo[k] \in Doing
<1>1. p \in 1..MaxPolls
  BY DEF FleetTyped, Reconciling
<1>2. polls[p].todo \in Seq(Doing)
  BY <1>1, PollAt
<1> QED BY <1>1, <1>2

\* A start gets through or fails: nobody comes or goes.
LEMMA RunnerStartsInv ==
  ASSUME FleetInv, NEW i \in Ids, ComesUp(i) \/ StartFails(i) PROVE FleetInv'
<1>1. PICK s \in {"up", "failed"} : runners' = [runners EXCEPT ![i].at = s]
  BY DEF ComesUp, StartFails
<1>2. runners[i].at = "starting" /\ UNCHANGED <<wanted, entries, polls, raced>>
  BY DEF ComesUp, StartFails
<1>3. /\ runners' \in [Ids -> Runner] /\ SameCrew
      /\ \A j \in Ids : runners'[j].at = IF j = i THEN s ELSE runners[j].at
  BY <1>1, <1>2, MovesOn DEF FleetInv, RunnerGone, Whereabouts
<1>4. FleetTyped'
  BY <1>2, <1>3 DEF FleetInv, FleetTyped
<1>5. EntriesOK'
  BY <1>2, <1>3, SameCrewKeeps DEF FleetInv
<1>6. Reconciling' = Reconciling
  BY <1>2 DEF Reconciling
<1>7. ListsOK'
  BY <1>2, <1>3, <1>6, SameCrewKeeps, ListTyped DEF FleetInv, ListsOK
<1>8. Alone => Alone'
  BY <1>6 DEF Alone
<1>9. ListsHold => ListsHold'
  BY <1>2, <1>6 DEF ListsHold
<1>10. AllListed => AllListed'
  BY <1>2, <1>3, SameCrewKeeps DEF FleetInv, AllListed, SameCrew, RunnerGone
<1>11. Quiet'
  BY <1>2, <1>8, <1>9, <1>10 DEF FleetInv, Quiet
<1> QED BY <1>4, <1>5, <1>7, <1>11 DEF FleetInv

\* A start that met its stop ends or goes on, which is a race already.
LEMMA SurvivesInv ==
  ASSUME FleetInv, NEW i \in Ids, Survives(i) PROVE FleetInv'
<1>1. runners[i].at = "starting stopped" /\ UNCHANGED <<wanted, entries, polls, raced>>
  BY DEF Survives
<1>2. ~RunnerGone(i)
  BY <1>1 DEF RunnerGone
<1>3. raced
  BY <1>1, <1>2 DEF FleetInv, Quiet, AllListed
<1>4. Reconciling' = Reconciling
  BY <1>1 DEF Reconciling
<1>5. CASE \E s \in {"up", "stopping"} : runners' = [runners EXCEPT ![i].at = s]
  <2>1. runners' \in [Ids -> Runner] /\ SameCrew
    BY <1>2, <1>5, MovesOn DEF FleetInv, Whereabouts
  <2>2. FleetTyped' /\ EntriesOK'
    BY <1>1, <2>1, SameCrewKeeps DEF FleetInv, FleetTyped
  <2>3. ListsOK'
    BY <1>1, <1>4, <2>1, SameCrewKeeps, ListTyped DEF FleetInv, ListsOK
  <2> QED BY <1>1, <1>3, <2>2, <2>3 DEF FleetInv, Quiet
<1>6. CASE ~Listed(i) /\ runners' = [runners EXCEPT ![i] = NoRunner]
  <2>1. /\ runners' \in [Ids -> Runner] /\ RunnerGone(i)'
        /\ \A j \in Ids \ {i} : runners'[j] = runners[j]
    <3>1. NoRunner \in Runner
      BY Zenon DEF Runner
    <3> QED BY <1>6, <3>1 DEF FleetInv, FleetTyped, RunnerGone, NoRunner
  <2>2. \A n \in Names : entries[n] # i
    BY <1>2, <1>6 DEF FleetInv, EntriesOK, Listed, NoRun, Ids
  <2>3. EntriesOK'
    <3> SUFFICES ASSUME NEW n \in Names, entries'[n] # NoRun
                 PROVE  runners'[entries'[n]].at # "gone" /\ runners'[entries'[n]].name = n
      BY DEF EntriesOK, RunnerGone
    <3>1. entries'[n] = entries[n] /\ entries[n] \in Ids \ {i}
      BY <1>1, <2>2 DEF FleetInv, FleetTyped
    <3>2. runners[entries[n]].at # "gone" /\ runners[entries[n]].name = n
      BY <3>1 DEF FleetInv, EntriesOK, RunnerGone
    <3> QED BY <2>1, <3>1, <3>2
  <2>4. \A x \in Doing : Named(x) => Named(x)'
    BY <2>1 DEF Named, RunnerGone, Doing
  <2>5. ListsOK'
    BY <1>1, <1>4, <2>4, ListTyped DEF FleetInv, ListsOK
  <2>6. FleetTyped'
    BY <1>1, <2>1 DEF FleetInv, FleetTyped
  <2> QED BY <1>1, <1>3, <2>3, <2>5, <2>6 DEF FleetInv, Quiet
<1>7. runners' = [runners EXCEPT ![i].at = "up"]
        \/ runners' = [runners EXCEPT ![i] = IF Listed(i) THEN [@ EXCEPT !.at = "stopping"] ELSE NoRunner]
  BY DEF Survives
<1> QED BY <1>5, <1>6, <1>7

LEMMA EditsInv ==
  ASSUME FleetInv, NEW n \in Names, NEW v \in AllVersions, Edits(n, v) PROVE FleetInv'
<1>1. UNCHANGED <<entries, runners, polls, raced>> /\ wanted' \in [Names -> AllVersions]
  BY DEF Edits, FleetInv, FleetTyped
<1>2. Reconciling' = Reconciling
  BY <1>1 DEF Reconciling
<1>3. FleetTyped'
  BY <1>1 DEF FleetInv, FleetTyped
<1>4. EntriesOK' /\ ListsOK'
  BY <1>1, <1>2 DEF FleetInv, EntriesOK, ListsOK, Named, RunnerGone
<1>5. (Alone => Alone') /\ (ListsHold => ListsHold') /\ (AllListed => AllListed')
  BY <1>1, <1>2 DEF Alone, ListsHold, AllListed, Listed, RunnerGone
<1>6. Quiet'
  BY <1>1, <1>5 DEF FleetInv, Quiet
<1> QED BY <1>3, <1>4, <1>6 DEF FleetInv

LEMMA TailOf ==
  ASSUME NEW S, NEW s \in Seq(S), s # <<>>
  PROVE  /\ Tail(s) \in Seq(S) /\ Head(s) = s[1] /\ 1 \in 1..Len(s)
         /\ \A k \in 1..Len(Tail(s)) : k + 1 \in 1..Len(s) /\ Tail(s)[k] = s[k + 1]
OBVIOUS

\* A poll that goes on with its list, or with the rest of it.
LEMMA PollGoesOn ==
  ASSUME FleetTyped, NEW p \in Reconciling, polls[p].todo # <<>>,
         NEW at \in {"stops", "waits"}, NEW todo \in {polls[p].todo, Tail(polls[p].todo)},
         at = "waits" => todo = polls[p].todo,
         polls' = [polls EXCEPT ![p] = [polls[p] EXCEPT !.at = at, !.todo = todo]]
  PROVE  /\ polls' \in [1..MaxPolls -> Poll] /\ polls'[p].todo = todo
         /\ \A q \in 1..MaxPolls : polls'[q].at = "waits" => polls'[q].todo # <<>>
         /\ \A q \in Reconciling \ {p} : polls'[q] = polls[q]
         /\ Reconciling' = Reconciling
<1>1. p \in 1..MaxPolls /\ polls[p].todo \in Seq(Doing)
  BY ListTyped
<1>2. todo \in Seq(Doing)
  BY <1>1, TailOf
<1>3. polls[p] \in [at : {"stops", "waits"}, next : [Names -> AllVersions], todo : Seq(Doing)]
  BY <1>1, PollAt
<1>4. [polls[p] EXCEPT !.at = at, !.todo = todo]
        \in [at : {"stops", "waits"}, next : [Names -> AllVersions], todo : Seq(Doing)]
  BY <1>2, <1>3
<1>5. DOMAIN polls = 1..MaxPolls /\ DOMAIN polls' = 1..MaxPolls
  BY DEF FleetTyped
<1>6. polls'[p] = [polls[p] EXCEPT !.at = at, !.todo = todo]
  BY <1>1, <1>5
<1>7. polls'[p].at = at /\ polls'[p].todo = todo
  BY <1>3, <1>6
<1>8. \A q \in 1..MaxPolls \ {p} : polls'[q] = polls[q]
  BY <1>5
<1>9. [polls[p] EXCEPT !.at = at, !.todo = todo] \in Poll
  BY <1>4 DEF Poll
<1>10. polls' \in [1..MaxPolls -> Poll]
  BY <1>9 DEF FleetTyped
<1>11. \A q \in 1..MaxPolls : polls'[q].at = "waits" => polls'[q].todo # <<>>
  BY <1>7, <1>8 DEF FleetTyped
<1>12. Reconciling' = Reconciling
  BY <1>5, <1>7, <1>8 DEF Reconciling
<1> QED BY <1>5, <1>7, <1>8, <1>10, <1>11, <1>12 DEF Reconciling

\* What held of a list holds of the list or its rest.
LEMMA RestHolds ==
  ASSUME FleetTyped, NEW p \in Reconciling, polls[p].todo # <<>>,
         NEW todo \in {polls[p].todo, Tail(polls[p].todo)},
         polls'[p].todo = todo, Reconciling' = Reconciling,
         \A q \in Reconciling \ {p} : polls'[q] = polls[q]
  PROVE  /\ (\A x \in Doing : Named(x) => Named(x)') /\ ListsOK => ListsOK'
         /\ UNCHANGED entries /\ ListsHold => ListsHold'
         /\ Alone => Alone'
<1>1. polls[p].todo \in Seq(Doing)
  BY ListTyped
<1>2. \A q \in Reconciling : \A k \in 1..Len(polls'[q].todo) :
        \E l \in 1..Len(polls[q].todo) :
          /\ polls'[q].todo[k] = polls[q].todo[l]
          /\ l = IF q = p /\ todo # polls[p].todo THEN k + 1 ELSE k
  <2> SUFFICES ASSUME NEW q \in Reconciling, NEW k \in 1..Len(polls'[q].todo)
               PROVE  \E l \in 1..Len(polls[q].todo) :
                        /\ polls'[q].todo[k] = polls[q].todo[l]
                        /\ l = IF q = p /\ todo # polls[p].todo THEN k + 1 ELSE k
    OBVIOUS
  <2>1. CASE q # p \/ todo = polls[p].todo
    <3>1. polls'[q].todo = polls[q].todo
      BY <2>1
    <3> QED BY <2>1, <3>1
  <2>2. CASE q = p /\ todo # polls[p].todo
    <3>1. polls'[q].todo = Tail(polls[p].todo)
      BY <2>2
    <3>2. k + 1 \in 1..Len(polls[p].todo) /\ Tail(polls[p].todo)[k] = polls[p].todo[k + 1]
      BY <1>1, <3>1, TailOf
    <3> QED BY <2>2, <3>1, <3>2
  <2> QED BY <2>1, <2>2
<1>3. ASSUME \A x \in Doing : Named(x) => Named(x)', ListsOK PROVE ListsOK'
  <2> SUFFICES ASSUME NEW q \in Reconciling, NEW k \in 1..Len(polls'[q].todo)
               PROVE  Named(polls[q].todo[k])'
    BY DEF ListsOK
  <2>1. PICK l \in 1..Len(polls[q].todo) : polls'[q].todo[k] = polls[q].todo[l]
    BY <1>2
  <2>2. polls[q].todo[l] \in Doing /\ Named(polls[q].todo[l])
    BY <1>3, ListTyped DEF ListsOK
  <2>3. ASSUME NEW x \in Doing, Named(x), polls'[q].todo[k] = x PROVE Named(polls[q].todo[k])'
    BY <1>3, <2>3 DEF Named, RunnerGone
  <2> QED BY <2>1, <2>2, <2>3
<1>4. ASSUME UNCHANGED entries, ListsHold PROVE ListsHold'
  <2> SUFFICES ASSUME NEW q \in Reconciling
               PROVE  /\ \A k \in 1..Len(polls'[q].todo) :
                           entries'[polls'[q].todo[k].name] = polls'[q].todo[k].i
                      /\ \A k, m \in 1..Len(polls'[q].todo) :
                           polls'[q].todo[k].name = polls'[q].todo[m].name => k = m
    BY DEF ListsHold
  <2>1. \A k \in 1..Len(polls[q].todo) : entries[polls[q].todo[k].name] = polls[q].todo[k].i
    BY <1>4 DEF ListsHold
  <2>2. \A k, m \in 1..Len(polls[q].todo) : polls[q].todo[k].name = polls[q].todo[m].name => k = m
    BY <1>4 DEF ListsHold
  <2>3. ASSUME NEW k \in 1..Len(polls'[q].todo)
        PROVE  entries'[polls'[q].todo[k].name] = polls'[q].todo[k].i
    <3>1. PICK l \in 1..Len(polls[q].todo) : polls'[q].todo[k] = polls[q].todo[l]
      BY <1>2
    <3> QED BY <1>4, <2>1, <3>1
  <2>4. ASSUME NEW k \in 1..Len(polls'[q].todo), NEW m \in 1..Len(polls'[q].todo),
               polls'[q].todo[k].name = polls'[q].todo[m].name
        PROVE  k = m
    <3>1. PICK l \in 1..Len(polls[q].todo) :
            /\ polls'[q].todo[k] = polls[q].todo[l]
            /\ l = IF q = p /\ todo # polls[p].todo THEN k + 1 ELSE k
      BY <1>2
    <3>2. PICK n \in 1..Len(polls[q].todo) :
            /\ polls'[q].todo[m] = polls[q].todo[n]
            /\ n = IF q = p /\ todo # polls[p].todo THEN m + 1 ELSE m
      BY <1>2
    <3>3. l = n
      BY <2>2, <2>4, <3>1, <3>2
    <3> QED BY <3>1, <3>2, <3>3
  <2> QED BY <2>3, <2>4
<1>5. Alone => Alone'
  BY DEF Alone
<1> QED BY <1>3, <1>4, <1>5

\* The next entry is left alone, or told to stop, which is a race if it starts.
LEMMA ConsidersInv ==
  ASSUME FleetInv, NEW p \in 1..MaxPolls, Considers(p) PROVE FleetInv'
<1> DEFINE list == polls[p].todo
           i == Head(list).i
<1>1. p \in Reconciling /\ list # <<>> /\ UNCHANGED <<wanted, entries>>
  BY PollAt DEF Considers, FleetInv
<1>2. /\ polls[p] \in [at : {"stops", "waits"}, next : [Names -> AllVersions], todo : Seq(Doing)]
      /\ polls[p].at = "stops"
  BY <1>1, PollAt DEF FleetInv, Considers
<1>3. list \in Seq(Doing) /\ Head(list) = list[1] /\ 1 \in 1..Len(list) /\ list[1] \in Doing
  BY <1>1, ListTyped, TailOf DEF FleetInv
<1>4. i \in Ids
  BY <1>3 DEF Doing
<1>5. CASE Unchanged(p, Head(list))
  <2>1. UNCHANGED <<runners, raced>> /\ polls' = [polls EXCEPT ![p].todo = Tail(list)]
    BY <1>5 DEF Considers
  <2>2. polls' = [polls EXCEPT ![p] = [polls[p] EXCEPT !.at = "stops", !.todo = Tail(list)]]
    BY <1>2, <2>1 DEF FleetInv, FleetTyped
  <2>3. /\ polls' \in [1..MaxPolls -> Poll] /\ polls'[p].todo = Tail(list)
        /\ \A q \in 1..MaxPolls : polls'[q].at = "waits" => polls'[q].todo # <<>>
        /\ \A q \in Reconciling \ {p} : polls'[q] = polls[q]
        /\ Reconciling' = Reconciling
    BY <1>1, <2>2, PollGoesOn DEF FleetInv
  <2>4. \A x \in Doing : Named(x) => Named(x)'
    BY <2>1 DEF Named, RunnerGone
  <2>5. ListsOK' /\ (ListsHold => ListsHold') /\ (Alone => Alone')
    BY <1>1, <2>3, <2>4, RestHolds DEF FleetInv
  <2>6. FleetTyped' /\ EntriesOK' /\ (AllListed => AllListed')
    BY <1>1, <2>1, <2>3 DEF FleetInv, FleetTyped, EntriesOK, AllListed, Listed, RunnerGone
  <2> QED BY <2>1, <2>5, <2>6 DEF FleetInv, Quiet
<1>6. CASE ~Unchanged(p, Head(list))
  <2>1. /\ polls' = [polls EXCEPT ![p].at = "waits"]
        /\ runners' = IF RunnerGone(i) THEN runners ELSE Stopped(i)
        /\ raced' = (raced \/ runners[i].at = "starting")
    BY <1>6 DEF Considers
  <2>2. polls' = [polls EXCEPT ![p] = [polls[p] EXCEPT !.at = "waits", !.todo = list]]
    BY <1>2, <2>1 DEF FleetInv, FleetTyped
  <2>3. /\ polls' \in [1..MaxPolls -> Poll] /\ polls'[p].todo = list
        /\ \A q \in 1..MaxPolls : polls'[q].at = "waits" => polls'[q].todo # <<>>
        /\ \A q \in Reconciling \ {p} : polls'[q] = polls[q]
        /\ Reconciling' = Reconciling
    BY <1>1, <2>2, PollGoesOn DEF FleetInv
  <2>4. /\ runners' \in [Ids -> Runner] /\ SameCrew
        /\ runners[i].at # "starting" => \A j \in Ids : runners'[j].at \in {runners[j].at, "stopping"}
    <3>1. CASE RunnerGone(i)
      BY <2>1, <3>1 DEF FleetInv, FleetTyped, SameCrew
    <3>2. CASE ~RunnerGone(i)
      <4> DEFINE s == IF runners[i].at = "starting" THEN "starting stopped" ELSE "stopping"
      <4>1. runners' = [runners EXCEPT ![i].at = s] /\ s \in Whereabouts
        BY <2>1, <3>2 DEF Stopped, FleetInv, FleetTyped, Whereabouts
      <4>2. /\ runners' \in [Ids -> Runner] /\ SameCrew
            /\ \A j \in Ids : runners'[j].at = IF j = i THEN s ELSE runners[j].at
        BY <1>4, <3>2, <4>1, MovesOn DEF FleetInv
      <4> QED BY <4>2
    <3> QED BY <3>1, <3>2
  <2>5. raced' \in BOOLEAN
    BY <2>1
  <2>6. FleetTyped'
    BY <1>1, <2>3, <2>4, <2>5 DEF FleetInv, FleetTyped
  <2>7. EntriesOK' /\ \A x \in Doing : Named(x) => Named(x)'
    BY <1>1, <2>4, SameCrewKeeps DEF FleetInv
  <2>8. ListsOK' /\ (ListsHold => ListsHold') /\ (Alone => Alone')
    BY <1>1, <2>3, <2>7, RestHolds DEF FleetInv
  <2>9. ASSUME ~raced', AllListed PROVE AllListed'
    <3>1. runners[i].at # "starting"
      BY <2>1, <2>9
    <3>2. \A j \in Ids : runners'[j].at \in {runners[j].at, "stopping"}
      BY <2>4, <3>1
    <3>3. \A j \in Ids : ~RunnerGone(j) /\ Listed(j) => Listed(j)'
      BY <1>1, <2>4, SameCrewKeeps DEF FleetInv
    <3> QED BY <2>4, <2>9, <3>2, <3>3 DEF AllListed, SameCrew, RunnerGone
  <2>10. Quiet'
    BY <2>1, <2>8, <2>9 DEF FleetInv, Quiet
  <2> QED BY <2>6, <2>7, <2>8, <2>10 DEF FleetInv
<1> QED BY <1>5, <1>6

\* A stop is through: its entry goes, by name.  Unless there was a race, the name
\* is the runner's still.
LEMMA TakesOffInv ==
  ASSUME FleetInv, NEW p \in 1..MaxPolls, TakesOff(p) PROVE FleetInv'
<1> DEFINE list == polls[p].todo
           n == Head(list).name
           i == Head(list).i
<1>1. /\ p \in Reconciling /\ list # <<>> /\ UNCHANGED <<wanted, raced>>
      /\ polls[p] \in [at : {"stops", "waits"}, next : [Names -> AllVersions], todo : Seq(Doing)]
  BY PollAt DEF TakesOff, FleetInv, FleetTyped
<1>2. /\ list \in Seq(Doing) /\ Head(list) = list[1] /\ 1 \in 1..Len(list) /\ list[1] \in Doing
      /\ \A k \in 1..Len(Tail(list)) : k + 1 \in 1..Len(list) /\ Tail(list)[k] = list[k + 1]
  BY <1>1, ListTyped, TailOf DEF FleetInv
<1>3. n \in Names /\ i \in Ids
  BY <1>2 DEF Doing
<1>4. /\ entries' = [entries EXCEPT ![n] = NoRun]
      /\ runners' = IF runners[i].at = "starting stopped" THEN runners
                    ELSE [runners EXCEPT ![i] = NoRunner]
      /\ polls' = [polls EXCEPT ![p].at = "stops", ![p].todo = Tail(@)]
  BY DEF TakesOff, Unlisted
<1>5. polls' = [polls EXCEPT ![p] = [polls[p] EXCEPT !.at = "stops", !.todo = Tail(list)]]
  BY <1>1, <1>4 DEF FleetInv, FleetTyped
<1>6. /\ polls' \in [1..MaxPolls -> Poll] /\ polls'[p].todo = Tail(list)
      /\ \A q \in 1..MaxPolls : polls'[q].at = "waits" => polls'[q].todo # <<>>
      /\ \A q \in Reconciling \ {p} : polls'[q] = polls[q]
      /\ Reconciling' = Reconciling
  BY <1>1, <1>5, PollGoesOn DEF FleetInv
<1>7. /\ entries' \in [Names -> Ids \cup {NoRun}] /\ entries'[n] = NoRun
      /\ \A m \in Names \ {n} : entries'[m] = entries[m]
  BY <1>3, <1>4 DEF FleetInv, FleetTyped
<1>8. /\ runners' \in [Ids -> Runner]
      /\ \A j \in Ids \ {i} : runners'[j] = runners[j]
      /\ runners'[i] = runners[i] \/ runners'[i] = NoRunner
      /\ runners'[i] = NoRunner \/ runners[i].at = "starting stopped"
  <2>1. NoRunner \in Runner
    BY Zenon DEF Runner
  <2> QED BY <1>3, <1>4, <2>1 DEF FleetInv, FleetTyped
<1>9. FleetTyped'
  BY <1>1, <1>6, <1>7, <1>8 DEF FleetInv, FleetTyped
<1>10. EntriesOK'
  <2> SUFFICES ASSUME NEW m \in Names, entries'[m] # NoRun
               PROVE  runners'[entries'[m]].at # "gone" /\ runners'[entries'[m]].name = m
    BY DEF EntriesOK, RunnerGone
  <2>1. m # n /\ entries'[m] = entries[m] /\ entries[m] \in Ids
    BY <1>7 DEF FleetInv, FleetTyped
  <2>2. runners[entries[m]].at # "gone" /\ runners[entries[m]].name = m
    BY <2>1 DEF FleetInv, EntriesOK, RunnerGone
  <2>3. Named(list[1])
    BY <1>1, <1>2 DEF FleetInv, ListsOK
  <2>4. entries[m] # i
    BY <1>2, <2>1, <2>2, <2>3 DEF Named, RunnerGone
  <2> QED BY <1>8, <2>1, <2>2, <2>4
<1>11. ListsOK'
  <2>1. ASSUME NEW x \in Doing, Named(x) PROVE Named(x)'
    <3>1. x.i \in Ids /\ (runners'[x.i] = runners[x.i] \/ runners'[x.i] = NoRunner)
      BY <1>8 DEF Doing
    <3>2. NoRunner.at = "gone"
      BY DEF NoRunner
    <3> QED BY <2>1, <3>1, <3>2 DEF Named, RunnerGone
  <2> QED BY <1>1, <1>6, <2>1, RestHolds DEF FleetInv
<1>12. ASSUME ~raced PROVE Alone' /\ ListsHold' /\ AllListed'
  <2>1. Alone /\ ListsHold /\ AllListed /\ Reconciling' = {p}
    BY <1>1, <1>6, <1>12 DEF FleetInv, Quiet, Alone
  <2>2. /\ \A k \in 1..Len(list) : entries[list[k].name] = list[k].i
        /\ \A k, l \in 1..Len(list) : list[k].name = list[l].name => k = l
    BY <1>1, <2>1 DEF ListsHold
  <2>3. \A k \in 1..Len(Tail(list)) : entries'[Tail(list)[k].name] = Tail(list)[k].i
    <3> SUFFICES ASSUME NEW k \in 1..Len(Tail(list))
                 PROVE  entries'[list[k + 1].name] = list[k + 1].i
      BY <1>2
    <3>1. k + 1 \in 1..Len(list) /\ k + 1 # 1 /\ list[k + 1] \in Doing
      BY <1>2
    <3>2. list[k + 1].name # n
      BY <1>2, <2>2, <3>1
    <3> QED BY <1>7, <2>2, <3>1, <3>2 DEF Doing
  <2>4. \A k, l \in 1..Len(Tail(list)) : Tail(list)[k].name = Tail(list)[l].name => k = l
    <3> SUFFICES ASSUME NEW k \in 1..Len(Tail(list)), NEW l \in 1..Len(Tail(list)),
                        Tail(list)[k].name = Tail(list)[l].name
                 PROVE  k = l
      OBVIOUS
    <3>1. k + 1 = l + 1
      BY <1>2, <2>2
    <3> QED BY <3>1
  <2>5. ListsHold' /\ Alone'
    BY <1>6, <2>1, <2>3, <2>4 DEF ListsHold, Alone
  <2>6. AllListed'
    <3> SUFFICES ASSUME NEW j \in Ids, runners'[j].at # "gone"
                 PROVE  entries'[runners'[j].name] = j /\ runners'[j].at # "starting stopped"
      BY DEF AllListed, Listed, RunnerGone
    <3>1. j # i /\ runners'[j] = runners[j]
      <4>1. runners[i].at # "starting stopped"
        BY <1>3, <2>1 DEF AllListed, RunnerGone
      <4>2. runners'[i].at = "gone"
        <5>1. runners'[i] = NoRunner /\ NoRunner.at = "gone"
          BY <1>8, <4>1 DEF NoRunner
        <5> QED BY <5>1
      <4> QED BY <1>8, <4>2
    <3>2. entries[runners[j].name] = j /\ runners[j].at # "starting stopped"
      BY <2>1, <3>1 DEF AllListed, Listed, RunnerGone
    <3>3. runners[j].name \in Names
      BY <3>1, RunnerHere DEF FleetInv, RunnerGone
    <3>4. entries[n] = i
      BY <1>2, <2>2
    <3> QED BY <1>7, <3>1, <3>2, <3>3, <3>4
  <2> QED BY <2>5, <2>6
<1> QED BY <1>1, <1>9, <1>10, <1>11, <1>12 DEF FleetInv, Quiet

\* Who is missing is added, each as a runner that is nobody's.
LEMMA AddsInv ==
  ASSUME FleetInv, NEW p \in 1..MaxPolls, Adds(p) PROVE FleetInv'
<1>1. /\ p \in Reconciling /\ polls[p].todo = <<>> /\ UNCHANGED <<wanted, raced>>
      /\ polls[p].next \in [Names -> AllVersions]
      /\ polls' = [polls EXCEPT ![p] = NotPolling]
  BY PollAt DEF Adds, FleetInv
<1>2. PICK id \in Injection(Missing(p), {i \in Ids : FreeId(i)}) :
        /\ entries' = [n \in Names |-> IF n \in Missing(p) THEN id[n] ELSE entries[n]]
        /\ runners' = [i \in Ids |-> IF \E n \in Missing(p) : id[n] = i
             THEN LET n == CHOOSE n \in Missing(p) : id[n] = i IN
                  [at |-> "starting", name |-> n, version |-> polls[p].next[n]]
             ELSE runners[i]]
  BY DEF Adds
<1>3. /\ Missing(p) \subseteq Names /\ \A n \in Names : n \notin Missing(p) /\ entries[n] = NoRun
                                                           => polls[p].next[n] = Away
      /\ \A n \in Missing(p) : entries[n] = NoRun
  BY DEF Missing
<1>4. /\ \A n \in Missing(p) : id[n] \in Ids /\ FreeId(id[n])
      /\ \A n, m \in Missing(p) : id[n] = id[m] => n = m
  BY <1>2 DEF Injection, IsInjective
<1>5. \A n \in Missing(p) :
        runners'[id[n]] = [at |-> "starting", name |-> n, version |-> polls[p].next[n]]
  <2> SUFFICES ASSUME NEW n \in Missing(p)
               PROVE  runners'[id[n]] = [at |-> "starting", name |-> n, version |-> polls[p].next[n]]
    OBVIOUS
  <2>1. (CHOOSE m \in Missing(p) : id[m] = id[n]) = n
    BY <1>4
  <2> QED BY <1>2, <1>4, <2>1
<1>6. \A i \in Ids : i \notin {id[n] : n \in Missing(p)} => runners'[i] = runners[i]
  BY <1>2
<1>7. \A n \in Names : entries'[n] = IF n \in Missing(p) THEN id[n] ELSE entries[n]
  BY <1>2
<1>8. runners' \in [Ids -> Runner] /\ entries' \in [Names -> Ids \cup {NoRun}]
  <2>1. \A i \in Ids : runners'[i] \in Runner
    <3> SUFFICES ASSUME NEW i \in Ids PROVE runners'[i] \in Runner
      OBVIOUS
    <3>1. CASE i \notin {id[n] : n \in Missing(p)}
      BY <1>6, <3>1 DEF FleetInv, FleetTyped
    <3>2. ASSUME NEW n \in Missing(p), id[n] = i PROVE runners'[i] \in Runner
      <4>1. polls[p].next[n] \in AllVersions /\ n \in Names
        BY <1>1, <1>3
      <4>2. [at |-> "starting", name |-> n, version |-> polls[p].next[n]]
              \in [at : {"starting", "starting stopped", "up", "failed", "stopping"},
                   name : Names, version : AllVersions]
        BY <4>1
      <4> QED BY <1>5, <3>2, <4>2 DEF Runner
    <3> QED BY <3>1, <3>2
  <2>2. \A n \in Names : entries'[n] \in Ids \cup {NoRun}
    BY <1>4, <1>7 DEF FleetInv, FleetTyped
  <2> QED BY <1>2, <2>1, <2>2
<1>9. /\ polls' \in [1..MaxPolls -> Poll] /\ polls'[p] = NotPolling
      /\ \A q \in 1..MaxPolls \ {p} : polls'[q] = polls[q]
      /\ DOMAIN polls = 1..MaxPolls /\ DOMAIN polls' = 1..MaxPolls
  <2>1. NotPolling \in Poll
    BY Zenon DEF Poll
  <2> QED BY <1>1, <2>1 DEF FleetInv, FleetTyped
<1>10. FleetTyped'
  <2>1. \A q \in 1..MaxPolls : polls'[q].at = "waits" => polls'[q].todo # <<>>
    BY <1>9 DEF FleetInv, FleetTyped, NotPolling
  <2> QED BY <1>1, <1>8, <1>9, <2>1 DEF FleetInv, FleetTyped
<1>11. Reconciling' = Reconciling \ {p} /\ \A q \in Reconciling' : polls'[q] = polls[q]
  BY <1>9 DEF Reconciling, NotPolling
<1>12. EntriesOK'
  <2> SUFFICES ASSUME NEW n \in Names, entries'[n] # NoRun
               PROVE  runners'[entries'[n]].at # "gone" /\ runners'[entries'[n]].name = n
    BY DEF EntriesOK, RunnerGone
  <2>1. CASE n \in Missing(p)
    <3>1. runners'[id[n]] = [at |-> "starting", name |-> n, version |-> polls[p].next[n]]
      BY <1>5, <2>1
    <3>2. entries'[n] = id[n]
      BY <1>7, <2>1
    <3>3. runners'[id[n]].at = "starting" /\ runners'[id[n]].name = n
      BY <3>1
    <3> QED BY <3>2, <3>3
  <2>2. CASE n \notin Missing(p)
    <3>1. entries'[n] = entries[n] /\ entries[n] \in Ids
      BY <1>7, <2>2 DEF FleetInv, FleetTyped
    <3>2. runners[entries[n]].at # "gone" /\ runners[entries[n]].name = n
      BY <3>1 DEF FleetInv, EntriesOK, RunnerGone
    <3>3. entries[n] \notin {id[m] : m \in Missing(p)}
      BY <1>4, <3>2 DEF FreeId, RunnerGone
    <3> QED BY <1>6, <3>1, <3>2, <3>3
  <2> QED BY <2>1, <2>2
<1>13. ListsOK'
  <2> SUFFICES ASSUME NEW q \in Reconciling', NEW k \in 1..Len(polls'[q].todo)
               PROVE  Named(polls[q].todo[k])'
    BY DEF ListsOK
  <2>1. q \in Reconciling /\ polls'[q].todo = polls[q].todo
    BY <1>11
  <2>2. polls[q].todo[k] \in Doing /\ Named(polls[q].todo[k]) /\ DOMAIN polls[q].todo = 1..Len(polls[q].todo)
    BY <2>1, ListTyped DEF FleetInv, ListsOK
  <2>3. polls[q].todo[k].i \notin {id[n] : n \in Missing(p)}
    <3> SUFFICES ASSUME NEW n \in Missing(p), id[n] = polls[q].todo[k].i PROVE FALSE
      OBVIOUS
    <3>1. FreeId(id[n])
      BY <1>4
    <3>2. \A r \in Reconciling : \A l \in DOMAIN polls[r].todo : polls[r].todo[l].i # id[n]
      BY <3>1 DEF FreeId
    <3>3. k \in DOMAIN polls[q].todo
      BY <2>1, <2>2
    <3> QED BY <2>1, <3>2, <3>3
  <2>4. runners'[polls[q].todo[k].i] = runners[polls[q].todo[k].i]
    BY <1>6, <2>2, <2>3 DEF Doing
  <2> QED BY <2>1, <2>2, <2>4 DEF Named, RunnerGone
<1>14. ASSUME ~raced PROVE Alone' /\ ListsHold' /\ AllListed'
  <2>1. AllListed /\ Reconciling' = {}
    BY <1>1, <1>11, <1>14 DEF FleetInv, Quiet, Alone
  <2>2. AllListed'
    <3> SUFFICES ASSUME NEW j \in Ids, runners'[j].at # "gone"
                 PROVE  entries'[runners'[j].name] = j /\ runners'[j].at # "starting stopped"
      BY DEF AllListed, Listed, RunnerGone
    <3>1. ASSUME NEW n \in Missing(p), id[n] = j
          PROVE  entries'[runners'[j].name] = j /\ runners'[j].at # "starting stopped"
      <4>1. runners'[j] = [at |-> "starting", name |-> n, version |-> polls[p].next[n]]
        BY <1>5, <3>1
      <4>2. entries'[n] = j /\ n \in Names
        BY <1>3, <1>7, <3>1
      <4> QED BY <4>1, <4>2
    <3>2. CASE j \notin {id[n] : n \in Missing(p)}
      <4>1. runners'[j] = runners[j]
        BY <1>6, <3>2
      <4>2. entries[runners[j].name] = j /\ runners[j].at # "starting stopped"
        BY <2>1, <4>1 DEF AllListed, Listed, RunnerGone
      <4>3. runners[j].name \in Names
        BY <4>1, RunnerHere DEF FleetInv, RunnerGone
      <4>4. runners[j].name \notin Missing(p)
        <5>1. j # NoRun
          BY DEF NoRun, Ids
        <5> QED BY <1>3, <4>2, <5>1
      <4> QED BY <1>7, <4>1, <4>2, <4>3, <4>4
    <3> QED BY <3>1, <3>2
  <2> QED BY <2>1, <2>2 DEF Alone, ListsHold
<1> QED BY <1>1, <1>10, <1>12, <1>13, <1>14 DEF FleetInv, Quiet

LEMMA FleetNextInv == FleetInv /\ [FleetNext]_fleetVars => FleetInv'
<1> SUFFICES ASSUME FleetInv, [FleetNext]_fleetVars PROVE FleetInv'
  OBVIOUS
<1>1. CASE UNCHANGED fleetVars
  <2>1. UNCHANGED <<wanted, entries, runners, polls, raced>> /\ Reconciling' = Reconciling
    BY <1>1 DEF fleetVars, Reconciling
  <2>2. FleetTyped' /\ EntriesOK'
    BY <2>1 DEF FleetInv, FleetTyped, EntriesOK, RunnerGone
  <2>3. ListsOK'
    BY <2>1 DEF FleetInv, ListsOK, Named, RunnerGone
  <2>4. (Alone => Alone') /\ (ListsHold => ListsHold') /\ (AllListed => AllListed')
    BY <2>1 DEF Alone, ListsHold, AllListed, Listed, RunnerGone
  <2> QED BY <2>1, <2>2, <2>3, <2>4 DEF FleetInv, Quiet
<1>2. DOMAIN polls = 1..MaxPolls
  BY DEF FleetInv, FleetTyped
<1> QED BY <1>1, <1>2, AsksInv, BeginsInv, ConsidersInv, TakesOffInv, AddsInv, RunnerStartsInv,
           SurvivesInv, EditsInv DEF FleetNext, Reconciles

LEMMA FleetSpecInv == FleetSpec => []FleetInv
BY FleetInitInv, FleetNextInv, PTL DEF FleetSpec

\* Every entry is a runner of that name, and every poll is somewhere on its way.
THEOREM FleetIsTyped == FleetSpec => []FleetTypeOK
<1>1. FleetInv => FleetTypeOK
  <2> SUFFICES ASSUME FleetInv PROVE FleetTypeOK
    OBVIOUS
  <2>1. ASSUME NEW i \in Ids
        PROVE  runners[i].at \in {"starting", "starting stopped", "up", "failed", "stopping", "gone"}
    BY RunnerHere DEF FleetInv, RunnerGone
  <2>2. ASSUME NEW q \in 1..MaxPolls PROVE polls[q].at \in {"idle", "answered", "stops", "waits"}
    <3>1. CASE polls[q] = NotPolling
      BY <3>1 DEF NotPolling
    <3>2. CASE polls[q] \in [at : {"answered"}, next : [Names -> AllVersions]]
      BY <3>2
    <3>3. CASE polls[q] \in
                 [at : {"stops", "waits"}, next : [Names -> AllVersions], todo : Seq(Doing)]
      BY <3>3
    <3>4. polls[q] \in Poll
      BY DEF FleetInv, FleetTyped
    <3> QED BY <3>1, <3>2, <3>3, <3>4, Zenon DEF Poll
  <2> QED BY <2>1, <2>2 DEF FleetInv, FleetTyped, FleetTypeOK, EntriesOK
<1> QED BY <1>1, FleetSpecInv, PTL

\* Whoever is in the office from here is an entry, and so can be stopped from
\* here, unless two reconciles met or a stop met a start (supervisor.ts reconcile).
THEOREM NobodyIsOrphaned == FleetSpec => []NoneOrphaned
<1>1. FleetInv => NoneOrphaned
  BY DEF FleetInv, Quiet, AllListed, NoneOrphaned, Here, RunnerGone
<1> QED BY <1>1, FleetSpecInv, PTL

\* One agent is not run twice, with the same excuses.
THEOREM NobodyRunsTwice == FleetSpec => []OneEach
<1>1. FleetInv => OneEach
  BY DEF FleetInv, Quiet, AllListed, OneEach, Here, RunnerGone, Listed
<1> QED BY <1>1, FleetSpecInv, PTL
=============================================================================
