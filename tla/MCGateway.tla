----------------------------- MODULE MCGateway -----------------------------
(* An agent's connection to the office, and the turn loop that speaks over  *)
(* one, each with its own fairness, in one run.  They share no state, so a  *)
(* behaviour is of one of them, which `of' says, and the run explores their *)
(* sum and not their product.  The gateway is here under its own names, the *)
(* turn loop is an instance.                                                *)
EXTENDS Gateway

CONSTANTS w1, s1, s2, Scopes, BanterScopes, Pool, NoTurn,
          MaxLive, MaxBatch, MaxAttempts, MaxMsgs

\* Of the turn loop: a runtime that dies and a reload.
FaultAndReload == [fault |-> 1, cancel |-> 0, reload |-> 1, drop |-> 0, stop |-> 0]

VARIABLES
  queue, ahead, inFlight, turns, status, restarts, steer, activity, pending,
  reloading, refused, refusalSaid, gw, stopping, attempt, sent, rest, asked, told,
  excused, shown, midTurn,
  of

loop == <<queue, ahead, inFlight, turns, status, restarts, steer, activity, pending,
          reloading, refused, refusalSaid, gw, stopping, attempt, sent, rest, asked, told,
          excused, shown, midTurn>>
all == <<vars, loop, of>>

L == INSTANCE TurnLoop WITH Workers <- Pool, Limit <- FaultAndReload, left <- rest

\* A step of one leaves the other alone.
OfGateway(Step) == of = "gateway" /\ Step /\ UNCHANGED <<loop, of>>
OfLoop(Step) == of = "loop" /\ Step /\ UNCHANGED <<vars, of>>

\* The workers of the loop are interchangeable: the first that is up may be w1.
BothInit == of \in {"gateway", "loop"} /\ Init /\ L!Init /\ status[w1] = "up"
BothNext == OfGateway(Next) \/ OfLoop(L!Next)

\* The fairness of each module (its FairSpec), of its own behaviours.
GatewayFairness ==
  /\ WF_all(OfGateway(Wakes)) /\ WF_all(OfGateway(Leaves))
  /\ WF_all(OfGateway(\E c \in DOMAIN clients : Joins(c) \/ Refuses(c)))
  /\ WF_all(OfGateway(\E c \in DOMAIN clients : Readies(c) \/ TimesOut(c)))

LoopFairness ==
  /\ \A w \in Pool :
       /\ WF_all(OfLoop(L!Begin(w) \/ L!BeginNothing(w) \/ L!BeginFails(w)))
       /\ WF_all(OfLoop(L!Primed(w) /\ L!Prompt(w)))
       /\ WF_all(OfLoop(L!Lost(w) /\ L!OpenFails(w)))
       /\ WF_all(OfLoop(L!Stall(w)))
       /\ WF_all(OfLoop(L!Lost(w) /\ L!PromptFails(w)))
       /\ WF_all(OfLoop(L!StartOk(w)))
       /\ WF_all(OfLoop(L!Opened(w) \/ L!Prompt(w)))
       /\ WF_all(OfLoop(L!StopSent(w) /\ L!Answer(w)))
  /\ WF_all(OfLoop(L!Redial)) /\ WF_all(OfLoop(L!Rejoined))

BothSpec == BothInit /\ [][BothNext]_all /\ GatewayFairness /\ LoopFairness

EveryoneIsAnswered == L!EveryoneIsAnswered
=============================================================================
