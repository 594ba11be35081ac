------------------------------ MODULE MCOffice ------------------------------
(* The office's desks, its routines and whom a line wakes, each with its own *)
(* fairness, in one run.  They share no state, so a behaviour is of one of  *)
(* them, which `part' says, and the run explores their sum and not their    *)
(* product.  The lines are an instance, the others are here under their own *)
(* names.                                                                   *)
EXTENDS Desks, Routines

CONSTANTS Channels, MaxHops, Earshot, Elsewhere, MaxLines, MaxLeaves

VARIABLES present, woke, turn, quota, part

talk == <<present, woke, turn, quota>>
all == <<vars, routinesVars, talk, part>>

T == INSTANCE Mentions WITH here <- present, left <- quota

OfficeInit ==
  /\ part \in {"desks", "diary", "talk"}
  /\ Init /\ RoutinesInit /\ T!Init
  /\ part # "diary" => agent.here /\ \A r \in Ids : rows[r] = NoRow

\* A step of one book leaves the others alone.
OfDesks(A) == part = "desks" /\ A /\ UNCHANGED <<routinesVars, talk, part>>
OfDiary(A) == part = "diary" /\ A /\ UNCHANGED <<vars, talk, part>>
OfTalk(A) == part = "talk" /\ A /\ UNCHANGED <<vars, routinesVars, part>>

OfficeNext == OfDesks(Next) \/ OfDiary(RoutinesNext) \/ OfTalk(T!Next)

\* The fairness of each module (its FairSpec or FairRoutines), of its own
\* behaviours.
OfficeSpec ==
  /\ OfficeInit /\ [][OfficeNext]_all
  /\ WF_all(OfDesks(BoardRead))
  /\ \A a \in Agents, i \in Slots :
       WF_all(OfDesks(Sweeps(a, i))) /\ WF_all(OfDesks(Arrives(a, i)))
  /\ \A b \in Begins :
       WF_all(OfDesks(TakesLate(b))) /\ WF_all(OfDesks(Written(b)))
  /\ \A m \in Rooms : WF_all(OfDiary(Tick(m)))
  /\ \A a \in Agents, p \in T!Places : WF_all(OfTalk(T!Ends(a, p)))

ChainEnds == T!ChainEnds

CronAndOnce == {[kind |-> "cron", n |-> 1], [kind |-> "once", n |-> 1]}
=============================================================================
