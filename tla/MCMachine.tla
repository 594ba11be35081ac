----------------------------- MODULE MCMachine -----------------------------
(* An agent's tasks, the ledger the office keeps of them and the fleet of  *)
(* its machine, each with its own fairness, in one run.  They share no     *)
(* state, so a behaviour is of one of them, which `part' says, and the run *)
(* explores their sum and not their product.                               *)
EXTENDS Tasks, Ledger, Fleet

CONSTANTS ada, bob, v1, v2

\* One agent may be changed, one may not.
OneChanges == [n \in {ada, bob} |-> IF n = ada THEN {v1, v2} ELSE {v1}]

VARIABLE part

all == <<vars, fleetVars, ledgerVars, part>>

MachineInit ==
  /\ part \in {"tasks", "fleet", "ledger"}
  /\ Init /\ FleetInit /\ LedgerInit
  /\ part # "ledger" => \A n \in Notes : notes[n].whose = "none"

\* A step of one part leaves the others alone.
OfTasks(A) == part = "tasks" /\ A /\ UNCHANGED <<fleetVars, ledgerVars, part>>
OfFleet(A) == part = "fleet" /\ A /\ UNCHANGED <<vars, ledgerVars, part>>
OfLedger(A) == part = "ledger" /\ A /\ UNCHANGED <<vars, fleetVars, part>>

MachineNext == OfTasks(Next) \/ OfFleet(FleetNext) \/ OfLedger(LedgerNext)

\* The fairness of each module (its FairSpec), of its own behaviours.
MachineSpec ==
  /\ MachineInit /\ [][MachineNext]_all
  /\ WF_all(OfTasks(\E i \in 1..Len(queue) : Op(i)))
  /\ WF_all(OfTasks(Looks)) /\ SF_all(OfTasks(Hears)) /\ WF_all(OfTasks(HearsNothing))
  /\ \A p \in 1..MaxPolls :
       WF_all(OfFleet(Polls(p))) /\ WF_all(OfFleet(Reconciles(p)))
  /\ \A i \in 1..MaxRunners : WF_all(OfFleet(ComesUp(i) \/ Survives(i)))
  /\ WF_all(OfLedger(Watches))
  /\ \A h \in Handlers : WF_all(OfLedger(Handles(h)))
=============================================================================
