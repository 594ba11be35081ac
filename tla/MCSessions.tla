---------------------------- MODULE MCSessions ----------------------------
(* An agent's core memory and the sessions its worker tells it to, in one   *)
(* run.  They share no state, so a behaviour is of one of them, which `of'  *)
(* says, and the run explores their sum and not their product.              *)
EXTENDS Memory, WorkerSessions

CONSTANTS a, b

Times(some) == [k \in Happenings |-> IF k \in some THEN 1 ELSE 0]

\* A crash and a write by the owner; a reload and a change of root.
CrashOrReload ==
  {Times({"mode", "warm", "crash", "rotate", "owner", "fault"}),
   Times({"warm", "reload", "rotate", "move", "fault"})}

VARIABLE of

all == <<coreVars, vars, of>>

\* The roots are interchangeable: the agent may begin in the first.
BothInit ==
  /\ of \in {"memory", "sessions"} /\ CoreInit /\ Init /\ root = 1
  /\ of = "memory" => left["crash"] = 1

BothNext ==
  \/ of = "memory" /\ CoreNext /\ UNCHANGED <<vars, of>>
  \/ of = "sessions" /\ Next /\ UNCHANGED <<coreVars, of>>

BothSpec == BothInit /\ [][BothNext]_all
===========================================================================
