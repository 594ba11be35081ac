------------------------------ MODULE MCAlive ------------------------------
(* What must come in the end: a worker that keeps a runtime process, and    *)
(* the pages of a person whose socket drops, each with its own fairness, in *)
(* one run.  They share no state, so a behaviour is of one of them, which   *)
(* `of' says, and the run explores their sum and not their product.  The    *)
(* worker is here under its own names, the pages are an instance.           *)
EXTENDS WorkerLife

CONSTANTS Tabs, MaxOpens, MaxCuts, MaxFails, MaxWalks, MaxRestarts, MaxExpired

Budget(c, f, r, s) == [crash |-> c, refuse |-> f, reload |-> r, stop |-> s]
LimitSafety == Budget(2, 1, 2, 1)
LimitFirstStart == Budget(1, 0, 0, 0)

VARIABLES page, seat, kept, was, allowed,
          of

pages == <<page, seat, kept, was, allowed>>
all == <<vars, pages, of>>

P == INSTANCE Presence WITH left <- allowed

AliveInit == of \in {"worker", "pages"} /\ Init /\ P!Init

\* A step of one leaves the other alone.
OfWorker(Step) == of = "worker" /\ Step /\ UNCHANGED <<pages, of>>
OfPages(Step) == of = "pages" /\ Step /\ UNCHANGED <<vars, of>>

AliveNext == OfWorker(Next) \/ OfPages(P!Next)

\* The fairness of each module (its FairSpec), of its own behaviours.
WorkerFairness ==
  /\ \A i \in Procs : /\ WF_all(OfWorker(Initialized(i) \/ StartFails(i)))
                      /\ WF_all(OfWorker(Killed(i))) /\ WF_all(OfWorker(Exit(i)))
  /\ WF_all(OfWorker(TurnRuns \/ TurnEnds))

PagesFairness ==
  /\ WF_all(OfPages(\E s \in P!Sessions : P!Drops(s)))
  /\ WF_all(OfPages(\E s \in P!Sessions : P!Expires(s)))
  /\ \A d \in Tabs :
       /\ WF_all(OfPages(P!Settles(d))) /\ WF_all(OfPages(P!Notices(d)))
       /\ WF_all(OfPages(P!Tries(d))) /\ SF_all(OfPages(P!Closes(d)))

AliveSpec == AliveInit /\ [][AliveNext]_all /\ WorkerFairness /\ PagesFairness

EverybodyComesBack == P!EverybodyComesBack
SeatsAreGivenUp == P!SeatsAreGivenUp
=============================================================================
