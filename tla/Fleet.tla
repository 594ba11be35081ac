-------------------------------- MODULE Fleet --------------------------------
(***************************************************************************)
(* The supervisor and its polls (supervisor.ts; cli.ts, up).               *)
(*                                                                         *)
(* Every FLEET_POLL_MS the office is asked which agents this machine runs, *)
(* and each answer is reconciled with what runs: first everyone removed or *)
(* changed is stopped, one after the other and each stop awaited, then who *)
(* is missing is added and started.  Nothing keeps two polls apart, so two *)
(* reconciles may be under way, and one begun later may hold an older      *)
(* answer.  The supervisor knows its agents by name.                       *)
(*                                                                         *)
(* Abstracted: what a configuration holds (a version of it: sameAgent),    *)
(* the reports of the machine, down() (the process ends with it), and a    *)
(* runner's inside (see Gateway, WorkerLife, TurnLoop): a start may fail,  *)
(* and one met by a stop may go on all the same.                           *)
(***************************************************************************)
EXTENDS Integers, Sequences, FiniteSets, SequencesExt, Functions

CONSTANTS
  Names,      \* agents of the office
  Versions,   \* per name: the configurations it may have
  MaxPolls,   \* bound: polls under way at a time
  MaxChanges, \* bound: edits of the fleet in the office, failed starts and fetches,
              \* starts that survive their stop
  MaxRunners  \* bound: runners at a time

ASSUME FleetAssumption == IsFiniteSet(Names) /\ MaxPolls \in Nat /\ MaxRunners \in Nat

Away == "not in the fleet"
NoRun == 0
Ids == 1..MaxRunners

VARIABLES
  wanted,  \* what the office would answer now, per name
  entries, \* the supervisor's agents: per name the runner, or none
  runners, \* the runners made: whose, how configured, where each stands
  polls,   \* polls and their reconciles, by the order they were asked
  raced,   \* ghost: two reconciles were under way, or a start met a stop
  edits    \* bound

fleetVars == <<wanted, entries, runners, polls, raced, edits>>

AllVersions == {Away} \cup UNION {Versions[n] : n \in Names}
NotPolling == [at |-> "idle"]
Listed(i) == entries[runners[i].name] = i

\* The office's first answer is the same reconcile with nobody there.
NoRunner == [at |-> "gone"]
FleetInit ==
  /\ wanted = [n \in Names |-> Away]
  /\ entries = [n \in Names |-> NoRun] /\ runners = [i \in Ids |-> NoRunner]
  /\ polls = [p \in 1..MaxPolls |-> NotPolling]
  /\ raced = FALSE /\ edits = MaxChanges

SpendEdit == edits > 0 /\ edits' = edits - 1
Reconciling == {p \in DOMAIN polls : polls[p].at \in {"stops", "waits"}}
RunnerGone(i) == runners[i].at = "gone"
\* A runner that is gone and that no reconcile still holds: its number is free.
FreeId(i) ==
  /\ RunnerGone(i) /\ \A n \in Names : entries[n] # i
  /\ \A p \in Reconciling : \A k \in DOMAIN polls[p].todo : polls[p].todo[k].i # i

-----------------------------------------------------------------------------
(* A poll and its reconcile.                                               *)

\* The office reads its fleet for a poll; the answer is on its way.
Polls(p) ==
  /\ polls[p] = NotPolling
  /\ polls' = [polls EXCEPT ![p] = [at |-> "answered", next |-> wanted]]
  /\ UNCHANGED <<wanted, entries, runners, raced, edits>>

\* The fetch fails, and the tick with it.
Misses(p) ==
  /\ polls[p].at = "answered" /\ SpendEdit /\ polls' = [polls EXCEPT ![p] = NotPolling]
  /\ UNCHANGED <<wanted, entries, runners, raced>>

\* reconcile begins with the entries there are.
BeginsReconcile(p) ==
  /\ polls[p].at = "answered"
  /\ polls' = [polls EXCEPT ![p] =
       [at |-> "stops", next |-> polls[p].next,
        todo |-> SetToSeq({[name |-> n, i |-> entries[n], config |-> runners[entries[n]].version]
                           : n \in {n \in Names : entries[n] # NoRun}})]]
  /\ raced' = (raced \/ Reconciling # {})
  /\ UNCHANGED <<wanted, entries, runners, edits>>

\* Mutant: only who left the fleet is stopped.
OnlyRemoved(p, e) == polls[p].next[e.name] # Away
\* sameAgent
Unchanged(p, e) == polls[p].next[e.name] = e.config

Stopped(i) == [runners EXCEPT ![i].at = IF @ = "starting" THEN "starting stopped" ELSE "stopping"]

\* The next entry: left alone, or stopped.
Considers(p) ==
  /\ polls[p].at = "stops" /\ polls[p].todo # <<>>
  /\ LET i == Head(polls[p].todo).i IN
     IF Unchanged(p, Head(polls[p].todo))
     THEN polls' = [polls EXCEPT ![p].todo = Tail(@)] /\ UNCHANGED <<runners, raced>>
     ELSE /\ polls' = [polls EXCEPT ![p].at = "waits"]
          /\ runners' = IF RunnerGone(i) THEN runners ELSE Stopped(i)
          /\ raced' = (raced \/ runners[i].at = "starting")
  /\ UNCHANGED <<wanted, entries, edits>>

\* entries.delete(name)
Unlisted(n) == [entries EXCEPT ![n] = NoRun]

\* ... its stop is through, however it went, and the name is free.
TakesOff(p) ==
  /\ polls[p].at = "waits"
  /\ LET n == Head(polls[p].todo).name
         i == Head(polls[p].todo).i IN
       /\ runners' = IF runners[i].at = "starting stopped" THEN runners
                     ELSE [runners EXCEPT ![i] = NoRunner]
       /\ entries' = Unlisted(n)
  /\ polls' = [polls EXCEPT ![p].at = "stops", ![p].todo = Tail(@)]
  /\ UNCHANGED <<wanted, raced, edits>>

\* Mutant: everyone wanted is added, there or not.
AllWanted(p) == {n \in Names : polls[p].next[n] # Away}
Missing(p) == {n \in Names : polls[p].next[n] # Away /\ entries[n] = NoRun}

\* Who is missing is added, and all of them started.
Adds(p) ==
  /\ polls[p].at = "stops" /\ polls[p].todo = <<>>
  /\ \E id \in Injection(Missing(p), {i \in Ids : FreeId(i)}) :
       /\ \A n \in Missing(p) : \A i \in 1..id[n] - 1 : FreeId(i) => \E m \in Missing(p) : id[m] = i
       /\ entries' = [n \in Names |-> IF n \in Missing(p) THEN id[n] ELSE entries[n]]
       /\ runners' = [i \in Ids |-> IF \E n \in Missing(p) : id[n] = i
            THEN LET n == CHOOSE n \in Missing(p) : id[n] = i IN
                 [at |-> "starting", name |-> n, version |-> polls[p].next[n]]
            ELSE runners[i]]
  /\ polls' = [polls EXCEPT ![p] = NotPolling]
  /\ UNCHANGED <<wanted, raced, edits>>

-----------------------------------------------------------------------------
(* The runners, the office and the machine's owner.                        *)

\* start() is through.
ComesUp(i) ==
  /\ runners[i].at = "starting" /\ runners' = [runners EXCEPT ![i].at = "up"]
  /\ UNCHANGED <<wanted, entries, polls, raced, edits>>

\* ... or it fails, and that is noted (startError).
StartFails(i) ==
  /\ runners[i].at = "starting" /\ SpendEdit
  /\ runners' = [runners EXCEPT ![i].at = "failed"]
  /\ UNCHANGED <<wanted, entries, polls, raced>>

\* A start that met a stop ends with it, or goes on: nothing in start() looks
\* whether stop() was called meanwhile.
Survives(i) ==
  /\ runners[i].at = "starting stopped"
  /\ \/ /\ runners' = [runners EXCEPT ![i] = IF Listed(i) THEN [@ EXCEPT !.at = "stopping"] ELSE NoRunner]
        /\ UNCHANGED edits
     \/ runners' = [runners EXCEPT ![i].at = "up"] /\ SpendEdit
  /\ UNCHANGED <<wanted, entries, polls, raced>>

\* The owner adds, changes or removes an agent in the office.
Edits(n, v) ==
  /\ SpendEdit /\ v \in Versions[n] \cup {Away} /\ wanted[n] # v /\ wanted' = [wanted EXCEPT ![n] = v]
  /\ UNCHANGED <<entries, runners, polls, raced>>

Reconciles(p) == BeginsReconcile(p) \/ Considers(p) \/ TakesOff(p) \/ Adds(p)
FleetNext ==
  \/ \E p \in DOMAIN polls : Polls(p) \/ Misses(p) \/ Reconciles(p)
  \/ \E i \in Ids : ComesUp(i) \/ StartFails(i) \/ Survives(i)
  \/ \E n \in Names, v \in AllVersions : Edits(n, v)

FleetSpec == FleetInit /\ [][FleetNext]_fleetVars
\* The timer fires, the office answers, and every stop and start gets through.
FairFleetSpec ==
  /\ FleetSpec
  /\ \A p \in 1..MaxPolls : WF_fleetVars(Polls(p)) /\ WF_fleetVars(Reconciles(p))
  /\ \A i \in Ids : WF_fleetVars(ComesUp(i) \/ Survives(i))

-----------------------------------------------------------------------------
(* Properties.                                                             *)

Here == {i \in Ids : runners[i].at = "up"}

\* Every entry is a runner of that name, and every poll is somewhere on its way.
FleetTypeOK ==
  /\ wanted \in [Names -> AllVersions] /\ raced \in BOOLEAN
  /\ \A n \in Names : entries[n] # NoRun => ~RunnerGone(entries[n]) /\ runners[entries[n]].name = n
  /\ \A i \in Ids : runners[i].at \in
       {"starting", "starting stopped", "up", "failed", "stopping", "gone"}
  /\ \A p \in DOMAIN polls : polls[p].at \in {"idle", "answered", "stops", "waits"}

\* Whoever is in the office from here can be stopped from here: a runner that is
\* up is an entry.  It takes two reconciles at a time, or a stop that met a
\* start, to lose one (reconcile deletes by name).
NoneOrphaned == ~raced => \A i \in Here : Listed(i)

\* One agent is not run twice.
OneEach == ~raced => \A i, j \in Here : runners[i].name = runners[j].name => i = j

InAgreement(n) == IF wanted[n] = Away THEN entries[n] = NoRun
             ELSE entries[n] # NoRun /\ runners[entries[n]].version = wanted[n]

\* Once the office's list rests, the supervisor's comes to be the same, though
\* reconciles overlap and hold old answers.
InLine == \A n \in Names, v \in AllVersions :
  <>[](wanted[n] = v) => <>[]InAgreement(n)

\* The same two without what excuses them.
StopsWhoeverRuns == \A i \in Here : Listed(i)
NeverTwice == \A i, j \in Here : runners[i].name = runners[j].name => i = j
=============================================================================
