------------------------------ MODULE Routines ------------------------------
(***************************************************************************)
(* Routines: standing requests on one agent that the office speaks when    *)
(* they are due (OfficeRoom.ts, #tickRoutines to #fireRoutine; db/         *)
(* routines.ts; rooms/routine-brief.ts).                                   *)
(*                                                                         *)
(* Several rooms of one office tick over one database.  A tick is a chain  *)
(* of awaits: every read, claim and settle is a step of its own, and other *)
(* rooms, the clock, the agent and the owner's edits (which read a row,    *)
(* check it and write it back) move in between.  A room may stop at any    *)
(* step and start again with nothing in memory; a read or write may fail.  *)
(*                                                                         *)
(* A schedule is what nextRoutineDue makes of it: a cron is every k        *)
(* moments, once is one moment.  Abstracted: names, words and briefs,      *)
(* lastRunAt, who may manage a routine, other agents.                      *)
(***************************************************************************)
EXTENDS Integers, Sequences, FiniteSets, Functions

CONSTANTS
  Rooms,        \* rooms of the one office
  Ids,          \* the agent's routines that are ever made
  Names,        \* the names they may be given
  PerAgent,     \* ROUTINES_PER_AGENT_MAX
  Editors,      \* Settings and the agents' tools: each has one write under way
  Schedules,    \* schedules a routine may be given
  Horizon,      \* bound: the last moment
  MaxMishaps    \* bound: edits, ticks cut short and moves of the agent, in all

Never == 0
DueMoments == 1..Horizon

ASSUME NamesAssumption == Names \cap {"unmade", "gone"} = {}
ASSUME HorizonAssumption == Horizon \in Nat

VARIABLES
  clock,
  rows,     \* the routines table
  runs,     \* routine_runs: what came of each slot, "none" where there is no row
  tick,     \* per room: where its tick stands, and what it has read
  edits,    \* per editor: the write under way
  agent,    \* is it in the room, on a turn in the DM, and has the DM a door
  spoken,   \* ghost: per routine, the slots spoken, in the order they were
  heard,    \* ghost: those of them the agent was there for
  mishaps   \* bound

routinesVars == <<clock, rows, runs, tick, edits, agent, spoken, heard, mishaps>>

NoRow == [name |-> "unmade", sched |-> [kind |-> "once", n |-> 1], next |-> Never,
          paused |-> TRUE, words |-> "none"]
Gone == [NoRow EXCEPT !.name = "gone"]         \* an id is made once
Kept == {r \in Ids : rows[r] \notin {NoRow, Gone}}
Idle == [at |-> "idle"]
Outcomes == {"none", "missed", "fired", "made_up", "skipped"}

Trouble == mishaps > 0 /\ mishaps' = mishaps - 1

\* nextRoutineDue
NextDue(s, after) == CASE s.kind = "cron" -> (after \div s.n + 1) * s.n
                       [] s.kind = "once" /\ s.n > after -> s.n
                       [] OTHER -> Never

RoutinesInit ==
  /\ clock = 0
  /\ \E made \in {{}, {CHOOSE r \in Ids : TRUE}}, n \in Names, s \in Schedules :
       rows = [r \in Ids |-> IF r \notin made THEN NoRow ELSE
                 [name |-> n, sched |-> s, next |-> NextDue(s, 0), paused |-> FALSE,
                  words |-> "command"]]
  /\ runs = [r \in Ids |-> [s \in DueMoments |-> "none"]]
  /\ tick = [m \in Rooms |-> Idle] /\ edits = [e \in Editors |-> Idle]
  /\ \E here \in BOOLEAN : agent = [here |-> here, busy |-> FALSE, door |-> TRUE]
  /\ spoken = [r \in Ids |-> <<>>] /\ heard = {}
  /\ mishaps = MaxMishaps

-----------------------------------------------------------------------------
(* A room's tick.                                                          *)

Doing(m, step) == tick[m].at = step
\* `now' is read once, when the tick begins.
At(m, step) == tick' = [tick EXCEPT ![m] = step]

\* listDueRoutines, each row as it stood
Due(now) == {r \in Kept : ~rows[r].paused /\ rows[r].next \in 1..now}
Listed(now) == {[r |-> r, slot |-> rows[r].next, sched |-> rows[r].sched] : r \in Due(now)}

\* What was listed is gone through by slot; the query leaves ties as they come.
Earliest(todo) == {one \in todo : \A x \in todo : one.slot <= x.slot}

\* #tickRoutines: one tick of a room at a time
TickBegins(m) ==
  /\ Doing(m, "idle")
  /\ At(m, [at |-> "due", now |-> clock, todo |-> Listed(clock)])
  /\ UNCHANGED <<clock, rows, runs, edits, agent, spoken, heard, mishaps>>

\* decideSlot.  With no door nothing is busy there.
Decision(a) == IF ~a.here THEN "missed"
               ELSE IF a.busy /\ a.door THEN "skipped" ELSE "fire"

\* #routineWhere for the next due routine
Looks(m) ==
  /\ Doing(m, "due")
  /\ \E one \in Earliest(tick[m].todo) :
       At(m, [at |-> "claim", now |-> tick[m].now, todo |-> tick[m].todo \ {one},
              one |-> one, door |-> agent.door, decided |-> Decision(agent)])
  /\ UNCHANGED <<clock, rows, runs, edits, agent, spoken, heard, mishaps>>

\* Mutant: the routine is moved wherever it stands.
AlwaysAdvanced(r, sched, slot) == [rows EXCEPT ![r].next = NextDue(sched, slot)]
Advanced(r, sched, slot) == IF rows[r].next = slot
                            THEN [rows EXCEPT ![r].next = NextDue(sched, slot)] ELSE rows

ToSettle(t, r, slot, door, as) ==
  [at |-> "settle", now |-> t.now, todo |-> t.todo,
   r |-> r, slot |-> slot, door |-> door, decided |-> as]

Wins(r, slot) == runs[r][slot] = "none"

\* claimRoutineRun: one transaction.  A routine deleted meanwhile fails it,
\* and with it the tick.
Claims(m) ==
  /\ Doing(m, "claim")
  /\ LET t == tick[m]
         r == t.one.r
         slot == t.one.slot IN
       IF r \notin Kept THEN At(m, Idle) /\ UNCHANGED <<rows, runs>>
       ELSE /\ rows' = Advanced(r, t.one.sched, slot)
            /\ runs' = IF runs[r][slot] # "none" THEN runs
                       ELSE [runs EXCEPT ![r][slot] =
                               IF t.decided = "fire" THEN "missed" ELSE t.decided]
            /\ At(m, IF Wins(r, slot) /\ t.decided = "fire"
                     THEN ToSettle(t, r, slot, t.door, "fired")
                     ELSE [at |-> "due", now |-> t.now, todo |-> t.todo])
  /\ UNCHANGED <<clock, edits, agent, spoken, heard, mishaps>>

Unsettled(r, slot) == runs[r][slot] = "missed"

Onward(t) == [at |-> IF t.decided = "fired" THEN "due" ELSE "missed",
              now |-> t.now, todo |-> t.todo]

\* Mutant: the line is spoken whether or not the settle landed.
SpeaksAnyway(won) == TRUE
MaySpeak(won) == won

\* settleRoutineRun in #fireRoutine: the run is put on record, and only the
\* room whose write lands goes on to speak; with no door it goes on to pause.
SettlesRun(m) ==
  /\ Doing(m, "settle")
  /\ LET t == tick[m]
         won == Unsettled(t.r, t.slot) IN
       /\ runs' = IF ~won THEN runs
                  ELSE [runs EXCEPT ![t.r][t.slot] =
                          IF t.door THEN t.decided ELSE "skipped"]
       /\ At(m, IF ~MaySpeak(won) THEN Onward(t)
                ELSE [t EXCEPT !.at = IF t.door THEN "speak" ELSE "pause"])
  /\ UNCHANGED <<clock, rows, edits, agent, spoken, heard, mishaps>>

\* #deliverChannelChat, then markRoutineRan.  An agent that is there begins a turn.
Speaks(m) ==
  /\ Doing(m, "speak")
  /\ LET t == tick[m] IN
       /\ spoken' = [spoken EXCEPT ![t.r] = Append(@, t.slot)]
       /\ heard' = IF agent.here THEN heard \cup {<<t.r, t.slot>>} ELSE heard
       /\ At(m, Onward(t))
  /\ agent' = IF agent.here THEN [agent EXCEPT !.busy = TRUE] ELSE agent
  /\ UNCHANGED <<clock, rows, runs, edits, mishaps>>

\* updateRoutine with `paused' alone: refused, and the tick with it, when the
\* routine is gone or its words are (its command was deleted).
Pauses(m) ==
  /\ Doing(m, "pause")
  /\ LET t == tick[m] IN
       IF rows[t.r].words = "none" THEN At(m, Idle) /\ UNCHANGED rows
       ELSE /\ rows' = [rows EXCEPT ![t.r].paused = TRUE, ![t.r].next = Never]
            /\ At(m, Onward(t))
  /\ UNCHANGED <<clock, runs, edits, agent, spoken, heard, mishaps>>

\* missedRoutineRuns: each routine's newest slot, where that was missed
Newest(r) == {s \in DueMoments : /\ runs[r][s] # "none"
                                 /\ \A u \in DueMoments : runs[r][u] # "none" => u <= s}
MissedRuns(r) == {s \in Newest(r) : runs[r][s] = "missed"}
Missed == {x \in [r : Ids, slot : DueMoments] : x.slot \in MissedRuns(x.r)}

ReadsMissed(m) ==
  /\ Doing(m, "due") /\ tick[m].todo = {}
  /\ At(m, [at |-> "missed", now |-> tick[m].now, todo |-> Missed])
  /\ UNCHANGED <<clock, rows, runs, edits, agent, spoken, heard, mishaps>>

\* Mutant: only a routine with no next slot is made up.
OnceOnly(row, now, a) == a.here /\ ~a.busy /\ row.next = Never
\* shouldMakeUp
MakesUp(row, now, a) == /\ a.here /\ ~(a.busy /\ a.door)
                        /\ (row.next = Never \/ row.next > now)

\* getRoutine and #routineWhere for the next missed run, and the tick's end
LooksAgain(m) ==
  /\ Doing(m, "missed")
  /\ \/ tick[m].todo = {} /\ At(m, Idle)
     \/ \E one \in Earliest(tick[m].todo) :
          LET rest == [tick[m] EXCEPT !.todo = @ \ {one}]
              row == rows[one.r] IN
          At(m, IF one.r \in Kept /\ ~row.paused /\ MakesUp(row, rest.now, agent)
                THEN ToSettle(rest, one.r, one.slot, agent.door, "made_up")
                ELSE rest)
  /\ UNCHANGED <<clock, rows, runs, edits, agent, spoken, heard, mishaps>>

\* A tick is cut short: the room stops and another is started in its place, or
\* a database call fails, or its answer is lost after it landed, and the tick
\* is caught, logged and over.
Breaks(m) ==
  /\ Trouble /\ ~Doing(m, "idle") /\ At(m, Idle)
  /\ UNCHANGED <<clock, rows, runs, edits, agent, spoken, heard>>

-----------------------------------------------------------------------------
(* Edits: each is checked against what it read, and written later.         *)

MayEdit(e) == edits[e] = Idle /\ Trouble
Quiet == UNCHANGED <<clock, runs, tick, agent, spoken, heard>>

\* createRoutine up to its insert: the name is free, the agent has room for it
ChecksNew(e, r, n, s, w) ==
  /\ MayEdit(e) /\ rows[r] = NoRow
  /\ \A f \in Editors : edits[f] # Idle => edits[f].r # r       \* newId
  /\ \A x \in Kept : rows[x].name # n
  /\ Cardinality(Kept) < PerAgent
  /\ edits' = [edits EXCEPT ![e] = [at |-> "create", r |-> r, row |->
       [name |-> n, sched |-> s, next |-> NextDue(s, clock), paused |-> FALSE, words |-> w]]]
  /\ Quiet /\ UNCHANGED rows

Inserts(e) ==
  /\ edits[e].at = "create"
  /\ rows' = [rows EXCEPT ![edits[e].r] = edits[e].row]
  /\ edits' = [edits EXCEPT ![e] = Idle]
  /\ Quiet /\ UNCHANGED mishaps

Pausing == {"paused", "resumed", "as it was"}
\* updateRoutine's patch: the due moment it will write, if it writes one
NewDue(how, s, row) ==
  LET sched == IF s = {} THEN row.sched ELSE CHOOSE x \in s : TRUE IN
  IF how = "paused" \/ (how = "as it was" /\ row.paused) THEN {Never}
  ELSE IF s # {} \/ how = "resumed" THEN {NextDue(sched, clock)} ELSE {}

\* updateRoutine up to its write: a new schedule or none ({}), a pause, a resume
\* or neither (then it is the name or the words that change).
ChecksChange(e, r, how, s) ==
  /\ MayEdit(e) /\ r \in Kept /\ rows[r].words # "none"
  /\ edits' = [edits EXCEPT ![e] =
       [at |-> "change", r |-> r, how |-> how, sched |-> s, due |-> NewDue(how, s, rows[r])]]
  /\ Quiet /\ UNCHANGED rows

\* The columns of the patch land; the others stay as they are by now.
Writes(e) ==
  /\ edits[e].at = "change"
  /\ LET c == edits[e] IN
     rows' = IF c.r \notin Kept THEN rows
             ELSE [rows EXCEPT ![c.r].paused = IF c.how = "as it was" THEN @ ELSE c.how = "paused",
                               ![c.r].sched = IF c.sched = {} THEN @ ELSE CHOOSE x \in c.sched : TRUE,
                               ![c.r].next = IF c.due = {} THEN @ ELSE CHOOSE x \in c.due : TRUE]
  /\ edits' = [edits EXCEPT ![e] = Idle]
  /\ Quiet /\ UNCHANGED mishaps

\* deleteRoutine: its runs go with it
Deletes(r) ==
  /\ Trouble /\ r \in Kept /\ rows' = [rows EXCEPT ![r] = Gone]
  /\ runs' = [runs EXCEPT ![r] = [s \in DueMoments |-> "none"]]
  /\ UNCHANGED <<clock, tick, edits, agent, spoken, heard>>

\* The office deletes the command a routine runs: the reference is set to null.
LosesCommand(r) ==
  /\ Trouble /\ r \in Kept /\ rows[r].words = "command"
  /\ rows' = [rows EXCEPT ![r].words = "none"]
  /\ Quiet /\ UNCHANGED edits

-----------------------------------------------------------------------------
(* The world.                                                              *)

Passes == /\ clock < Horizon /\ clock' = clock + 1
          /\ UNCHANGED <<rows, runs, tick, edits, agent, spoken, heard, mishaps>>

\* The agent joins, leaves, begins or ends a turn in the DM; the owner leaves
\* the office or comes back, the agent loses `dm' or is given it.
Moves(a) ==
  /\ Trouble /\ (a.busy => a.here)
  /\ \/ a.here # agent.here /\ ~a.busy /\ a.door = agent.door
     \/ a.busy # agent.busy /\ [a EXCEPT !.busy = agent.busy] = agent
     \/ a.door # agent.door /\ [a EXCEPT !.door = agent.door] = agent
  /\ agent' = a
  /\ UNCHANGED <<clock, rows, runs, tick, edits, spoken, heard>>

Tick(m) == \/ TickBegins(m) \/ Looks(m) \/ Claims(m) \/ SettlesRun(m) \/ Speaks(m)
           \/ Pauses(m) \/ ReadsMissed(m) \/ LooksAgain(m)

Edit(e) == \/ \E r \in Ids, n \in Names, s \in Schedules : ChecksNew(e, r, n, s, "own")
           \/ \E r \in Ids, how \in Pausing, s \in SUBSET Schedules :
                Cardinality(s) <= 1 /\ ChecksChange(e, r, how, s)
           \/ Inserts(e) \/ Writes(e)

RoutinesNext == \/ \E m \in Rooms : Tick(m) \/ Breaks(m)
        \/ \E e \in Editors : Edit(e)
        \/ \E r \in Ids : Deletes(r) \/ LosesCommand(r)
        \/ Passes
        \/ \E a \in [here : BOOLEAN, busy : BOOLEAN, door : BOOLEAN] : Moves(a)

RoutinesSpec == RoutinesInit /\ [][RoutinesNext]_routinesVars
\* Every room's interval timer fires and its reads and writes answer.
FairRoutines == RoutinesSpec /\ \A m \in Rooms : WF_routinesVars(Tick(m))

-----------------------------------------------------------------------------
(* Properties.                                                             *)

Row == [name : Names \cup {"unmade", "gone"}, sched : Schedules \cup {NoRow.sched},
        next : 0..2*Horizon, paused : BOOLEAN, words : {"own", "command", "none"}]

\* Every table holds what the code can have written to it.
RoutinesTypeOK ==
  /\ clock \in 0..Horizon /\ rows \in [Ids -> Row]
  /\ runs \in [Ids -> [DueMoments -> Outcomes]]
  /\ \A m \in Rooms : tick[m].at \in {"idle", "due", "claim", "settle", "speak", "pause", "missed"}
  /\ \A e \in Editors : edits[e].at \in {"idle", "create", "change"}
  /\ agent \in [here : BOOLEAN, busy : BOOLEAN, door : BOOLEAN]
  /\ heard \subseteq Ids \X DueMoments

SpokenSlots(r) == Range(spoken[r])

\* However many rooms tick, whatever they read before the others wrote, and
\* wherever one stops, a slot is spoken at most once, and only when its run
\* says so (claimRoutineRun, settleRoutineRun).
SpokenOnce ==
  \A r \in Ids : /\ IsInjective(spoken[r])
                 /\ r \in Kept => \A s \in SpokenSlots(r) : runs[r][s] \in {"fired", "made_up"}

\* A tick takes a routine past a slot only if the slot has its run: no slot is
\* lost between two rooms, one of them far behind (claimRoutineRun).
NoSlotSkipped ==
  [][\A r \in Kept : (/\ rows'[r] # Gone /\ ~rows'[r].paused /\ edits' = edits
                      /\ rows'[r].next # rows[r].next)
                     => rows[r].next \in {s \in DueMoments : runs'[r][s] # "none"}]_routinesVars

Standing(r, s) == r \in Kept /\ ~rows[r].paused /\ rows[r].next = s /\ s <= clock

\* A slot that is due is dealt with: the routine does not stand at it for ever,
\* even where an edit put it back at one whose run exists.
DueIsDealtWith == \A r \in Ids, s \in DueMoments : Standing(r, s) ~> ~Standing(r, s)

\* A missed slot that could be made up now: the newest, its agent here and
\* free, no later slot due.
CouldMakeUp(r, s) == /\ r \in Kept /\ ~rows[r].paused /\ s \in MissedRuns(r)
                     /\ agent.here /\ ~agent.busy
                     /\ rows[r].next \notin 1..clock

\* A missed slot is made up once the agent is back (shouldMakeUp): it does not
\* stay missed while nothing stands in its way.
MissedIsMadeUp == \A r \in Ids, s \in DueMoments : CouldMakeUp(r, s) ~> ~CouldMakeUp(r, s)

\* docs/ROUTINES.md:100-102: "nothing is ever on the record as fired that the
\* agent did not hear".
OnRecordIsHeard ==
  \A r \in Kept, s \in DueMoments : runs[r][s] \in {"fired", "made_up"} =>
    \/ <<r, s>> \in heard
    \/ \E m \in Rooms : Doing(m, "speak") /\ tick[m].r = r /\ tick[m].slot = s

\* db/routines.ts, updateRoutine: "Absent fields stay. A new schedule, or a
\* resume, sets the next due moment from now": a repeating routine that is not
\* paused is due some time.
ActiveIsDue ==
  \A r \in Kept : rows[r].sched.kind = "cron" /\ ~rows[r].paused => rows[r].next # Never

\* db/routines.ts, nameTaken: "two on one agent would leave "stop that" unable
\* to choose, and a retried create would schedule the work twice"; createRoutine:
\* "At most ROUTINES_PER_AGENT_MAX per agent".
OneOfAName == /\ \A x, y \in Kept : x # y => rows[x].name # rows[y].name
              /\ Cardinality(Kept) <= PerAgent
==============================================================================
