------------------------------- MODULE Desks --------------------------------
(***************************************************************************)
(* Who has which desk: the book of seats, the once-a-second sweep that     *)
(* sends agents to their chairs, the sessions that come and go, and a task *)
(* begun from the station, which reserves a desk across the awaits of the  *)
(* database (rooms/seating.ts; OfficeRoom.ts #onDeskBegin, #stepSeating,   *)
(* #joinAsAgent, onLeave, #removePlayer).                                  *)
(*                                                                         *)
(* An agent can be in the room on two sessions at once: a fresh one beside *)
(* one in its reconnection grace, or not yet noticed to be gone.           *)
(*                                                                         *)
(* Abstracted: tiles and routes (every chair can be walked to), the sit    *)
(* pose of an agent on a task with nothing running, walks that are not to  *)
(* or from a desk, the seat a body is shown at, the note, who may begin;   *)
(* every agent's key has the scope to move.                                *)
(***************************************************************************)
EXTENDS Naturals, FiniteSets

CONSTANTS
  Agents, Seats,
  Begins,      \* bound: tasks begun at once
  MaxSessions, \* bound: sessions in the room at once
  MaxFails     \* bound: database writes that fail

NoSeat == "no seat"
Floor  == "floor"
Slots  == 1 .. 2     \* the sessions one agent can be in the room on

VARIABLES
  sim,       \* [Agents -> [Slots -> a session, or Nobody]]
  held,      \* SeatBook.#held
  gone,      \* SeatBook.#leftAt: <<a, b>> if both are gone, a since no later than b
  begins,    \* the desk begins under way
  read,      \* the first read of the board has landed (#boardLoaded)
  fails      \* bound

vars == <<sim, held, gone, begins, read, fails>>
book == <<held, gone>>

Nobody  == [is |-> "nobody"]
Fresh(busy) == [is |-> "here", busy |-> busy, arranged |-> "stand",
                at |-> Floor, walk |-> NoSeat]
NoBegin == [pc |-> "none"]

Init ==
  /\ sim = [a \in Agents |-> [i \in Slots |-> Nobody]]
  /\ held = [a \in Agents |-> NoSeat] /\ gone = {}
  /\ begins = [b \in Begins |-> NoBegin]
  /\ read = FALSE /\ fails = MaxFails

HasSession(a) == \E i \in Slots : sim[a][i] # Nobody
Here(a, i)    == sim[a][i].is = "here"
HoldersOf(s)  == {a \in Agents : held[a] = s}
Free          == {s \in Seats : HoldersOf(s) = {}}

-----------------------------------------------------------------------------
(* The book.                                                               *)

Absent == {a \in Agents : <<a, a>> \in gone}

Without(as) == {p \in gone : p[1] \notin as /\ p[2] \notin as}

LongestGone == {a \in Absent : \A b \in Absent : <<a, b>> \in gone}

\* Mutant: the desk is given without being taken away.
GivesOnly(a, s) == held' = [held EXCEPT ![a] = s] /\ gone' = Without({a})

\* claim and reserve end the same way: a has s, whoever held it does not.
Take(a, s) ==
  /\ held' = [x \in Agents |-> IF x = a THEN s
                               ELSE IF held[x] = s THEN NoSeat ELSE held[x]]
  /\ gone' = Without({a} \cup HoldersOf(s))

\* claim: the desk kept, else one that is free (the code takes the first on
\* the map), else that of whoever has been gone longest.
Claimable(a) ==
  IF held[a] # NoSeat THEN {held[a]}
  ELSE IF Free # {} THEN Free
  ELSE {held[h] : h \in LongestGone}

Reservable(a, s) == \A h \in HoldersOf(s) \ {a} : h \in Absent

Release(a) ==
  /\ held' = [held EXCEPT ![a] = NoSeat] /\ gone' = Without({a})

-----------------------------------------------------------------------------
(* Sessions.                                                               *)

Sessions == {e \in Agents \X Slots : sim[e[1]][e[2]] # Nobody}

\* #joinAsAgent: at the door, with the status line that was kept; nothing
\* arranged is as good as standing
Joins(a) ==
  \E i \in Slots, busy \in BOOLEAN :
    /\ sim[a][i] = Nobody /\ Cardinality(Sessions) < MaxSessions
    /\ sim' = [sim EXCEPT ![a][i] = Fresh(busy)]
    /\ gone' = Without({a}) /\ UNCHANGED <<held, begins, read, fails>>

\* onLeave without consent: away, and standing still, for the grace
Drops(a, i) ==
  /\ Here(a, i)
  /\ sim' = [sim EXCEPT ![a][i].is = "away", ![a][i].walk = NoSeat]
  /\ UNCHANGED <<book, begins, read, fails>>

Resumes(a, i) ==
  /\ sim[a][i].is = "away" /\ sim' = [sim EXCEPT ![a][i].is = "here"]
  /\ UNCHANGED <<book, begins, read, fails>>

\* Mutant: the desk is up for taking when any session of its agent ends.
AnyOfIts(a, i) == TRUE
LastOfIts(a, i) == \A j \in Slots \ {i} : sim[a][j] = Nobody

\* #removePlayer: a consented leave, or a grace that ran out
Leaves(a, i) ==
  /\ sim[a][i] # Nobody
  /\ sim' = [sim EXCEPT ![a][i] = Nobody]
  /\ gone' = IF LastOfIts(a, i) /\ held[a] # NoSeat
             THEN Without({a}) \cup ((Absent \cup {a}) \X {a}) ELSE gone
  /\ UNCHANGED <<held, begins, read, fails>>

\* A turn starts or ends: the status line, as the harness sets it.
Turns(a, i) ==
  /\ Here(a, i) /\ sim' = [sim EXCEPT ![a][i].busy = ~@]
  /\ UNCHANGED <<book, begins, read, fails>>

-----------------------------------------------------------------------------
(* The sweep, one session at a time (the code does all of them in a tick). *)

AtSeat(a, i) == /\ held[a] # NoSeat /\ sim[a][i].at = held[a]
                /\ sim[a][i].walk = NoSeat

\* Mutant: a refusal is recorded as handled.
Handled(a, i) == "work"
Refused(a, i) == sim[a][i].arranged

\* Off the chair, or nothing: the body is left standing where it is.
Rises(a, i) ==
  /\ ~sim[a][i].busy
  /\ sim' = [sim EXCEPT ![a][i].arranged = "stand",
                        ![a][i].at = IF AtSeat(a, i) THEN Floor ELSE @]
  /\ UNCHANGED book

Asks(a, i) == sim[a][i].busy /\ sim[a][i].arranged # "work"

Settles(a, i) ==
  /\ Asks(a, i) /\ AtSeat(a, i)
  /\ sim' = [sim EXCEPT ![a][i].arranged = "work"]
  /\ UNCHANGED book

Walks(a, i) ==
  /\ Asks(a, i) /\ ~AtSeat(a, i)
  /\ \E s \in Claimable(a) :
       /\ Take(a, s)
       /\ sim' = [sim EXCEPT ![a][i].arranged = "work",
                             ![a][i].at = Floor, ![a][i].walk = s]

Waits(a, i) ==
  /\ Asks(a, i) /\ ~AtSeat(a, i) /\ Claimable(a) = {}
  /\ sim' = [sim EXCEPT ![a][i].arranged = Refused(a, i)]
  /\ UNCHANGED held /\ gone' = Without({a})

Sweeps(a, i) ==
  /\ Here(a, i)
  /\ Rises(a, i) \/ Settles(a, i) \/ Walks(a, i) \/ Waits(a, i)
  /\ UNCHANGED <<begins, read, fails>>

\* The end of a walk to a chair: it sits if that is its own.
Arrives(a, i) ==
  /\ Here(a, i) /\ sim[a][i].walk # NoSeat
  /\ sim' = [sim EXCEPT ![a][i].at = sim[a][i].walk, ![a][i].walk = NoSeat]
  /\ UNCHANGED <<book, begins, read, fails>>

-----------------------------------------------------------------------------
(* A task begun at a desk (#onDeskBegin).                                  *)

\* whyNotBegin, of a connected session
MayBegin(a, i) == Here(a, i) /\ ~sim[a][i].busy

\* The desk is taken for the agent, or refused.
Reserves(b, a, s) ==
  IF Reservable(a, s)
  THEN /\ Take(a, s)
       /\ begins' = [begins EXCEPT ![b] = [pc |-> "taken", of |-> a, seat |-> s,
                                           before |-> held[a]]]
  ELSE /\ begins' = [begins EXCEPT ![b] = NoBegin] /\ UNCHANGED book

\* Judged, and, once the board has been read, taken in the same tick.
BeginsAt(b, a, s) ==
  /\ begins[b] = NoBegin /\ \E i \in Slots : MayBegin(a, i)
  /\ IF read THEN Reserves(b, a, s)
     ELSE /\ begins' = [begins EXCEPT ![b] = [pc |-> "judged", of |-> a, seat |-> s,
                                              before |-> NoSeat]]
          /\ UNCHANGED book
  /\ UNCHANGED <<sim, read, fails>>

\* await this.#boardLoaded: taken when the read has landed
TakesLate(b) ==
  /\ begins[b].pc = "judged" /\ read
  /\ Reserves(b, begins[b].of, begins[b].seat)
  /\ UNCHANGED <<sim, read, fails>>

\* The note is written; the line that follows wakes the agent (Turns).
Written(b) ==
  /\ begins[b].pc = "taken" /\ begins' = [begins EXCEPT ![b] = NoBegin]
  /\ UNCHANGED <<sim, book, read, fails>>

\* giveBack: the desk it had before, if that can be had, else none
WriteFails(b) ==
  /\ begins[b].pc = "taken" /\ fails > 0 /\ fails' = fails - 1
  /\ LET a == begins[b].of
     IN  IF begins[b].before # NoSeat /\ Reservable(a, begins[b].before)
         THEN Take(a, begins[b].before) ELSE Release(a)
  /\ begins' = [begins EXCEPT ![b] = NoBegin] /\ UNCHANGED <<sim, read>>

BoardRead == ~read /\ read' = TRUE /\ UNCHANGED <<sim, book, begins, fails>>

-----------------------------------------------------------------------------
SessionStep(a) ==
  \/ Joins(a)
  \/ \E i \in Slots : \/ Drops(a, i) \/ Resumes(a, i) \/ Leaves(a, i)
                      \/ Turns(a, i) \/ Sweeps(a, i) \/ Arrives(a, i)

BeginStep(b) ==
  \/ \E a \in Agents, s \in Seats : BeginsAt(b, a, s)
  \/ TakesLate(b) \/ Written(b) \/ WriteFails(b)

Next == \/ \E a \in Agents : SessionStep(a)
        \/ \E b \in Begins : BeginStep(b)
        \/ BoardRead

Spec == Init /\ [][Next]_vars

\* The room ticks: every session there is is swept, and a walk ends.
FairSpec ==
  /\ Spec /\ WF_vars(BoardRead)
  /\ \A a \in Agents, i \in Slots : WF_vars(Sweeps(a, i)) /\ WF_vars(Arrives(a, i))
  /\ \A b \in Begins : WF_vars(TakesLate(b)) /\ WF_vars(Written(b))

-----------------------------------------------------------------------------
(* Properties.                                                             *)

Session == [is : {"here", "away"}, busy : BOOLEAN, arranged : {"stand", "work"},
            at : Seats \cup {Floor}, walk : Seats \cup {NoSeat}]
Begun == [pc : {"judged", "taken"}, of : Agents, seat : Seats,
          before : Seats \cup {NoSeat}]

\* The shape of the state; the gone are in the order they left, and
\* each holds a desk (seating.ts `left', `claim', `reserve').
TypeOK ==
  /\ sim \in [Agents -> [Slots -> Session \cup {Nobody}]]
  /\ held \in [Agents -> Seats \cup {NoSeat}]
  /\ begins \in [Begins -> Begun \cup {NoBegin}]
  /\ read \in BOOLEAN /\ fails \in 0 .. MaxFails
  /\ gone \subseteq Absent \X Absent
  /\ \A a \in Absent : held[a] # NoSeat /\ \A b \in Absent : <<a, b>> \in gone \/ <<b, a>> \in gone

\* Never two holders of one seat (seating.ts:78), whatever sweeps, begins and
\* give-backs overlap.
OneHolder == \A a, b \in Agents : held[a] = held[b] /\ held[a] # NoSeat => a = b

\* An agent that is in the room keeps its desk: only a begin of its own moves
\* it, however many of its sessions end (OfficeRoom.ts #removePlayer).
PresentKeepsDesk ==
  [][\A a \in Agents :
       HasSession(a) /\ held[a] # NoSeat /\ held'[a] # held[a]
       => \E b \in Begins : \/ begins[b] # NoBegin /\ begins[b].of = a
                            \/ begins'[b] # NoBegin /\ begins'[b].of = a]_vars

\* A desk comes: an agent that goes on working without one does not go without
\* for ever while a desk is free or its holder is gone (seating.ts plan,
\* `wait').  A begin whose write fails may take the desk back for good.
Deskless(a, i) == /\ Here(a, i) /\ sim[a][i].busy /\ held[a] = NoSeat
                  /\ Free # {} \/ Absent # {}
DeskComes ==
  \A a \in Agents, i \in Slots : []<>(~Deskless(a, i) \/ fails < MaxFails)

\* What the code's own words promise and it does not keep.

\* The only `null' is every seat held by somebody who is here (seating.ts:79).
WaitIsFull ==
  \A a \in Agents, i \in Slots :
    Here(a, i) /\ ~AtSeat(a, i) /\ Claimable(a) = {}
    => \A s \in Seats : \E h \in HoldersOf(s) : HasSession(h)

\* The agent and the desk are judged and the desk taken in one tick
\* (OfficeRoom.ts:2706): whoever a desk is reserved for is there and idle.
JudgedWhenTaken ==
  [][\A b \in Begins :
       begins[b].pc # "taken" /\ begins'[b].pc = "taken"
       => \E i \in Slots : MayBegin(begins'[b].of, i)]_vars

\* A change to `work' sends the agent to its desk and seats it on arrival
\* (OfficeRoom.ts:5986).
GoesToItsDesk ==
  \A a \in Agents, i \in Slots, s \in Seats :
    (Here(a, i) /\ held[a] = s /\ sim[a][i].busy)
    ~> (~Here(a, i) \/ held[a] # s \/ ~sim[a][i].busy \/ sim[a][i].at = s)
=============================================================================
