------------------------------ MODULE Mentions ------------------------------
(***************************************************************************)
(* Who a line wakes, and how far a mention travels from agent to agent     *)
(* (rooms/hops.ts; OfficeRoom.ts #deliverChat, #deliverChannelChat,        *)
(* #onAgentSay, #removePlayer; AgentRunner.ts #onChat, #onChannelChat,     *)
(* #addressesMe).                                                          *)
(*                                                                         *)
(* The office remembers per agent and conversation the hop of the line     *)
(* that last woke it, and counts on from there.  In a channel its word is  *)
(* what starts a turn; on the floor the harness reads the line itself.     *)
(*                                                                         *)
(* Abstracted: who stands where (a line is heard by any of those that may  *)
(* be near), text, office commands, banter, the pace of lines.  A direct   *)
(* conversation is a channel whose every line names the other.             *)
(***************************************************************************)
EXTENDS Naturals, FiniteSets

CONSTANTS
  Agents, Channels,
  MaxHops,     \* settings.mentionMaxHops
  Earshot,     \* the agents that may be near a speaker on the floor
  Elsewhere,   \* may an agent speak where its turn is not?
  MaxLines,    \* bound: lines of people
  MaxLeaves    \* bound: sessions of agents that end

Floor == "floor"
Places == Channels \cup {Floor}
Person == "person"

VARIABLES
  here,        \* the agents in the room
  woke,        \* WakeHops; nothing remembered counts as 0
  turn,        \* whose line an agent has yet to answer, per conversation
  left         \* bound: [lines, leaves]

vars == <<here, woke, turn, left>>

Init ==
  /\ here = Agents /\ left = [lines |-> MaxLines, leaves |-> MaxLeaves]
  /\ woke = [a \in Agents |-> [p \in Places |-> 0]]
  /\ turn = [a \in Agents |-> [p \in Places |-> "none"]]

-----------------------------------------------------------------------------
(* A line of s in p: `names' by name, `teams' through a team, `near' within *)
(* earshot, `beside' close enough for a walk-up.                           *)

Kind(s) == IF s = Person THEN "person" ELSE "agent"

\* Mutant: a line has the hop of the line that woke its speaker.
SameHop(s, p) == IF s = Person THEN 0 ELSE woke[s][p]
HopOf(s, p) == IF s = Person THEN 0 ELSE woke[s][p] + 1
MayWake(hop) == hop <= MaxHops

Woken(s, p, line) ==
  IF MayWake(HopOf(s, p)) THEN (line.names \cup line.teams) \cap here ELSE {}

\* #onChat, of a line that was heard: an agent's has to name the listener;
\* a person's too, unless it names nobody and the listener is beside them.
Heeds(a, s, line) ==
  \/ a \in line.names
  \/ s = Person /\ a \in line.teams
  \/ s = Person /\ line.names \cup line.teams = {} /\ a \in line.beside

\* Whom it gives a turn.
Starts(s, p, line) ==
  LET woken == Woken(s, p, line)
  IN IF p # Floor THEN woken
     ELSE woken \cup {a \in line.near \cap here : Heeds(a, s, line)}

\* Mutant: only an agent's line is remembered.
AgentsWake(s, woken) == IF s = Person THEN {} ELSE woken
Remembered(s, woken) == woken

Delivered(s, p, line, turns) ==
  /\ woke' = [a \in Agents |-> IF a \in Remembered(s, Woken(s, p, line))
                               THEN [woke[a] EXCEPT ![p] = HopOf(s, p)] ELSE woke[a]]
  /\ turn' = [a \in Agents |-> IF a \in Starts(s, p, line)
                               THEN [turns[a] EXCEPT ![p] = Kind(s)] ELSE turns[a]]

Lines(s, p) ==
  {l \in [names : SUBSET (Agents \ {s}), teams : SUBSET (Agents \ {s}),
          near : SUBSET ((IF p = Floor THEN Earshot ELSE {}) \ {s}), beside : SUBSET Earshot] :
     l.names \cap l.teams = {} /\ l.beside \subseteq l.near}

-----------------------------------------------------------------------------

PersonSpeaks(p) ==
  /\ left.lines > 0 /\ left' = [left EXCEPT !.lines = @ - 1]
  /\ \E l \in Lines(Person, p) : Delivered(Person, p, l, turn)
  /\ UNCHANGED here

\* A line of an agent's turn in p, spoken in q; the turn may be over with it.
Says(a, p, q) ==
  /\ a \in here /\ turn[a][p] # "none" /\ (q = p \/ Elsewhere)
  /\ \E l \in Lines(a, q), over \in BOOLEAN :
       Delivered(a, q, l, IF over THEN [turn EXCEPT ![a][p] = "none"] ELSE turn)
  /\ UNCHANGED <<here, left>>

Ends(a, p) ==
  /\ turn[a][p] # "none" /\ turn' = [turn EXCEPT ![a][p] = "none"]
  /\ UNCHANGED <<here, woke, left>>

\* #removePlayer: the session's hops are forgotten; the harness goes on.
Leaves(a) ==
  /\ a \in here /\ left.leaves > 0 /\ here' = here \ {a}
  /\ woke' = [woke EXCEPT ![a] = [p \in Places |-> 0]]
  /\ left' = [left EXCEPT !.leaves = @ - 1] /\ UNCHANGED turn

Joins(a) == a \notin here /\ here' = here \cup {a} /\ UNCHANGED <<woke, turn, left>>

Next ==
  \/ \E p \in Places : PersonSpeaks(p)
  \/ \E a \in Agents :
       \/ Leaves(a) \/ Joins(a)
       \/ \E p \in Places : Ends(a, p) \/ \E q \in Places : Says(a, p, q)

Spec == Init /\ [][Next]_vars

\* A turn ends (TurnLoop's runs show it).
FairSpec == Spec /\ \A a \in Agents, p \in Places : WF_vars(Ends(a, p))

-----------------------------------------------------------------------------
(* Properties.                                                             *)

TypeOK ==
  /\ here \subseteq Agents /\ woke \in [Agents -> [Places -> 0..MaxHops]]
  /\ turn \in [Agents -> [Places -> {"none", "person", "agent"}]]
  /\ left \in [lines : 0..MaxLines, leaves : 0..MaxLeaves]

Quiet == \A a \in Agents, p \in Places : turn[a][p] = "none"

\* Agents that name each other fall silent once people do: the chain stops,
\* whatever the harness does (docs/GATEWAY.md 289-294, hops.ts 3-11).
ChainEnds == <>[]Quiet

\* A person's line starts the count anew: an agent's answer to it may name
\* others (hops.ts 13-16, "a fresh human line there resets the count to zero").
FreshStart == \A a \in Agents, p \in Places : turn[a][p] = "person" => woke[a][p] = 0
=============================================================================
