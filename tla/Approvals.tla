------------------------------ MODULE Approvals ------------------------------
(***************************************************************************)
(* A tool approval, from the runtime that asks to the owner who answers:   *)
(* the harness's book of open questions (AgentRunner.ts, #onPermission-    *)
(* Request to #resolvePermission, and the replay in #reconnect), the socket*)
(* between the two, and the office's cards (OfficeRoom.ts, rooms/          *)
(* approvals.ts).                                                          *)
(*                                                                         *)
(* The socket may drop at any moment: what was on its way to the agent is  *)
(* lost, what was on its way to the office arrives up to some point, and   *)
(* the office learns of it only later.  The harness joins again as a new   *)
(* session.  The office may restart with nothing in memory.                *)
(*                                                                         *)
(* The office drops a request without a word when the agent is not a member*)
(* of the channel it names, or does not stand in the zone it names: where  *)
(* the agent is matters only when a request is read, and is modelled there.*)
(*                                                                         *)
(* Abstracted: who may see a card, which option the runtime is given       *)
(* (answers are allow or deny), the `run' scope (no card is made), the cap *)
(* of cards per room.                                                      *)
(***************************************************************************)
EXTENDS Integers, Sequences, FiniteSets, SequencesExt

CONSTANTS
  Questions,      \* tool calls a runtime asks about
  ZoneQuestions,  \* those asked in a zone: the office reads the conversation first
  MaxPerAgent,    \* APPROVAL_MAX_PER_AGENT
  OutboxSize,     \* APPROVAL_RESOLVED_OUTBOX
  MaxSessions,    \* bound: sockets ever opened
  MaxUpsets       \* bound: restarts of the office, and times the agent is elsewhere

ASSUME QuestionsAssumption == ZoneQuestions \subseteq Questions /\ IsFiniteSet(Questions)
ASSUME BoundsAssumption == /\ {MaxPerAgent, OutboxSize, MaxSessions} \subseteq Nat \ {0}
                           /\ MaxUpsets \in Nat

Sessions == 1..MaxSessions
Answers == {"allow", "deny"}
\* lapsed: past its deadline, or its turn was called off.
Endings == {"allowed", "denied", "lapsed", "interrupted"}

VARIABLES
  told,      \* per question: unasked, open (#approvals), or what the runtime was told
  outbox,    \* #resolvedApprovals
  link,      \* the session the harness speaks on (0: none, or not ready yet)
  joined,    \* sessions ever joined
  toOffice, toAgent,  \* messages on their way, per session
  here,      \* sessions whose client the office has
  cards,     \* #approvals of the office
  reading,   \* requests whose zone conversation is being read
  late,      \* questions past their deadline
  away,      \* questions asked in a place the agent has been out of since
  given,     \* ghost: the answers the owner gave
  upsets     \* bound

vars == <<told, outbox, link, joined, toOffice, toAgent, here, cards, reading, late,
          away, given, upsets>>
harness == <<told, outbox>>
office == <<here, cards, reading>>

NoCard == [end |-> "none"]
Cards == {q \in Questions : cards[q] # NoCard}
Waiting(q) == cards[q].end = "open"

Ask(q) == [kind |-> "request", q |-> q, how |-> "open"]
Resolved(q, how) == [kind |-> "resolved", q |-> q, how |-> how]
Decision(q, a) == [kind |-> "decision", q |-> q, how |-> a]
Refusal(q) == [kind |-> "refusal", q |-> q, how |-> "deny"]

Init ==
  /\ told = [q \in Questions |-> "unasked"] /\ outbox = <<>>
  /\ link = 1 /\ joined = 1 /\ here = {1}
  /\ toOffice = [s \in Sessions |-> <<>>] /\ toAgent = [s \in Sessions |-> <<>>]
  /\ cards = [q \in Questions |-> NoCard] /\ reading = {} /\ late = {}
  /\ away = {} /\ given = {} /\ upsets = 0

\* What the harness says reaches the wire only on a socket that is ready.
Sent(msg) == IF link = 0 THEN toOffice
             ELSE [toOffice EXCEPT ![link] = Append(@, msg)]
\* What the office says on a session whose socket is gone is lost.
SentTo(s, msg) == IF s = link THEN [toAgent EXCEPT ![s] = Append(@, msg)] ELSE toAgent

-----------------------------------------------------------------------------
(* The harness.                                                            *)

\* A runtime asks; the question waits, and its card is requested.
Asks(q) ==
  /\ told[q] = "unasked"
  /\ told' = [told EXCEPT ![q] = "open"]
  /\ toOffice' = Sent(Ask(q))
  /\ UNCHANGED <<outbox, link, joined, toAgent, late, away, given, upsets>> /\ UNCHANGED office

Trimmed(seq) == IF Len(seq) > OutboxSize THEN Tail(seq) ELSE seq

\* Mutant: a question that is no longer waiting is answered again.
SettleTwice(q, a, how) ==
  /\ told[q] # "unasked"
  /\ told' = [told EXCEPT ![q] = a]
  /\ outbox' = Trimmed(Append(outbox, Resolved(q, how)))
  /\ toOffice' = Sent(Resolved(q, how))

\* #settleApproval: the one place where a question stops waiting.  The runtime
\* is told, and the office is, now and again on every connect.
Settle(q, a, how) ==
  /\ told[q] = "open"
  /\ told' = [told EXCEPT ![q] = a]
  /\ outbox' = Trimmed(Append(outbox, Resolved(q, how)))
  /\ toOffice' = Sent(Resolved(q, how))

\* Nobody answered in five minutes.
Timeout(q) ==
  /\ Settle(q, "deny", "lapsed")
  /\ UNCHANGED <<link, joined, toAgent, late, away, given, upsets>> /\ UNCHANGED office

\* #sweepApprovals: the turn was cancelled, or its runtime crashed, was
\* reloaded or stopped.
Swept(q, how) ==
  /\ Settle(q, "deny", how)
  /\ UNCHANGED <<link, joined, toAgent, late, away, given, upsets>> /\ UNCHANGED office

\* The owner types the answer, naming the question.
Typed(q, a) ==
  /\ link # 0
  /\ Settle(q, a, IF a = "allow" THEN "allowed" ELSE "denied")
  /\ given' = given \cup {<<q, a>>}
  /\ UNCHANGED <<link, joined, toAgent, late, away, upsets>> /\ UNCHANGED office

\* A decision is routed by exact id and nothing else.
DecisionNames(q, p) == p = q

\* The office's word: the owner's decision, or that it takes no more cards.
\* One for a question that no longer waits is dropped.
Hears ==
  /\ link # 0 /\ toAgent[link] # <<>>
  /\ LET msg == Head(toAgent[link])
         how == IF msg.how = "allow" THEN "allowed" ELSE "denied"
     IN /\ toAgent' = [toAgent EXCEPT ![link] = Tail(@)]
        /\ \/ \E p \in Questions : DecisionNames(msg.q, p) /\ Settle(p, msg.how, how)
           \/ told[msg.q] # "open" /\ UNCHANGED <<told, outbox, toOffice>>
  /\ UNCHANGED <<link, joined, late, away, given, upsets>> /\ UNCHANGED office

-----------------------------------------------------------------------------
(* The socket.                                                             *)

\* It dies: what the office has not read by then it may or may not read.
Drop ==
  /\ link # 0
  /\ link' = 0
  /\ \E n \in 0..Len(toOffice[link]) :
       toOffice' = [toOffice EXCEPT ![link] = SubSeq(@, 1, n)]
  /\ toAgent' = [toAgent EXCEPT ![link] = <<>>]
  /\ UNCHANGED <<joined, late, away, given, upsets>> /\ UNCHANGED office /\ UNCHANGED harness

\* #reconnect: a new session, told of the questions still open and of the
\* last that stopped waiting.  It wakes up in the Agent Bay, wherever the one
\* before it stood.
Replay(open) == [i \in 1..Len(open) |-> Ask(open[i])] \o outbox

Rejoin ==
  /\ link = 0 /\ joined < MaxSessions
  /\ joined' = joined + 1 /\ link' = joined + 1
  /\ here' = here \cup {joined + 1}
  /\ LET open == SetToSeq({q \in Questions : told[q] = "open"})
     IN toOffice' = [toOffice EXCEPT ![joined + 1] = Replay(open)]
  /\ away' = away \cup {q \in ZoneQuestions : told[q] = "open"}
  /\ UNCHANGED <<toAgent, cards, reading, late, given, upsets>> /\ UNCHANGED harness

\* The office starts over, with an empty book.
Restart ==
  /\ upsets < MaxUpsets
  /\ upsets' = upsets + 1
  /\ link' = 0 /\ here' = {} /\ reading' = {}
  /\ cards' = [q \in Questions |-> NoCard]
  /\ toOffice' = [s \in Sessions |-> <<>>] /\ toAgent' = [s \in Sessions |-> <<>>]
  /\ UNCHANGED <<joined, late, away, given>> /\ UNCHANGED harness

-----------------------------------------------------------------------------
(* The office.                                                             *)

Mine(s) == {q \in Cards : cards[q].owner = s /\ Waiting(q)}
Card(s) == [end |-> "open", owner |-> s, decided |-> FALSE]

\* Mutant: a replay brings back any card.
RevivesAny(q) == TRUE
\* Mutant: a card that came down stays down.
RevivesNone(q) == Waiting(q)
\* resumableApproval: a card closed because its socket dropped comes back.
Revives(q) == Waiting(q) \/ (cards[q].end = "interrupted" /\ q \notin late)

\* A request names a card the office has -- a replay, matched on the agent --
\* or makes a new one, up to the agent's limit.
Keeps(q, s) ==
  \/ /\ q \in Cards
     /\ cards' = IF Revives(q)
                 THEN [cards EXCEPT ![q] = [@ EXCEPT !.end = "open", !.owner = s]]
                 ELSE cards
     /\ UNCHANGED toAgent
  \/ /\ q \notin Cards /\ Cardinality(Mine(s)) < MaxPerAgent
     /\ cards' = [cards EXCEPT ![q] = Card(s)]
     /\ UNCHANGED toAgent
  \/ /\ q \notin Cards /\ Cardinality(Mine(s)) >= MaxPerAgent
     /\ toAgent' = SentTo(s, Refusal(q))
     /\ UNCHANGED cards

\* The next message of a session.  What a dead socket still carried is read
\* before anything on the socket opened after it.
Reads(s, kind) ==
  /\ s \in here /\ toOffice[s] # <<>> /\ Head(toOffice[s]).kind = kind
  /\ \A r \in 1..(s - 1) : toOffice[r] = <<>>
  /\ toOffice' = [toOffice EXCEPT ![s] = Tail(@)]

\* The agent was taken out of the question's channel, or does not stand in
\* the zone it names.
OutOfPlace(q) ==
  \/ q \in away /\ UNCHANGED <<away, upsets>>
  \/ /\ q \notin away /\ upsets < MaxUpsets
     /\ upsets' = upsets + 1
     /\ away' = away \cup {q}

\* A question of a place the agent is not in is dropped, and nobody is told.
\* One asked in a zone is kept once the zone's conversation has been read.
TakesRequest(s) ==
  /\ Reads(s, "request")
  /\ \E q \in Questions :
       /\ Head(toOffice[s]).q = q
       /\ \/ OutOfPlace(q) /\ UNCHANGED <<cards, toAgent, reading>>
          \/ /\ q \notin ZoneQuestions /\ Keeps(q, s)
             /\ UNCHANGED <<reading, away, upsets>>
          \/ /\ q \in ZoneQuestions
             /\ reading' = reading \cup {<<q, s>>}
             /\ UNCHANGED <<cards, toAgent, away, upsets>>
  /\ UNCHANGED <<link, joined, here, late, given>> /\ UNCHANGED harness

\* The requests await one promise, and go on in the order they came.
ZoneRead(q, s) ==
  /\ <<q, s>> \in reading /\ \A e \in reading : e[2] >= s
  /\ reading' = reading \ {<<q, s>>}
  /\ Keeps(q, s)
  /\ UNCHANGED <<link, joined, toOffice, here, late, away, given, upsets>> /\ UNCHANGED harness

\* Only the session that holds the card, and only a card still waiting.
ClosedBy(q, s) == q \in Cards /\ cards[q].owner = s /\ Waiting(q)

TakesResolved(s) ==
  /\ Reads(s, "resolved")
  /\ LET msg == Head(toOffice[s])
     IN cards' = IF ClosedBy(msg.q, s) THEN [cards EXCEPT ![msg.q].end = msg.how] ELSE cards
  /\ UNCHANGED <<link, joined, toAgent, here, reading, late, away, given, upsets>>
  /\ UNCHANGED harness

Interrupted(qs) ==
  cards' = [q \in Questions |-> IF q \in qs THEN [cards[q] EXCEPT !.end = "interrupted"]
                                ELSE cards[q]]

\* Mutant: the cards of a session that left stay up.
LeavesCardsUp(s) == UNCHANGED cards
\* The cards of a session that left come down.
TakesDown(s) == Interrupted(Mine(s))

\* onLeave: the office has noticed that a socket is gone.
Leaves(s) ==
  /\ s \in here /\ s # link /\ toOffice[s] = <<>>
  /\ here' = here \ {s}
  /\ TakesDown(s)
  /\ UNCHANGED <<link, joined, toOffice, toAgent, reading, late, away, given, upsets>>
  /\ UNCHANGED harness

\* The owner clicks.  judgeDecision: a card waiting, not decided, not late.
\* The answer is handed to the session that asked, if the office has it.
Click(q, a) ==
  /\ q \in Cards /\ Waiting(q) /\ ~cards[q].decided /\ q \notin late
  /\ LET s == cards[q].owner
     IN \/ /\ s \in here
           /\ cards' = [cards EXCEPT ![q].decided = TRUE]
           /\ given' = given \cup {<<q, a>>}
           /\ toAgent' = SentTo(s, Decision(q, a))
        \/ /\ s \notin here
           /\ Interrupted({q})
           /\ UNCHANGED <<given, toAgent>>
  /\ UNCHANGED <<link, joined, toOffice, here, reading, late, away, upsets>>
  /\ UNCHANGED harness

\* The deadline passes, and later the grace.
Late(q) ==
  /\ told[q] # "unasked" /\ q \notin late
  /\ late' = late \cup {q}
  /\ UNCHANGED <<link, joined, toOffice, toAgent, away, given, upsets>>
  /\ UNCHANGED office /\ UNCHANGED harness

\* Mutant: only a card somebody has answered expires.
StaleDecided(q) == q \in Cards /\ Waiting(q) /\ q \in late /\ cards[q].decided
\* expiredApprovals
Stale(q) == q \in Cards /\ Waiting(q) /\ q \in late

Expires(q) ==
  /\ Stale(q)
  /\ cards' = [cards EXCEPT ![q].end = "lapsed"]
  /\ UNCHANGED <<link, joined, toOffice, toAgent, here, reading, late, away, given, upsets>>
  /\ UNCHANGED harness

\* A minute after it ended, a card is forgotten.
Forgets(q) ==
  /\ q \in Cards /\ ~Waiting(q)
  /\ cards' = [cards EXCEPT ![q] = NoCard]
  /\ UNCHANGED <<link, joined, toOffice, toAgent, here, reading, late, away, given, upsets>>
  /\ UNCHANGED harness

-----------------------------------------------------------------------------
Next ==
  \/ \E q \in Questions :
       \/ Asks(q) \/ Timeout(q) \/ Late(q) \/ Expires(q) \/ Forgets(q)
       \/ \E how \in {"lapsed", "interrupted"} : Swept(q, how)
       \/ \E a \in Answers : Typed(q, a) \/ Click(q, a)
       \/ \E s \in Sessions : ZoneRead(q, s)
  \/ \E s \in Sessions : TakesRequest(s) \/ TakesResolved(s) \/ Leaves(s)
  \/ Hears \/ Drop \/ Rejoin \/ Restart

Spec == Init /\ [][Next]_vars

\* Timers fire, the office reads its sockets and notices the dead ones.
Fairness ==
  /\ \A q \in Questions : /\ WF_vars(Timeout(q)) /\ WF_vars(Late(q)) /\ WF_vars(Expires(q))
                          /\ \A s \in Sessions : WF_vars(ZoneRead(q, s))
  /\ \A s \in Sessions : WF_vars(TakesRequest(s) \/ TakesResolved(s) \/ Leaves(s))

FairSpec == Spec /\ Fairness

-----------------------------------------------------------------------------
(* Properties.                                                             *)

Messages == [kind : {"request", "resolved", "decision", "refusal"}, q : Questions,
             how : {"open"} \cup Answers \cup Endings]

\* Type invariant of the harness's questions, the wire and the office's cards.
TypeOK ==
  /\ told \in [Questions -> {"unasked", "open"} \cup Answers]
  /\ outbox \in Seq(Messages) /\ Len(outbox) <= OutboxSize
  /\ link \in 0..joined /\ joined \in Sessions /\ here \subseteq 1..joined
  /\ toOffice \in [Sessions -> Seq(Messages)] /\ toAgent \in [Sessions -> Seq(Messages)]
  /\ \A q \in Cards : /\ cards[q].end \in {"open"} \cup Endings
                      /\ cards[q].owner \in 1..joined /\ cards[q].decided \in BOOLEAN
  /\ reading \subseteq Questions \X Sessions /\ late \subseteq Questions
  /\ away \subseteq Questions
  /\ given \subseteq Questions \X Answers /\ upsets \in 0..MaxUpsets

\* A tool runs only if the owner allowed that very call: an answer given to
\* another question, a deadline or a dropped socket never allows it.
AllowedByTheOwner ==
  \A q \in Questions : told[q] = "allow" => <<q, "allow">> \in given

\* "The runtime is answered exactly once" (#settleApproval): however a click,
\* a typed answer, the deadline and a sweep race, the first one stands.
AnsweredOnce ==
  [][\A q \in Questions : told[q] \in Answers => told'[q] = told[q]]_vars

\* The sockets, the cards, the outbox and the clocks implement consent: one
\* answer to a question, and a yes only by its owner (#settleApproval,
\* judgeDecision).
C == INSTANCE Consent
ImplementsConsent == C!Spec

\* "A harness must not be able to un-answer a card" (resumableApproval): the
\* card of a question the harness said was over stays as it ended until it is
\* forgotten, whatever replayed or overtaken request is still to be read.
SettledCardsStaySettled ==
  [][\A q \in Cards : cards[q].end \notin {"open", "interrupted"} =>
                       cards'[q] \in {cards[q], NoCard}]_vars

\* Everything said has been heard: the office has read its sockets, noticed
\* the dead ones, and the harness is connected and has read its own.
Quiet ==
  /\ link # 0 /\ here = {link} /\ reading = {}
  /\ toOffice[link] = <<>> /\ toAgent[link] = <<>>

ReachesTheRuntime(q) == told[q] = "open" /\ cards[q].owner = link

\* "Never a button that would land nowhere" (docs/GATEWAY.md, the replay): at
\* rest, a card that waits is one whose question waits, in the harness of the
\* session that holds it.  Of questions asked in a zone it is not true.
ButtonsReachTheRuntime ==
  Quiet => \A q \in Cards \ ZoneQuestions : Waiting(q) => ReachesTheRuntime(q)

\* The same of every question: a zone's request is held by an await, and its
\* resolution or the leave overtakes it.
AllButtonsReachTheRuntime ==
  Quiet => \A q \in Cards : Waiting(q) => ReachesTheRuntime(q)

\* A question still open has a card, whatever happened to the sockets and the
\* office meanwhile, until its deadline -- if the agent has stayed in the
\* channel it was asked in, or in the zone and on the socket it was asked on.
OpenQuestionsAreShown ==
  Quiet => \A q \in Questions \ away : told[q] = "open" /\ q \notin late =>
             q \in Cards /\ Waiting(q)

\* The same of every question ("so a card is neither lost ...", #reconnect): a
\* zone's question, said again by the session that woke up elsewhere, is
\* dropped with neither a card nor a refusal.
AllOpenQuestionsAreShown ==
  Quiet => \A q \in Questions : told[q] = "open" /\ q \notin late =>
             q \in Cards /\ Waiting(q)

\* "... comes back and is answerable again" (OfficeRoom.ts, the replay): the
\* card of a question still open takes an answer, unless one was handed over.
OpenQuestionsAreAnswerable ==
  Quiet => \A q \in Cards : told[q] = "open" /\ Waiting(q) => ~cards[q].decided

\* "Nor left offering buttons that would land nowhere" (#reconnect): once the
\* office has read what a reconnected harness said, no card of a question
\* that stopped waiting is up.
ReplayTakesCardsDown ==
  link # 0 /\ toOffice[link] = <<>> /\ reading = {} =>
    \A q \in Cards : Waiting(q) => told[q] = "open"

\* A card whose question stopped waiting comes down.
CardsComeDown ==
  \A q \in Questions : (q \in Cards /\ Waiting(q) /\ told[q] \in Answers)
                         ~> ~(q \in Cards /\ Waiting(q))

=============================================================================
