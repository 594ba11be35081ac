------------------------------ MODULE Reading -------------------------------
(***************************************************************************)
(* How far a person has read each conversation.  Every page of theirs      *)
(* keeps its own account (game/unread.ts) and reports it to the office     *)
(* (game/readReports.ts, useConversations.ts); the office keeps one per    *)
(* person, in the room while they are in it and in the database for good   *)
(* (OfficeRoom.ts #onRead, #loadReadCursors, #sendChannels; db/reads.ts),  *)
(* and tells their other pages with the list of channels                   *)
(* (rooms/channel-list.ts).                                                *)
(*                                                                         *)
(* A report and a load of the cursors each await the database.  Meanwhile  *)
(* pages open, close, lose their socket and come back on the same seat or  *)
(* on a new one.                                                           *)
(*                                                                         *)
(* Abstracted: time is the number of lines said; what is sent down a       *)
(* socket that is up arrives before anything else happens to the page; a   *)
(* page's storage keeps every conversation; the lines are other people's,  *)
(* the person stays in the channels, and nothing but the cursors changes   *)
(* in the list; of an unread row, its newest line.                         *)
(***************************************************************************)
EXTENDS Integers, FiniteSets, FiniteSetsExt

CONSTANTS
  Channels,
  Tabs,        \* pages of the one person, each in a browser of its own
  MaxLines,    \* bound: lines said
  MaxVisits,   \* bound: pages opened
  MaxCuts,     \* bound: sockets dropped
  MaxFails,    \* bound: reports refused or not written, loads that fail
  MaxMishaps   \* bound: of those two, together

None == "none"
ASSUME ChannelsAssumption == None \notin Channels

VARIABLES
  last,      \* #lastMessageAt
  stored,    \* conversation_members.last_read_at of this person
  inRoom,    \* #readCursors of this person; ghost: whole, a load has filled it
  loads,     \* #loadReadCursors under way
  marks,     \* #onRead under way
  held,      \* the pages whose seat is kept, its socket gone
  tab,       \* the pages
  listed,    \* the pages that have had the list of channels
  missed,    \* what a page lacks: the conversations, for want of their newest line
  onScreen,  \* ghost: up to when a page had what was said on its screen
  blind,     \* ghost: up to when a page that lacked it read it all the same
  spare      \* bound

readingVars == <<last, stored, inRoom, loads, marks, held, tab, listed, missed,
                 onScreen, blind, spare>>
office == <<inRoom, loads, marks, held>>
screens == <<listed, missed, onScreen, blind>>

Nobody == "nobody"
Never == [c \in Channels |-> 0]
NotLoaded == [there |-> FALSE, whole |-> FALSE, at |-> Never]
Untold == [sent |-> FALSE, at |-> Never]
Later(s, t) == [c \in Channels |-> Max({s[c], t[c]})]
Now == Max({last[c] : c \in Channels})
Spend(what) == spare[what] > 0 /\ spare' = [spare EXCEPT ![what] = @ - 1]

Closed == [is |-> "closed", view |-> None, seen |-> Never, unread |-> Never,
           due |-> {}, told |-> Untold]

ReadingInit ==
  /\ last = Never /\ stored = Never /\ inRoom = NotLoaded
  /\ loads = {} /\ marks = {} /\ held = {}
  /\ tab = [d \in Tabs |-> Closed]
  /\ listed = {} /\ missed = [d \in Tabs |-> Channels]
  /\ onScreen = Never /\ blind = Never
  /\ spare \in [visits : {MaxVisits}, cuts : 0 .. MaxCuts, fails : 0 .. MaxFails]
  /\ spare.cuts + spare.fails = MaxMishaps

Joined(d) == tab[d].is \in {"in", "on"}
Open(d) == tab[d].is # "closed"

-----------------------------------------------------------------------------
(* The page's own account.                                                 *)

\* ReadReports.queue: what the page has seen since it last told the office
Noted(t, seen) ==
  [t EXCEPT !.seen = seen, !.due = @ \cup {c \in Channels : seen[c] > t.seen[c]}]

\* read
Read(t, c, at) == [Noted(t, [t.seen EXCEPT ![c] = at]) EXCEPT !.unread[c] = 0]

\* heard: a line in view is read as it lands
Heard(t, c, at) == IF t.view = c THEN Read(t, c, at) ELSE [t EXCEPT !.unread[c] = at]

\* Mutant: the office's cursor is the truth.
Outright(seen, cursors) == cursors
\* ... it is folded in, as the later of the two.
Folded(seen, cursors) == Later(seen, cursors)

\* ... and, when it moved, reaches what was waiting
SeenElsewhere(t, cursors, c) == cursors[c] > t.seen[c] /\ t.unread[c] <= cursors[c]

\* caughtUp: the list has come.
CaughtUp(t, cursors) ==
  LET seen == Folded(t.seen, cursors)
      waits(c) == t.unread[c] > 0 /\ ~SeenElsewhere(t, cursors, c)
      news(c) == t.view # c /\ last[c] > seen[c] IN
  [Noted(t, seen) EXCEPT
     !.unread = [c \in Channels |-> IF waits(c) THEN t.unread[c]
                                    ELSE IF news(c) THEN last[c] ELSE 0]]

-----------------------------------------------------------------------------
(* The list of channels, from the office to a page.                        *)

\* Mutant: the cursors are left out of the fingerprint.
AnyList(cursors) == [sent |-> TRUE, at |-> Never]
\* channelListSignature
Signature(cursors) == [sent |-> TRUE, at |-> cursors]

\* #sendChannels: not what it was sent last; before its handlers are up the
\* page does not hear it
Offered(t, cursors) ==
  IF t.told = Signature(cursors) THEN t
  ELSE LET u == [t EXCEPT !.told = Signature(cursors)] IN
       IF t.is = "on" THEN CaughtUp(u, cursors) ELSE u

SentTo(ds, cursors) ==
  [d \in Tabs |-> IF d \in ds /\ Joined(d) THEN Offered(tab[d], cursors) ELSE tab[d]]

-----------------------------------------------------------------------------
(* The database, and the room's cursors.                                   *)

HasSession(gone) == (held \cup {d \in Tabs : Joined(d)}) \ gone # {}

\* The loads of a session that is no more.
Orphaned(d) == {IF l.of = d THEN [l EXCEPT !.of = Nobody] ELSE l : l \in loads}

\* onJoin, #loadReadCursors: what is there is used, else the database is asked.
Arrives(d, page) ==
  IF inRoom.there
  THEN tab' = [tab EXCEPT ![d] = Offered(page, inRoom.at)] /\ loads' = Orphaned(d)
  ELSE /\ tab' = [tab EXCEPT ![d] = page]
       /\ loads' = Orphaned(d) \cup {[of |-> d, at |-> stored]}

\* ... merged with what a report put there meanwhile, unless nobody waits
LoadLands(l) ==
  /\ loads' = loads \ {l}
  /\ IF ~HasSession({}) THEN UNCHANGED <<inRoom, tab>>
     ELSE /\ inRoom' = [there |-> TRUE, whole |-> inRoom.whole \/ l.of # Nobody,
                        at |-> Later(inRoom.at, l.at)]
          /\ tab' = SentTo({l.of}, inRoom'.at)
  /\ UNCHANGED <<last, stored, marks, held, screens, spare>>

LoadFails(l) ==
  /\ Spend("fails") /\ loads' = loads \ {l} /\ inRoom' = [inRoom EXCEPT !.whole = FALSE]
  /\ UNCHANGED <<last, stored, marks, held, tab, screens>>

\* markRead: only forward
MarkWrites(m) ==
  /\ m.pc = "asked"
  /\ IF stored[m.c] < m.at
     THEN /\ stored' = [stored EXCEPT ![m.c] = m.at]
          /\ marks' = (marks \ {m}) \cup {[m EXCEPT !.pc = "moved"]}
     ELSE marks' = marks \ {m} /\ UNCHANGED stored
  /\ UNCHANGED <<last, inRoom, loads, held, tab, screens, spare>>

\* The limiter refuses it, or the write fails.
MarkFails(m) ==
  /\ m.pc = "asked" /\ Spend("fails") /\ marks' = marks \ {m}
  /\ UNCHANGED <<last, stored, inRoom, loads, held, tab, screens>>

\* ... and then what the room believes, and every page of theirs
MarkLands(m) ==
  /\ m.pc = "moved" /\ marks' = marks \ {m}
  /\ IF inRoom.at[m.c] >= m.at THEN UNCHANGED <<inRoom, tab>>
     ELSE /\ inRoom' = [inRoom EXCEPT !.there = TRUE, !.at[m.c] = m.at]
          /\ tab' = SentTo(Tabs, inRoom'.at)
  /\ UNCHANGED <<last, stored, loads, held, screens, spare>>

\* #refreshChannels, every ten seconds
Refreshes ==
  /\ SentTo(Tabs, inRoom.at) # tab /\ tab' = SentTo(Tabs, inRoom.at)
  /\ UNCHANGED <<last, stored, inRoom, loads, marks, held, screens, spare>>

-----------------------------------------------------------------------------
(* Lines, and the person.                                                  *)

\* #deliverChannelChat: heard by the pages whose handlers are up
Says(c) ==
  LET hears(d) == tab[d].is = "on" IN
  /\ Now < MaxLines /\ last' = [last EXCEPT ![c] = Now + 1]
  /\ tab' = [d \in Tabs |-> IF hears(d) THEN Heard(tab[d], c, Now + 1) ELSE tab[d]]
  /\ missed' = [d \in Tabs |-> IF hears(d) THEN missed[d] \ {c} ELSE missed[d] \cup {c}]
  /\ onScreen' = IF \E d \in Tabs : hears(d) /\ tab[d].view = c
                 THEN [onScreen EXCEPT ![c] = Now + 1] ELSE onScreen
  /\ UNCHANGED <<stored, office, listed, blind, spare>>

\* load: a page that is up gets what it asks for; of another nobody hears
Loaded(d, v) == IF tab[d].is = "on" THEN [missed EXCEPT ![d] = @ \ {v}] ELSE missed

\* Another conversation of the list in view, or none.  It is read as of now,
\* whatever of it the page has, and its history is asked for.
Looks(d, v) ==
  /\ Open(d) /\ v # tab[d].view /\ (v # None => d \in listed)
  /\ missed' = Loaded(d, v)
  /\ LET t == [tab[d] EXCEPT !.view = v] IN
     IF v = None THEN tab' = [tab EXCEPT ![d] = t] /\ UNCHANGED <<onScreen, blind>>
     ELSE /\ tab' = [tab EXCEPT ![d] = Read(t, v, Max({t.seen[v], Now}))]
          /\ IF v \in Loaded(d, v)[d]
             THEN blind' = [blind EXCEPT ![v] = Now] /\ UNCHANGED onScreen
             ELSE onScreen' = [onScreen EXCEPT ![v] = Now] /\ UNCHANGED blind
  /\ UNCHANGED <<last, stored, office, listed, spare>>

\* flushReads, every three seconds; #onRead as far as its await.  On a dead
\* socket the reports are gone, and are marked as told.
Reports(d) ==
  /\ tab[d].is \in {"on", "cut"} /\ tab[d].due # {}
  /\ tab' = [tab EXCEPT ![d].due = {}]
  /\ marks' = marks \cup
       {[c |-> c, at |-> tab[d].seen[c], pc |-> "asked"] :
          c \in {x \in tab[d].due : tab[d].is = "on" /\ inRoom.at[x] < tab[d].seen[x]}}
  /\ UNCHANGED <<last, stored, inRoom, loads, held, screens, spare>>

-----------------------------------------------------------------------------
(* Pages that come and go.                                                 *)

\* A page opens, with what its browser's storage has.
Opens(d) ==
  /\ ~Open(d) /\ Spend("visits")
  /\ Arrives(d, [Noted(Closed, tab[d].seen) EXCEPT !.is = "in"])
  /\ UNCHANGED <<last, stored, inRoom, marks, held, screens>>

\* Mutant: the answer is not sent if it is what was sent before.
AnswersNews(t) == Offered([t EXCEPT !.is = "on"], inRoom.at)
\* channelsSent.asked: what was sent before does not count
Answered(t) == Offered([t EXCEPT !.is = "on", !.told = Untold], inRoom.at)

\* The scene's handlers are up; it asks for the list, and the conversation in
\* view for its history.
Listens(d) ==
  /\ tab[d].is = "in"
  /\ tab' = [tab EXCEPT ![d] = Answered(tab[d])]
  /\ listed' = listed \cup {d} /\ missed' = [missed EXCEPT ![d] = @ \ {tab[d].view}]
  /\ onScreen' = IF tab[d].view = None THEN onScreen
                 ELSE [onScreen EXCEPT ![tab[d].view] = Now]
  /\ UNCHANGED <<last, stored, office, blind, spare>>

Cuts(d) ==
  /\ Joined(d) /\ Spend("cuts")
  /\ tab' = [tab EXCEPT ![d].is = "cut"] /\ held' = held \cup {d}
  /\ UNCHANGED <<last, stored, inRoom, loads, marks, screens>>

Resumes(d) ==
  /\ tab[d].is = "cut" /\ d \in held
  /\ tab' = [tab EXCEPT ![d].is = "in"] /\ held' = held \ {d}
  /\ UNCHANGED <<last, stored, inRoom, loads, marks, screens, spare>>

\* A fresh join of the same page; the seat it had may still be kept.
Rejoins(d) ==
  /\ tab[d].is = "cut" /\ Spend("visits")
  /\ Arrives(d, [tab[d] EXCEPT !.is = "in", !.told = Untold])
  /\ UNCHANGED <<last, stored, inRoom, marks, held, screens>>

\* #removePlayer: the cursors go with the last session.
Removed(d) == inRoom' = IF HasSession({d}) THEN inRoom ELSE NotLoaded

\* A seat's grace is over.
Expires(d) ==
  /\ d \in held /\ held' = held \ {d}
  /\ IF Joined(d) THEN UNCHANGED <<inRoom, loads>>
     ELSE Removed(d) /\ loads' = IF tab[d].is = "cut" THEN Orphaned(d) ELSE loads
  /\ UNCHANGED <<last, stored, marks, tab, screens, spare>>

\* The page goes: with a leave, or, cut off, without a word.
Closes(d) ==
  /\ Open(d) /\ tab' = [tab EXCEPT ![d] = [Closed EXCEPT !.seen = tab[d].seen]]
  /\ listed' = listed \ {d} /\ missed' = [missed EXCEPT ![d] = Channels]
  /\ loads' = Orphaned(d)
  /\ IF Joined(d) /\ d \notin held THEN Removed(d) ELSE UNCHANGED inRoom
  /\ UNCHANGED <<last, stored, marks, held, onScreen, blind, spare>>

-----------------------------------------------------------------------------
Marks(m) == MarkWrites(m) \/ MarkLands(m)

ReadingNext ==
  \/ \E c \in Channels : Says(c)
  \/ Refreshes
  \/ \E l \in loads : LoadLands(l) \/ LoadFails(l)
  \/ \E m \in marks : Marks(m) \/ MarkFails(m)
  \/ \E d \in Tabs :
       \/ Opens(d) \/ Listens(d) \/ Reports(d) \/ Closes(d)
       \/ Cuts(d) \/ Resumes(d) \/ Rejoins(d) \/ Expires(d)
       \/ \E v \in Channels \cup {None} : Looks(d, v)

ReadingSpec == ReadingInit /\ [][ReadingNext]_readingVars

\* An await of the database returns, the timers of room and page fire, and a
\* page whose game is built asks.
FairReading ==
  /\ ReadingSpec /\ WF_readingVars(Refreshes)
  /\ WF_readingVars(\E l \in loads : LoadLands(l)) /\ WF_readingVars(\E m \in marks : Marks(m))
  /\ \A d \in Tabs : WF_readingVars(Listens(d)) /\ WF_readingVars(Reports(d))

-----------------------------------------------------------------------------
(* Properties.                                                             *)

Times == 0 .. MaxLines
Cursors == [Channels -> Times]

\* The shape of the state; what is never ahead of what has been said.
ReadingTypeOK ==
  /\ last \in Cursors /\ stored \in Cursors /\ held \subseteq Tabs
  /\ inRoom \in [there : BOOLEAN, whole : BOOLEAN, at : Cursors]
  /\ loads \subseteq [of : Tabs \cup {Nobody}, at : Cursors]
  /\ marks \subseteq [c : Channels, at : Times, pc : {"asked", "moved"}]
  /\ listed \subseteq Tabs /\ missed \in [Tabs -> SUBSET Channels]
  /\ \A d \in Tabs :
       /\ tab[d].is \in {"closed", "in", "on", "cut"}
       /\ tab[d].view \in Channels \cup {None}
       /\ {tab[d].seen, tab[d].unread} \subseteq Cursors /\ tab[d].due \subseteq Channels

\* A line nobody has had on a screen is shown as unread on every page that is
\* up, whatever was read elsewhere and whatever that page missed before
\* (unread.ts caughtUp, 104-106; channel-list.ts:73-84) -- unless a page that
\* had not got the line, and could not get it, has looked at its conversation
\* since: see AllUnreadIsShown.
UnreadIsShown ==
  \A d \in Tabs, c \in Channels :
    tab[d].is = "on" /\ tab[d].view # c /\ last[c] > onScreen[c] /\ last[c] > blind[c]
      => tab[d].unread[c] > 0

\* What was looked at on a page does not come back as unread there: not when
\* the office's cursor is behind, nor when the page is opened again
\* (unread.ts:99-102).
NotUnreadAgain ==
  [][\A d \in Tabs, c \in Channels :
       tab'[d].unread[c] > tab[d].unread[c] => tab'[d].unread[c] > tab[d].seen[c]]_readingVars

\* A row goes down on every page of theirs once the office has it that the
\* line was read, on whichever of them (reads.ts:9-14; channel-list.ts:22-28).
\* Not while the room's cursors are not those of the database: see SameSet.
Stale(d, c) ==
  /\ tab[d].is = "on" /\ inRoom.there /\ inRoom.whole
  /\ 0 < tab[d].unread[c] /\ tab[d].unread[c] <= stored[c]
RowsComeDown == \A d \in Tabs, c \in Channels : Stale(d, c) ~> ~Stale(d, c)

\* What the code's own words promise and it does not keep.

\* A second session reuses what is already loaded: "it is the same set of
\* cursors" (OfficeRoom.ts:1141-1142), dropped when the last session goes (568).
SameSet ==
  /\ loads = {} /\ marks = {} /\ inRoom.there /\ spare.fails = MaxFails
  /\ \E d \in Tabs : tab[d].is = "on"
  => inRoom.at = stored

\* A channel that spoke after you last looked "has something waiting"
\* (unread.ts:104-106): the same of every line.  A page that is cut off reads
\* what it selects as of now, though its transcript lacks what was said
\* (useConversations.ts:276-285), and once it is back loads only what is then
\* in view (455-457): the line is nowhere shown.
AllUnreadIsShown ==
  \A d \in Tabs, c \in Channels :
    tab[d].is = "on" /\ tab[d].view # c /\ last[c] > onScreen[c] => tab[d].unread[c] > 0

\* A report is not forgotten for want of an office to tell
\* (useConversations.ts:306-308, readReports.ts:44-47).
ReportsArrive ==
  \A d \in Tabs, c \in Channels :
    (tab[d].is = "on" /\ tab[d].seen[c] > stored[c])
    ~> (tab[d].is # "on" \/ tab[d].seen[c] <= stored[c] \/ spare.fails < MaxFails)

\* Looking at a conversation reads it as of its newest line
\* (useConversations.ts:274-275).
LookingReads ==
  \A d \in Tabs : tab[d].is = "on" /\ tab[d].view # None
    => tab[d].seen[tab[d].view] >= last[tab[d].view]
=============================================================================
