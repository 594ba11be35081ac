------------------------- MODULE BoardReadingProofs -------------------------
(***************************************************************************)
(* Proofs about the board, for any tables, people and reads, and about how *)
(* far a person has read, for any channels and pages.                      *)
(*                                                                         *)
(* The board.  Versions only grow, and a row read is as old as the moment  *)
(* it was read.  What makes NeverBack inductive is that the newest read    *)
(* under way was begun after whatever the room holds had landed: each row  *)
(* it has is at least as new as the room's.                                *)
(*                                                                         *)
(* What was read.  A page shows news as unread because nothing it takes    *)
(* for read, its own account or a cursor of the office on any of its ways, *)
(* is past what was on some screen (OnlyTheSeenIsRead); and a page whose   *)
(* conversation is in view has its newest line on the screen.              *)
(***************************************************************************)
EXTENDS Board, Reading, TLAPS

\* What the proof needs of types.
Typed ==
  /\ db \in [Tables -> Int] /\ room \in [Tables -> Int]
  /\ reads \in [BoardReads -> [Tables -> Int]]
  /\ shown \in [People -> [Tables -> Int]]
  /\ latest \in BoardReads \cup {NoRead}

\* Nothing anybody holds is newer than what it was read from.
NothingFromTheFuture ==
  /\ \A t \in Tables : -1 <= room[t] /\ room[t] <= db[t]
  /\ \A r \in BoardReads, t \in Tables : reads[r][t] <= db[t]
  /\ \A p \in People, t \in Tables : shown[p][t] <= room[t]

\* The newest read under way has nothing older than the room.
NewestIsAhead ==
  latest # NoRead => \A t \in Tables : reads[latest][t] # Unread => room[t] <= reads[latest][t]

IInv == Typed /\ NothingFromTheFuture /\ NewestIsAhead

LEMMA InitInv == Init => IInv
<1> SUFFICES ASSUME Init PROVE IInv
  OBVIOUS
<1>1. Typed
  BY DEF Init, Typed, Empty, Blank, Idle
<1>2. NothingFromTheFuture
  BY DEF Init, NothingFromTheFuture, Empty, Blank, Idle
<1>3. NewestIsAhead
  BY DEF Init, NewestIsAhead
<1> QED
  BY <1>1, <1>2, <1>3 DEF IInv

\* A read begins with nothing, and is the newest.
LEMMA StartInv == ASSUME IInv, NEW r \in BoardReads, Start(r) PROVE IInv'
<1>1. /\ Started \in [Tables -> Int]
      /\ \A t \in Tables : Started[t] = Unread /\ Started[t] = -1
  BY DEF Started, Unread
<1>2. /\ reads' = [reads EXCEPT ![r] = Started] /\ latest' = r
      /\ UNCHANGED <<db, room, shown>>
  BY DEF Start, people
<1>3. Typed'
  BY <1>1, <1>2 DEF IInv, Typed
<1>4. NothingFromTheFuture'
  <2>1. \A t \in Tables : -1 <= db[t]
    BY DEF IInv, Typed, NothingFromTheFuture
  <2>2. \A q \in BoardReads, t \in Tables : reads'[q][t] <= db[t]
    BY <1>1, <1>2, <2>1 DEF IInv, Typed, NothingFromTheFuture
  <2> QED
    BY <1>2, <2>2 DEF IInv, NothingFromTheFuture
<1>5. NewestIsAhead'
  BY <1>1, <1>2 DEF IInv, Typed, NewestIsAhead
<1> QED
  BY <1>3, <1>4, <1>5 DEF IInv

\* A table read now is of now.
LEMMA QueriesInv == ASSUME IInv, NEW r \in BoardReads, NEW t \in Tables, Queries(r, t) PROVE IInv'
<1>1. /\ reads' = [reads EXCEPT ![r][t] = db[t]]
      /\ UNCHANGED <<db, room, shown, latest>>
  BY DEF Queries, people
<1>2. /\ reads'[r][t] = db[t] /\ reads' \in [BoardReads -> [Tables -> Int]]
      /\ \A q \in BoardReads, u \in Tables : q # r \/ u # t => reads'[q][u] = reads[q][u]
  BY <1>1 DEF IInv, Typed
<1>3. Typed'
  BY <1>1, <1>2 DEF IInv, Typed
<1>4. NothingFromTheFuture'
  <2>1. \A q \in BoardReads, u \in Tables : reads'[q][u] <= db[u]
    BY <1>2 DEF IInv, Typed, NothingFromTheFuture
  <2> QED
    BY <1>1, <2>1 DEF IInv, NothingFromTheFuture
<1>5. NewestIsAhead'
  BY <1>1, <1>2 DEF IInv, Typed, NewestIsAhead, NothingFromTheFuture
<1> QED
  BY <1>3, <1>4, <1>5 DEF IInv

LEMMA OverLatest ==
  ASSUME IInv, NEW r \in BoardReads, Over(r), UNCHANGED <<db, room, shown>>
  PROVE  IInv'
<1>1. /\ reads' = [reads EXCEPT ![r] = Idle] /\ Idle \in [Tables -> Int]
      /\ \A t \in Tables : Idle[t] = -2
  BY DEF Over, Idle
<1>2. Typed'
  BY <1>1 DEF IInv, Typed, Over
<1>3. NothingFromTheFuture'
  <2>1. \A t \in Tables : -1 <= db[t]
    BY DEF IInv, Typed, NothingFromTheFuture
  <2>2. \A q \in BoardReads, t \in Tables : reads'[q][t] <= db[t]
    BY <1>1, <2>1 DEF IInv, Typed, NothingFromTheFuture
  <2> QED
    BY <2>2 DEF IInv, NothingFromTheFuture
<1>4. NewestIsAhead'
  <2>1. CASE latest = r
    BY <2>1 DEF Over, NewestIsAhead
  <2>2. CASE latest # r
    BY <1>1, <2>2 DEF IInv, Typed, Over, NewestIsAhead
  <2> QED
    BY <2>1, <2>2
<1> QED
  BY <1>2, <1>3, <1>4 DEF IInv

\* What lands is nowhere older than what the room had.
LEMMA LandsForward ==
  ASSUME IInv, NEW r \in BoardReads, Lands(r)
  PROVE  /\ room' \in [Tables -> Int]
         /\ \A t \in Tables : room[t] <= room'[t] /\ room'[t] <= db[t] /\ -1 <= room'[t]
<1>1. latest = r /\ latest # NoRead /\ room' = reads[r] /\ \A t \in Tables : reads[r][t] # Unread
  BY ReadsAssumption DEF Lands, IsLatest
<1>2. \A t \in Tables : room[t] <= reads[r][t] /\ reads[r][t] <= db[t]
  BY <1>1 DEF IInv, NewestIsAhead, NothingFromTheFuture
<1> QED
  BY <1>1, <1>2 DEF IInv, Typed, NothingFromTheFuture

LEMMA LandsInv == ASSUME IInv, NEW r \in BoardReads, Lands(r) PROVE IInv'
<1>1. /\ room' \in [Tables -> Int]
      /\ \A t \in Tables : room[t] <= room'[t] /\ room'[t] <= db[t] /\ -1 <= room'[t]
  BY LandsForward
<1>2. /\ reads' = [reads EXCEPT ![r] = Idle] /\ Idle \in [Tables -> Int]
      /\ \A t \in Tables : Idle[t] = -2
  BY DEF Lands, Over, Idle
<1>3. latest' = NoRead /\ UNCHANGED <<db, shown>>
  BY DEF Lands, IsLatest, Over
<1>4. Typed'
  BY <1>1, <1>2, <1>3 DEF IInv, Typed
<1>5. NothingFromTheFuture'
  <2>1. \A q \in BoardReads, t \in Tables : reads'[q][t] <= db'[t]
    <3>1. \A t \in Tables : -1 <= db[t]
      BY DEF IInv, Typed, NothingFromTheFuture
    <3> QED
      BY <1>2, <1>3, <3>1 DEF IInv, Typed, NothingFromTheFuture
  <2>2. \A p \in People, t \in Tables : shown'[p][t] <= room'[t]
    <3> SUFFICES ASSUME NEW p \in People, NEW t \in Tables PROVE shown'[p][t] <= room'[t]
      OBVIOUS
    <3>1. shown[p][t] \in Int /\ room[t] \in Int /\ room'[t] \in Int
      BY <1>1 DEF IInv, Typed
    <3>2. shown[p][t] <= room[t] /\ room[t] <= room'[t]
      BY <1>1 DEF IInv, NothingFromTheFuture
    <3> QED
      BY <1>3, <3>1, <3>2
  <2> QED
    BY <1>1, <1>3, <2>1, <2>2 DEF NothingFromTheFuture
<1>6. NewestIsAhead'
  BY <1>3 DEF NewestIsAhead
<1> QED
  BY <1>4, <1>5, <1>6 DEF IInv

\* A write makes a table newer.
LEMMA WritesInv == ASSUME IInv, NEW t \in Tables, Writes(t) PROVE IInv'
<1>1. /\ db' = [db EXCEPT ![t] = db[t] + 1]
      /\ UNCHANGED <<room, reads, shown, latest>>
  BY DEF Writes, people
<1>2. db' \in [Tables -> Int] /\ \A u \in Tables : db[u] <= db'[u]
  BY <1>1 DEF IInv, Typed
<1>3. Typed'
  BY <1>1, <1>2 DEF IInv, Typed
<1>4. NothingFromTheFuture'
  <2>1. \A u \in Tables : -1 <= room[u] /\ room[u] <= db'[u]
    BY <1>2 DEF IInv, Typed, NothingFromTheFuture
  <2>2. \A r \in BoardReads, u \in Tables : reads[r][u] <= db'[u]
    BY <1>2 DEF IInv, Typed, NothingFromTheFuture
  <2> QED
    BY <1>1, <2>1, <2>2 DEF IInv, NothingFromTheFuture
<1>5. NewestIsAhead'
  BY <1>1 DEF IInv, NewestIsAhead
<1> QED
  BY <1>3, <1>4, <1>5 DEF IInv

\* A person is shown what the room holds, or nothing.
LEMMA PeopleInv ==
  ASSUME IInv, NEW p \in People, UNCHANGED <<db, room, reads, latest>>,
         shown' \in {shown, [shown EXCEPT ![p] = room], [shown EXCEPT ![p] = Blank]}
  PROVE  IInv'
<1>1. Blank \in [Tables -> Int] /\ \A t \in Tables : Blank[t] = -1
  BY DEF Blank
<1>2. Typed'
  BY <1>1 DEF IInv, Typed
<1>3. \A q \in People, t \in Tables : shown'[q][t] <= room[t]
  <2> SUFFICES ASSUME NEW q \in People, NEW t \in Tables PROVE shown'[q][t] <= room[t]
    OBVIOUS
  <2>1. shown'[q][t] \in {shown[q][t], room[t], -1}
    BY <1>1 DEF IInv, Typed
  <2> QED
    BY <2>1 DEF IInv, Typed, NothingFromTheFuture
<1>4. NothingFromTheFuture'
  BY <1>3 DEF IInv, NothingFromTheFuture
<1>5. NewestIsAhead'
  BY DEF IInv, NewestIsAhead
<1> QED
  BY <1>2, <1>4, <1>5 DEF IInv

LEMMA NextInv == ASSUME IInv, [Next]_vars PROVE IInv'
<1>1. ASSUME NEW t \in Tables, Writes(t) PROVE IInv'
  BY <1>1, WritesInv
<1>2. ASSUME NEW r \in BoardReads, Follows(r) \/ Ticks(r) PROVE IInv'
  BY <1>2, StartInv DEF Follows, Ticks
<1>3. ASSUME NEW r \in BoardReads, Lands(r) PROVE IInv'
  BY <1>3, LandsInv
<1>4. ASSUME NEW r \in BoardReads, Discards(r) \/ ReadFails(r) PROVE IInv'
  BY <1>4, OverLatest DEF Discards, ReadFails, people
<1>5. ASSUME NEW r \in BoardReads, NEW t \in Tables, Queries(r, t) PROVE IInv'
  BY <1>5, QueriesInv
<1>6. ASSUME NEW p \in People, \/ Joins(p) \/ Leaves(p) \/ Asks(p) \/ Sends(p) \/ RoleFails(p)
      PROVE  IInv'
  BY <1>6, PeopleInv DEF Joins, Leaves, Asks, Sends, RoleFails, rows
<1>7. CASE UNCHANGED vars
  BY <1>7 DEF vars, rows, people, IInv, Typed, NothingFromTheFuture, NewestIsAhead
<1> QED
  BY <1>1, <1>2, <1>3, <1>4, <1>5, <1>6, <1>7 DEF Next

-----------------------------------------------------------------------------
\* However many reads of the board overlap and in whatever order they finish,
\* the newest of them has no row older than the room's (latest-read.ts).
THEOREM NewestReadIsNewest == Spec => []NewestIsNewest
<1>1. IInv => NewestIsNewest
  BY DEF IInv, Typed, NothingFromTheFuture, NewestIsAhead, NewestIsNewest
<1>2. IInv /\ [Next]_vars => IInv'
  BY NextInv
<1> QED
  BY <1>1, <1>2, InitInv, PTL DEF Spec

\* A step shows nobody who stays an older board, and the room takes none.
LEMMA StepForward ==
  ASSUME IInv, [Next]_vars, NEW t \in Tables
  PROVE  /\ room'[t] >= room[t]
         /\ \A p \in here \cap here' : p \in People => shown'[p][t] >= shown[p][t]
<1>0. room[t] \in Int /\ \A p \in People : shown[p][t] \in Int /\ shown[p][t] <= room[t]
  BY DEF IInv, Typed, NothingFromTheFuture
<1>1. CASE UNCHANGED <<room, shown>>
  BY <1>0, <1>1
<1>2. ASSUME NEW r \in BoardReads, Lands(r)
      PROVE  room'[t] >= room[t] /\ UNCHANGED shown
  BY <1>2, LandsForward DEF Lands, IInv, Typed
<1>3. ASSUME NEW q \in People, Joins(q)
      PROVE  /\ UNCHANGED room
             /\ \A p \in here \cap here' : p \in People => shown'[p][t] = shown[p][t]
  BY <1>3 DEF Joins, rows, IInv, Typed
<1>4. ASSUME NEW q \in People, Sends(q)
      PROVE  /\ UNCHANGED room
             /\ \A p \in People : shown'[p][t] \in {shown[p][t], room[t]}
  BY <1>4 DEF Sends, rows, IInv, Typed
<1>5. ASSUME \/ \E u \in Tables : Writes(u)
             \/ \E r \in BoardReads : \/ Follows(r) \/ Ticks(r) \/ Discards(r) \/ ReadFails(r)
                                 \/ \E u \in Tables : Queries(r, u)
             \/ \E p \in People : Leaves(p) \/ Asks(p) \/ RoleFails(p)
             \/ UNCHANGED vars
      PROVE  UNCHANGED <<room, shown>>
  BY <1>5 DEF Writes, Follows, Ticks, Start, Discards, ReadFails, Queries, Leaves, Asks,
              RoleFails, vars, rows, people
<1>6. CASE \E r \in BoardReads : Lands(r)
  BY <1>0, <1>2, <1>6
<1>7. CASE \E q \in People : Joins(q)
  BY <1>0, <1>3, <1>7
<1>8. CASE \E q \in People : Sends(q)
  BY <1>0, <1>4, <1>8
<1> QED
  BY <1>1, <1>5, <1>6, <1>7, <1>8 DEF Next

\* A note just written never vanishes again: neither the room's board nor that
\* of a person who stays goes back to an older version of any table, for any
\* number of overlapping reads (#refreshBoard, #sendBoard).
THEOREM BoardNeverGoesBack == Spec => NeverBack
<1>1. here \subseteq People /\ [Next]_vars => (here \subseteq People)'
  BY DEF Next, vars, rows, people, Writes, Follows, Ticks, Start, Lands, Discards, ReadFails,
         Queries, Joins, Leaves, Asks, Sends, RoleFails
<1>2. Init => here \subseteq People
  BY DEF Init
<1>3. IInv /\ here \subseteq People /\ [Next]_vars =>
        [\A t \in Tables : /\ room'[t] >= room[t]
                           /\ \A p \in here \cap here' : shown'[p][t] >= shown[p][t]]_vars
  BY StepForward
<1>4. IInv /\ [Next]_vars => IInv'
  BY NextInv
<1> QED
  BY <1>1, <1>2, <1>3, <1>4, InitInv, PTL DEF Spec, NeverBack

-----------------------------------------------------------------------------
(* What was read.                                                          *)

Counts == [Channels -> Nat]
Page ==
  [is : {"closed", "in", "on", "cut"}, view : Channels \cup {None}, seen : Counts,
   unread : Counts, due : SUBSET Channels, told : [sent : BOOLEAN, at : Counts]]

\* Up to when each conversation was on a screen, or was read by a page that
\* had not got it.
Looked == [c \in Channels |-> IF onScreen[c] >= blind[c] THEN onScreen[c] ELSE blind[c]]
GhostsTyped == onScreen \in Counts /\ blind \in Counts

\* Nowhere past what was looked at.
Within(counts, screen) == \A c \in Channels : counts[c] <= screen[c]

\* A page that is up has its conversation looked at, and shows the others'
\* news as unread.
ShowsItsNews(t, newest, screen) ==
  t.is = "on" => \A c \in Channels :
    IF t.view = c THEN newest[c] <= screen[c] ELSE newest[c] > screen[c] => t.unread[c] > 0

Honest(t, newest, screen) == t \in Page /\ Within(t.seen, screen) /\ ShowsItsNews(t, newest, screen)

ReadingTyped ==
  /\ last \in Counts /\ stored \in Counts /\ Looked \in Counts
  /\ inRoom \in [there : BOOLEAN, whole : BOOLEAN, at : Counts]
  /\ loads \subseteq [of : Tabs \cup {Nobody}, at : Counts]
  /\ marks \subseteq [c : Channels, at : Nat, pc : {"asked", "moved"}]

\* What anybody takes for read was looked at.
OnlyTheSeenIsRead ==
  /\ Within(stored, Looked) /\ Within(inRoom.at, Looked)
  /\ \A l \in loads : Within(l.at, Looked)
  /\ \A m \in marks : m.at <= Looked[m.c]

\* The newest line is one that was said, and nobody looked ahead of it.
NewestWasSaid ==
  Channels # {} => \E x \in Channels : \A y \in Channels : last[y] <= last[x] /\ Looked[y] <= last[x]

PagesAreHonest == DOMAIN tab = Tabs /\ \A d \in Tabs : Honest(tab[d], last, Looked)

RInv == ReadingTyped /\ OnlyTheSeenIsRead /\ NewestWasSaid /\ PagesAreHonest

-----------------------------------------------------------------------------
LEMMA MaxOfTwo ==
  ASSUME NEW a \in Nat, NEW b \in Nat
  PROVE  Max({a, b}) \in {a, b} /\ a <= Max({a, b}) /\ b <= Max({a, b})
<1>1. \E x \in {a, b} : \A y \in {a, b} : x >= y
  <2>1. CASE a >= b
    BY <2>1
  <2>2. CASE b >= a
    BY <2>2
  <2> QED
    BY <2>1, <2>2
<1> QED
  BY <1>1 DEF Max

LEMMA LaterIsBoth ==
  ASSUME NEW s \in Counts, NEW t \in Counts
  PROVE  /\ Later(s, t) \in Counts
         /\ \A c \in Channels : Later(s, t)[c] \in {s[c], t[c]}
         /\ Within(s, Later(s, t)) /\ Within(t, Later(s, t))
<1>1. \A c \in Channels : /\ Later(s, t)[c] = Max({s[c], t[c]}) /\ s[c] \in Nat /\ t[c] \in Nat
  BY DEF Later, Counts
<1>2. \A c \in Channels : /\ Later(s, t)[c] \in {s[c], t[c]}
                          /\ s[c] <= Later(s, t)[c] /\ t[c] <= Later(s, t)[c]
  BY <1>1, MaxOfTwo, ZenonT(30)
<1>3. Later(s, t) \in Counts
  BY <1>1, <1>2 DEF Later, Counts
<1> QED
  BY <1>2, <1>3 DEF Within

LEMMA LaterWithin ==
  ASSUME NEW s \in Counts, NEW t \in Counts, NEW u, Within(s, u), Within(t, u)
  PROVE  Later(s, t) \in Counts /\ Within(Later(s, t), u)
<1>1. \A c \in Channels : Later(s, t)[c] \in {s[c], t[c]}
  BY LaterIsBoth
<1>2. Within(Later(s, t), u)
  <2> SUFFICES ASSUME NEW c \in Channels PROVE Later(s, t)[c] <= u[c]
    BY DEF Within
  <2> QED BY <1>1 DEF Within
<1> QED
  BY <1>2, LaterIsBoth

LEMMA NowIsNewest ==
  ASSUME RInv, Channels # {}
  PROVE  /\ Now \in Nat /\ \E x \in Channels : Now = last[x]
         /\ \A c \in Channels : last[c] <= Now /\ Looked[c] <= Now
<1>1. PICK x \in Channels : \A y \in Channels : last[y] <= last[x] /\ Looked[y] <= last[x]
  BY DEF RInv, NewestWasSaid
<1>2. \A y \in Channels : last[y] \in Nat
  BY DEF RInv, ReadingTyped, Counts
<1> DEFINE L == {last[c] : c \in Channels}
<1>3. last[x] \in L /\ \A z \in L : last[x] >= z
  BY <1>1, <1>2
<1>4. Now \in L /\ \A z \in L : Now >= z
  BY <1>3 DEF Now, Max
<1>5. Now = last[x]
  BY <1>2, <1>3, <1>4
<1> QED
  BY <1>1, <1>2, <1>5

-----------------------------------------------------------------------------
\* The list of channels, folded in, leaves nothing unseen out.
LEMMA CaughtUpHonest ==
  ASSUME last \in Counts, NEW screen \in Counts,
         NEW t \in Page, Within(t.seen, screen), t.is = "on",
         \A c \in Channels : t.view = c => last[c] <= screen[c],
         NEW cursors \in Counts, Within(cursors, screen)
  PROVE  Honest(CaughtUp(t, cursors), last, screen)
<1> DEFINE seen == Folded(t.seen, cursors)
           moved == {c \in Channels : seen[c] > t.seen[c]}
           waits(c) == t.unread[c] > 0 /\ ~SeenElsewhere(t, cursors, c)
           news(c) == t.view # c /\ last[c] > seen[c]
           shows == [c \in Channels |-> IF waits(c) THEN t.unread[c]
                                       ELSE IF news(c) THEN last[c] ELSE 0]
           u == CaughtUp(t, cursors)
<1>1. t.seen \in Counts /\ t.unread \in Counts /\ t.due \subseteq Channels
  BY DEF Page
<1>2. seen \in Counts /\ Within(seen, screen)
  BY <1>1, LaterWithin DEF Folded
<1>3. shows \in Counts
  BY <1>1 DEF Counts
<1>4. u = [[t EXCEPT !.seen = seen, !.due = @ \cup moved] EXCEPT !.unread = shows]
  BY DEF CaughtUp, Noted
<1>5. u \in Page /\ u.seen = seen /\ u.unread = shows /\ u.is = t.is /\ u.view = t.view
  <2> HIDE DEF seen, shows, u
  <2>1. moved \subseteq Channels
    OBVIOUS
  <2> HIDE DEF moved
  <2> QED BY <1>2, <1>3, <1>4, <2>1 DEF Page
<1>6. ASSUME NEW c \in Channels, t.view # c, last[c] > screen[c] PROVE shows[c] > 0
  <2>1. last[c] \in Nat /\ screen[c] \in Nat /\ seen[c] \in Nat /\ seen[c] <= screen[c]
    BY <1>2 DEF Counts, Within
  <2>2. news(c) /\ last[c] > 0
    BY <1>6, <2>1
  <2> QED BY <2>2
<1>7. ShowsItsNews(u, last, screen)
  BY <1>5, <1>6 DEF ShowsItsNews
<1> QED
  BY <1>2, <1>5, <1>7 DEF Honest

LEMMA OfferedHonest ==
  ASSUME RInv, NEW t, Honest(t, last, Looked), NEW cursors \in Counts, Within(cursors, Looked)
  PROVE  Honest(Offered(t, cursors), last, Looked)
<1> DEFINE u == [t EXCEPT !.told = Signature(cursors)]
<1>1. t \in Page
  BY DEF Honest
<1>2. Signature(cursors) \in [sent : BOOLEAN, at : Counts]
  BY DEF Signature
<1>3. u \in Page /\ u.is = t.is /\ u.view = t.view /\ u.seen = t.seen /\ u.unread = t.unread
  BY <1>1, <1>2 DEF Page
<1>4. Honest(u, last, Looked)
  BY <1>3 DEF Honest, ShowsItsNews
<1>5. CASE u.is = "on"
  <2>1. \A c \in Channels : u.view = c => last[c] <= Looked[c]
    BY <1>4, <1>5 DEF Honest, ShowsItsNews
  <2>2. Honest(CaughtUp(u, cursors), last, Looked)
    BY <1>3, <1>4, <1>5, <2>1, CaughtUpHonest DEF Honest, RInv, ReadingTyped
  <2> QED BY <1>3, <1>5, <2>2 DEF Offered
<1>6. CASE u.is # "on"
  BY <1>3, <1>4, <1>6 DEF Offered
<1> QED BY <1>5, <1>6

LEMMA SentHonest ==
  ASSUME RInv, NEW ds, NEW cursors \in Counts, Within(cursors, Looked)
  PROVE  /\ DOMAIN SentTo(ds, cursors) = Tabs
         /\ \A d \in Tabs : Honest(SentTo(ds, cursors)[d], last, Looked)
<1>1. ASSUME NEW d \in Tabs PROVE Honest(SentTo(ds, cursors)[d], last, Looked)
  <2>1. Honest(tab[d], last, Looked)
    BY DEF RInv, PagesAreHonest
  <2>2. Honest(Offered(tab[d], cursors), last, Looked)
    BY <2>1, OfferedHonest
  <2> QED BY <2>1, <2>2 DEF SentTo
<1> QED BY <1>1 DEF SentTo

\* A page with a new account, the others as they were.
LEMMA OnePageHonest ==
  ASSUME RInv, NEW d \in Tabs, NEW t, Honest(t, last, Looked),
         UNCHANGED <<last, Looked>>, tab' = [tab EXCEPT ![d] = t]
  PROVE  PagesAreHonest'
<1>1. \A e \in Tabs : tab'[e] \in {t, tab[e]} /\ DOMAIN tab' = Tabs
  BY DEF RInv, PagesAreHonest
<1>2. \A e \in Tabs : Honest(tab'[e], last, Looked)
  BY <1>1 DEF RInv, PagesAreHonest
<1> QED BY <1>1, <1>2 DEF PagesAreHonest

-----------------------------------------------------------------------------
LEMMA ReadingInitInv == ReadingInit => RInv
<1> SUFFICES ASSUME ReadingInit PROVE RInv
  OBVIOUS
<1>1. Never \in Counts /\ (\A c \in Channels : Never[c] = 0) /\ Untold \in [sent : BOOLEAN, at : Counts]
  BY DEF Never, Untold, Counts
<1>2. ReadingTyped
  BY <1>1 DEF ReadingInit, ReadingTyped, NotLoaded, Looked, Counts
<1>3. OnlyTheSeenIsRead
  BY <1>1 DEF ReadingInit, OnlyTheSeenIsRead, Within, NotLoaded, Looked
<1>4. NewestWasSaid
  BY <1>1 DEF ReadingInit, NewestWasSaid, Looked
<1>5. Honest(Closed, last, Looked)
  BY <1>1 DEF ReadingInit, Honest, Closed, Page, Within, ShowsItsNews, Looked
<1> QED
  BY <1>2, <1>3, <1>4, <1>5 DEF ReadingInit, PagesAreHonest, RInv

\* What a step that puts nothing on a screen owes.
LEMMA QuietStep ==
  ASSUME RInv, UNCHANGED <<last, Looked>>, ReadingTyped', OnlyTheSeenIsRead', PagesAreHonest'
  PROVE  RInv'
BY DEF RInv, NewestWasSaid

LEMMA PagesStay ==
  ASSUME RInv, UNCHANGED <<last, Looked, tab>>
  PROVE  PagesAreHonest'
BY DEF RInv, PagesAreHonest

LEMMA OrphanedSeen ==
  ASSUME RInv, NEW d \in Tabs
  PROVE  /\ Orphaned(d) \subseteq [of : Tabs \cup {Nobody}, at : Counts]
         /\ \A l \in Orphaned(d) : Within(l.at, Looked)
<1> SUFFICES ASSUME NEW k \in Orphaned(d)
             PROVE  k \in [of : Tabs \cup {Nobody}, at : Counts] /\ Within(k.at, Looked)
  OBVIOUS
<1>1. PICK l \in loads : k = IF l.of = d THEN [l EXCEPT !.of = Nobody] ELSE l
  BY DEF Orphaned
<1>2. l \in [of : Tabs \cup {Nobody}, at : Counts] /\ Within(l.at, Looked)
  BY DEF RInv, ReadingTyped, OnlyTheSeenIsRead
<1>3. k \in [of : Tabs \cup {Nobody}, at : Counts] /\ k.at = l.at
  BY <1>1, <1>2
<1> QED BY <1>2, <1>3

LEMMA LoadLandsInv == ASSUME RInv, NEW l \in loads, LoadLands(l) PROVE RInv'
<1>1. UNCHANGED <<last, stored, marks, Looked>> /\ loads' = loads \ {l}
  BY DEF LoadLands, screens, Looked
<1>2. l.at \in Counts /\ Within(l.at, Looked) /\ inRoom.at \in Counts /\ Within(inRoom.at, Looked)
  BY DEF RInv, ReadingTyped, OnlyTheSeenIsRead
<1>3. Later(inRoom.at, l.at) \in Counts /\ Within(Later(inRoom.at, l.at), Looked)
  BY <1>2, LaterWithin
<1>4. CASE UNCHANGED <<inRoom, tab>>
  <2>1. ReadingTyped' /\ OnlyTheSeenIsRead'
    BY <1>1, <1>4 DEF RInv, ReadingTyped, OnlyTheSeenIsRead, Within
  <2> QED BY <1>1, <1>4, <2>1, PagesStay, QuietStep
<1>5. CASE /\ inRoom' = [there |-> TRUE, whole |-> inRoom.whole \/ l.of # Nobody,
                         at |-> Later(inRoom.at, l.at)]
           /\ tab' = SentTo({l.of}, inRoom'.at)
  <2>1. inRoom'.at = Later(inRoom.at, l.at) /\ inRoom' \in [there : BOOLEAN, whole : BOOLEAN, at : Counts]
    BY <1>3, <1>5 DEF RInv, ReadingTyped
  <2>2. ReadingTyped'
    BY <1>1, <2>1 DEF RInv, ReadingTyped
  <2>3. OnlyTheSeenIsRead'
    BY <1>1, <1>3, <2>1 DEF RInv, OnlyTheSeenIsRead, Within
  <2>4. tab' = SentTo({l.of}, Later(inRoom.at, l.at))
    BY <1>5, <2>1
  <2>5. PagesAreHonest'
    BY <1>1, <1>3, <2>4, SentHonest DEF PagesAreHonest
  <2> QED BY <1>1, <2>2, <2>3, <2>5, QuietStep
<1> QED BY <1>4, <1>5 DEF LoadLands

LEMMA LoadFailsInv == ASSUME RInv, NEW l \in loads, LoadFails(l) PROVE RInv'
<1>1. /\ UNCHANGED <<last, stored, marks, tab, Looked>> /\ loads' = loads \ {l}
      /\ inRoom' = [inRoom EXCEPT !.whole = FALSE]
  BY DEF LoadFails, screens, Looked
<1>2. inRoom'.at = inRoom.at /\ inRoom' \in [there : BOOLEAN, whole : BOOLEAN, at : Counts]
  BY <1>1 DEF RInv, ReadingTyped
<1>3. ReadingTyped' /\ OnlyTheSeenIsRead'
  BY <1>1, <1>2 DEF RInv, ReadingTyped, OnlyTheSeenIsRead, Within
<1> QED BY <1>1, <1>3, PagesStay, QuietStep

LEMMA MarkWritesInv == ASSUME RInv, NEW m \in marks, MarkWrites(m) PROVE RInv'
<1>1. UNCHANGED <<last, inRoom, loads, tab, Looked>>
  BY DEF MarkWrites, screens, Looked
<1>2. m \in [c : Channels, at : Nat, pc : {"asked", "moved"}] /\ m.at <= Looked[m.c]
  BY DEF RInv, ReadingTyped, OnlyTheSeenIsRead
<1>3. stored' \in Counts /\ Within(stored', Looked)
  <2>1. stored' \in {stored, [stored EXCEPT ![m.c] = m.at]}
    BY DEF MarkWrites
  <2> QED BY <1>2, <2>1 DEF RInv, ReadingTyped, OnlyTheSeenIsRead, Within, Counts
<1>4. marks' \subseteq marks \cup {[m EXCEPT !.pc = "moved"]}
  BY DEF MarkWrites
<1>5. /\ [m EXCEPT !.pc = "moved"] \in [c : Channels, at : Nat, pc : {"asked", "moved"}]
      /\ [m EXCEPT !.pc = "moved"].at = m.at /\ [m EXCEPT !.pc = "moved"].c = m.c
  BY <1>2
<1>6. ReadingTyped'
  BY <1>1, <1>3, <1>4, <1>5 DEF RInv, ReadingTyped
<1>7. \A k \in marks' : k.at <= Looked[k.c]
  BY <1>2, <1>4, <1>5 DEF RInv, OnlyTheSeenIsRead
<1>8. OnlyTheSeenIsRead'
  BY <1>1, <1>3, <1>7 DEF RInv, OnlyTheSeenIsRead, Within
<1> QED BY <1>1, <1>6, <1>8, PagesStay, QuietStep

LEMMA MarkFailsInv == ASSUME RInv, NEW m \in marks, MarkFails(m) PROVE RInv'
<1>1. UNCHANGED <<last, stored, inRoom, loads, tab, Looked>> /\ marks' = marks \ {m}
  BY DEF MarkFails, screens, Looked
<1>2. ReadingTyped' /\ OnlyTheSeenIsRead'
  BY <1>1 DEF RInv, ReadingTyped, OnlyTheSeenIsRead, Within
<1> QED BY <1>1, <1>2, PagesStay, QuietStep

LEMMA MarkLandsInv == ASSUME RInv, NEW m \in marks, MarkLands(m) PROVE RInv'
<1>1. UNCHANGED <<last, stored, loads, Looked>> /\ marks' = marks \ {m}
  BY DEF MarkLands, screens, Looked
<1>2. m \in [c : Channels, at : Nat, pc : {"asked", "moved"}] /\ m.at <= Looked[m.c]
  BY DEF RInv, ReadingTyped, OnlyTheSeenIsRead
<1>3. CASE UNCHANGED <<inRoom, tab>>
  <2>1. ReadingTyped' /\ OnlyTheSeenIsRead'
    BY <1>1, <1>3 DEF RInv, ReadingTyped, OnlyTheSeenIsRead, Within
  <2> QED BY <1>1, <1>3, <2>1, PagesStay, QuietStep
<1>4. CASE /\ inRoom' = [inRoom EXCEPT !.there = TRUE, !.at[m.c] = m.at]
           /\ tab' = SentTo(Tabs, inRoom'.at)
  <2> DEFINE at == [inRoom.at EXCEPT ![m.c] = m.at]
  <2>1. inRoom.at \in Counts /\ Within(inRoom.at, Looked)
    BY DEF RInv, ReadingTyped, OnlyTheSeenIsRead
  <2>2. at \in Counts /\ Within(at, Looked)
    BY <1>2, <2>1 DEF Counts, Within
  <2>3. inRoom'.at = at /\ inRoom' \in [there : BOOLEAN, whole : BOOLEAN, at : Counts]
    BY <1>4, <2>2 DEF RInv, ReadingTyped
  <2>4. ReadingTyped'
    BY <1>1, <2>3 DEF RInv, ReadingTyped
  <2>5. OnlyTheSeenIsRead'
    BY <1>1, <2>2, <2>3 DEF RInv, OnlyTheSeenIsRead, Within
  <2>6. tab' = SentTo(Tabs, at)
    BY <1>4, <2>3
  <2>7. PagesAreHonest'
    BY <1>1, <2>2, <2>6, SentHonest DEF PagesAreHonest
  <2> QED BY <1>1, <2>4, <2>5, <2>7, QuietStep
<1> QED BY <1>3, <1>4 DEF MarkLands

LEMMA RefreshesInv == ASSUME RInv, Refreshes PROVE RInv'
<1>1. UNCHANGED <<last, stored, inRoom, loads, marks, Looked>> /\ tab' = SentTo(Tabs, inRoom.at)
  BY DEF Refreshes, screens, Looked
<1>2. inRoom.at \in Counts /\ Within(inRoom.at, Looked)
  BY DEF RInv, ReadingTyped, OnlyTheSeenIsRead
<1>3. PagesAreHonest'
  BY <1>1, <1>2, SentHonest DEF PagesAreHonest
<1>4. ReadingTyped' /\ OnlyTheSeenIsRead'
  BY <1>1 DEF RInv, ReadingTyped, OnlyTheSeenIsRead, Within
<1> QED BY <1>1, <1>3, <1>4, QuietStep

-----------------------------------------------------------------------------
\* More on a screen makes nothing unseen.
LEMMA MoreIsSeen ==
  ASSUME RInv, last' \in Counts, Looked' \in Counts, \A c \in Channels : Looked[c] <= Looked'[c],
         UNCHANGED <<stored, office>>, NewestWasSaid', PagesAreHonest'
  PROVE  RInv'
<1>1. ASSUME NEW s \in Counts, Within(s, Looked) PROVE Within(s, Looked')
  <2> SUFFICES ASSUME NEW c \in Channels PROVE s[c] <= Looked'[c]
    BY DEF Within
  <2>1. s[c] \in Nat /\ Looked[c] \in Nat /\ Looked'[c] \in Nat
    BY DEF Counts, RInv, ReadingTyped
  <2>2. s[c] <= Looked[c] /\ Looked[c] <= Looked'[c]
    BY <1>1 DEF Within
  <2> QED BY <2>1, <2>2
<1>2. UNCHANGED <<stored, inRoom, loads, marks>>
  BY DEF office
<1>3. ReadingTyped'
  BY <1>2 DEF RInv, ReadingTyped
<1>4. /\ stored \in Counts /\ Within(stored, Looked) /\ inRoom.at \in Counts /\ Within(inRoom.at, Looked)
      /\ \A l \in loads : l.at \in Counts /\ Within(l.at, Looked)
  BY DEF RInv, ReadingTyped, OnlyTheSeenIsRead
<1>5. ASSUME NEW m \in marks PROVE m.at <= Looked'[m.c]
  <2>1. m.c \in Channels /\ m.at \in Nat /\ m.at <= Looked[m.c]
    BY DEF RInv, ReadingTyped, OnlyTheSeenIsRead
  <2>2. Looked[m.c] \in Nat /\ Looked'[m.c] \in Nat /\ Looked[m.c] <= Looked'[m.c]
    BY <2>1 DEF Counts, RInv, ReadingTyped
  <2> QED BY <2>1, <2>2
<1>6. /\ Within(stored, Looked') /\ Within(inRoom.at, Looked')
      /\ \A l \in loads : Within(l.at, Looked')
  BY <1>1, <1>4
<1>7. OnlyTheSeenIsRead'
  BY <1>2, <1>5, <1>6 DEF OnlyTheSeenIsRead, Within
<1> QED BY <1>3, <1>7 DEF RInv

\* One of the two ghosts reaches further, and with it what was looked at.
LEMMA LookedMoves ==
  ASSUME RInv, GhostsTyped, NEW c \in Channels, NEW n \in Nat, Looked[c] <= n,
         \/ onScreen' = [onScreen EXCEPT ![c] = n] /\ UNCHANGED blind
         \/ blind' = [blind EXCEPT ![c] = n] /\ UNCHANGED onScreen
  PROVE  Looked' = [Looked EXCEPT ![c] = n]
<1>1. /\ \A y \in Channels : onScreen[y] \in Nat /\ blind[y] \in Nat
      /\ DOMAIN onScreen = Channels /\ DOMAIN blind = Channels
  BY DEF GhostsTyped, Counts
<1>2. onScreen[c] <= n /\ blind[c] <= n
  BY <1>1 DEF Looked
<1>3. ASSUME NEW y \in Channels PROVE Looked'[y] = IF y = c THEN n ELSE Looked[y]
  BY <1>1, <1>2 DEF Looked
<1>4. DOMAIN Looked = Channels /\ Looked' = [y \in Channels |-> Looked'[y]]
  BY DEF Looked
<1> QED BY <1>3, <1>4

\* A page that hears of a line.
LEMMA ReadKeepsPage ==
  ASSUME NEW t \in Page, NEW c \in Channels, NEW n \in Nat
  PROVE  /\ Read(t, c, n) \in Page /\ Read(t, c, n).is = t.is /\ Read(t, c, n).view = t.view
         /\ Read(t, c, n).seen = [t.seen EXCEPT ![c] = n]
         /\ Read(t, c, n).unread = [t.unread EXCEPT ![c] = 0]
<1> DEFINE seen == [t.seen EXCEPT ![c] = n]
           moved == {x \in Channels : seen[x] > t.seen[x]}
           shows == [t.unread EXCEPT ![c] = 0]
<1>1. seen \in Counts /\ moved \subseteq Channels /\ shows \in Counts
  BY DEF Page, Counts
<1>2. Read(t, c, n) = [[t EXCEPT !.seen = seen, !.due = @ \cup moved] EXCEPT !.unread[c] = 0]
  BY DEF Read, Noted
<1> DEFINE p == [t EXCEPT !.seen = seen, !.due = @ \cup moved]
           u == [p EXCEPT !.unread = shows]
<1> HIDE DEF moved, seen, shows
<1>3. /\ p \in Page /\ p.is = t.is /\ p.view = t.view /\ p.seen = seen /\ p.unread = t.unread
  BY <1>1 DEF Page
<1>4. Read(t, c, n) = u
  <2>1. Read(t, c, n) = [p EXCEPT !.unread = [p.unread EXCEPT ![c] = 0]]
    BY <1>2
  <2> QED BY <1>3, <2>1 DEF shows
<1> HIDE DEF p
<1>5. u \in Page /\ u.is = t.is /\ u.view = t.view /\ u.seen = seen /\ u.unread = shows
  BY <1>1, <1>3 DEF Page
<1> QED BY <1>4, <1>5 DEF seen, shows

LEMMA SaysInv == ASSUME RInv, GhostsTyped, NEW c \in Channels, Says(c) PROVE RInv'
<1> DEFINE n == Now + 1
           Heed(t) == IF t.is = "on" THEN Heard(t, c, n) ELSE t
<1>1. /\ Now \in Nat /\ \E x \in Channels : Now = last[x]
      /\ \A y \in Channels : last[y] <= Now /\ Looked[y] <= Now
  BY NowIsNewest
<1>2. n \in Nat /\ n > Now /\ last' = [last EXCEPT ![c] = n]
      /\ UNCHANGED <<stored, office>> /\ tab' = [d \in Tabs |-> Heed(tab[d])]
  BY <1>1 DEF Says
<1>3. /\ Looked' = IF \E d \in Tabs : tab[d].is = "on" /\ tab[d].view = c
                     THEN [Looked EXCEPT ![c] = n] ELSE Looked
  <2>1. Looked[c] <= n
    BY <1>1, <1>2 DEF RInv, ReadingTyped, Counts
  <2>2. CASE \E d \in Tabs : tab[d].is = "on" /\ tab[d].view = c
    <3>1. onScreen' = [onScreen EXCEPT ![c] = n] /\ UNCHANGED blind
      BY <2>2 DEF Says
    <3> HIDE DEF n
    <3> QED BY <1>2, <2>1, <2>2, <3>1, LookedMoves
  <2>3. CASE ~\E d \in Tabs : tab[d].is = "on" /\ tab[d].view = c
    BY <2>3 DEF Says, Looked
  <2> QED BY <2>2, <2>3
<1>4. last \in Counts /\ Looked \in Counts
  BY DEF RInv, ReadingTyped
<1> HIDE DEF n
<1>5. /\ last' \in Counts /\ last'[c] = n /\ \A y \in Channels : y # c => last'[y] = last[y]
  BY <1>2, <1>4 DEF Counts
<1>6. /\ Looked' \in Counts /\ Looked'[c] \in {Looked[c], n}
      /\ \A y \in Channels : y # c => Looked'[y] = Looked[y]
  BY <1>2, <1>3, <1>4 DEF Counts
<1>7. \A y \in Channels : Looked[y] <= Looked'[y] /\ Looked'[y] <= n /\ last'[y] <= n
  <2> SUFFICES ASSUME NEW y \in Channels
               PROVE  Looked[y] <= Looked'[y] /\ Looked'[y] <= n /\ last'[y] <= n
    OBVIOUS
  <2>1. last[y] \in Nat /\ Looked[y] \in Nat /\ last[y] <= Now /\ Looked[y] <= Now
    BY <1>1, <1>4 DEF Counts
  <2>2. CASE y = c
    BY <1>1, <1>2, <1>5, <1>6, <2>1, <2>2
  <2>3. CASE y # c
    BY <1>1, <1>2, <1>5, <1>6, <2>1, <2>3
  <2> QED BY <2>2, <2>3
<1>8. NewestWasSaid'
  BY <1>5, <1>7 DEF NewestWasSaid
<1>9. ASSUME NEW d \in Tabs PROVE Honest(Heed(tab[d]), last', Looked')
  <2>1. tab[d] \in Page /\ Within(tab[d].seen, Looked) /\ ShowsItsNews(tab[d], last, Looked)
    BY DEF RInv, PagesAreHonest, Honest
  <2>2. tab[d].seen \in Counts /\ tab[d].unread \in Counts
    BY <2>1 DEF Page
  <2>3. Within(tab[d].seen, Looked')
    <3> SUFFICES ASSUME NEW y \in Channels PROVE tab[d].seen[y] <= Looked'[y]
      BY DEF Within
    <3>1. tab[d].seen[y] \in Nat /\ Looked[y] \in Nat /\ Looked'[y] \in Nat
      BY <1>4, <1>6, <2>2 DEF Counts
    <3>2. tab[d].seen[y] <= Looked[y] /\ Looked[y] <= Looked'[y]
      BY <1>7, <2>1 DEF Within
    <3> QED BY <3>1, <3>2
  <2>4. CASE tab[d].is # "on"
    BY <2>1, <2>3, <2>4 DEF Honest, ShowsItsNews
  <2>5. CASE tab[d].is = "on" /\ tab[d].view = c
    <3> DEFINE t == Read(tab[d], c, n)
    <3>1. Heed(tab[d]) = t
      BY <2>5 DEF Heard
    <3>2. /\ t \in Page /\ t.view = c /\ t.seen = [tab[d].seen EXCEPT ![c] = n]
          /\ t.unread = [tab[d].unread EXCEPT ![c] = 0] /\ t.is = "on"
      <4>1. n \in Nat /\ tab[d] \in Page
        BY <1>2, <2>1
      <4>2. /\ t \in Page /\ t.is = tab[d].is /\ t.view = tab[d].view
            /\ t.seen = [tab[d].seen EXCEPT ![c] = n] /\ t.unread = [tab[d].unread EXCEPT ![c] = 0]
        BY <4>1, ReadKeepsPage
      <4> QED BY <2>5, <4>2
    <3>3. Looked'[c] = n
      BY <1>3, <1>4, <2>5 DEF Counts
    <3>4. Within(t.seen, Looked')
      <4> SUFFICES ASSUME NEW y \in Channels PROVE [tab[d].seen EXCEPT ![c] = n][y] <= Looked'[y]
        BY <3>2 DEF Within
      <4>1. CASE y = c
        BY <1>2, <2>2, <3>3, <4>1 DEF Counts
      <4>2. CASE y # c
        BY <2>2, <2>3, <4>2 DEF Counts, Within
      <4> QED BY <4>1, <4>2
    <3>5. last'[c] <= Looked'[c]
      BY <1>2, <1>5, <3>3
    <3>6. ASSUME NEW y \in Channels, y # c, last'[y] > Looked'[y] PROVE t.unread[y] > 0
      <4>1. last[y] > Looked[y]
        BY <1>5, <1>6, <3>6
      <4>2. tab[d].unread[y] > 0
        BY <2>1, <2>5, <3>6, <4>1 DEF ShowsItsNews
      <4> QED BY <2>2, <3>2, <3>6, <4>2 DEF Counts
    <3>7. ShowsItsNews(t, last', Looked')
      <4> HIDE DEF t
      <4> QED BY <3>2, <3>5, <3>6 DEF ShowsItsNews
    <3> QED BY <3>1, <3>2, <3>4, <3>7 DEF Honest
  <2>6. CASE tab[d].is = "on" /\ tab[d].view # c
    <3> DEFINE t == [tab[d] EXCEPT !.unread[c] = n]
    <3>1. Heed(tab[d]) = t
      BY <2>6 DEF Heard
    <3>2. /\ t.unread = [tab[d].unread EXCEPT ![c] = n] /\ t.is = "on" /\ t.view = tab[d].view
          /\ t.seen = tab[d].seen
      BY <2>1, <2>6 DEF Page
    <3>3. t \in Page
      <4>1. [tab[d].unread EXCEPT ![c] = n] \in Counts
        BY <1>2, <2>2 DEF Counts
      <4> QED BY <2>1, <4>1 DEF Page
    <3>4. t.unread[c] = n /\ n > 0
      BY <1>1, <1>2, <2>2, <3>2 DEF Counts
    <3>5. ASSUME NEW y \in Channels, y # c
          PROVE  t.unread[y] = tab[d].unread[y] /\ last'[y] = last[y] /\ Looked'[y] = Looked[y]
      BY <1>5, <1>6, <2>2, <3>2, <3>5 DEF Counts
    <3>6. ShowsItsNews(t, last', Looked')
      <4> SUFFICES ASSUME NEW y \in Channels
                   PROVE  IF t.view = y THEN last'[y] <= Looked'[y]
                          ELSE last'[y] > Looked'[y] => t.unread[y] > 0
        BY DEF ShowsItsNews
      <4> HIDE DEF t
      <4>1. CASE y = c
        BY <2>6, <3>2, <3>4, <4>1
      <4>2. CASE y # c
        BY <2>1, <2>6, <3>2, <3>5, <4>2 DEF ShowsItsNews
      <4> QED BY <4>1, <4>2
    <3> QED BY <2>3, <3>1, <3>2, <3>3, <3>6 DEF Honest
  <2> QED BY <2>4, <2>5, <2>6
<1>10. PagesAreHonest'
  <2> HIDE DEF Heed
  <2> QED BY <1>2, <1>9 DEF PagesAreHonest
<1> QED BY <1>2, <1>5, <1>6, <1>7, <1>8, <1>10, MoreIsSeen

-----------------------------------------------------------------------------
\* A conversation put on a screen, as of now.
LEMMA ScreenShowsNow ==
  ASSUME RInv, NEW v \in Channels, UNCHANGED last, Looked' = [Looked EXCEPT ![v] = Now]
  PROVE  /\ Looked' \in Counts /\ Looked'[v] = Now /\ last[v] <= Now
         /\ \A y \in Channels : y # v => Looked'[y] = Looked[y]
         /\ \A y \in Channels : Looked[y] <= Looked'[y]
         /\ NewestWasSaid'
         /\ \A e \in Tabs : /\ Within(tab[e].seen, Looked')
                            /\ Honest(tab[e], last, Looked')
<1>1. /\ Now \in Nat /\ \E x \in Channels : Now = last[x]
      /\ \A y \in Channels : last[y] <= Now /\ Looked[y] <= Now
  BY NowIsNewest
<1>2. last \in Counts /\ Looked \in Counts
  BY DEF RInv, ReadingTyped
<1>3. /\ Looked' \in Counts /\ Looked'[v] = Now
      /\ \A y \in Channels : y # v => Looked'[y] = Looked[y]
  BY <1>1, <1>2 DEF Counts
<1>4. \A y \in Channels : Looked[y] <= Looked'[y] /\ Looked'[y] <= Now
  <2> SUFFICES ASSUME NEW y \in Channels PROVE Looked[y] <= Looked'[y] /\ Looked'[y] <= Now
    OBVIOUS
  <2>1. Looked[y] \in Nat /\ Looked[y] <= Now
    BY <1>1, <1>2 DEF Counts
  <2>2. CASE y = v
    BY <1>1, <1>3, <2>1, <2>2
  <2>3. CASE y # v
    BY <1>3, <2>1, <2>3
  <2> QED BY <2>2, <2>3
<1>5. NewestWasSaid'
  <2>1. PICK x \in Channels : Now = last[x]
    BY <1>1
  <2>2. \A y \in Channels : last'[y] <= last'[x] /\ Looked'[y] <= last'[x]
    BY <1>1, <1>4, <2>1
  <2> QED BY <2>2 DEF NewestWasSaid
<1>6. ASSUME NEW e \in Tabs
      PROVE  Within(tab[e].seen, Looked') /\ Honest(tab[e], last, Looked')
  <2>1. tab[e] \in Page /\ Within(tab[e].seen, Looked) /\ ShowsItsNews(tab[e], last, Looked)
    BY DEF RInv, PagesAreHonest, Honest
  <2>2. tab[e].seen \in Counts
    BY <2>1 DEF Page
  <2>3. Within(tab[e].seen, Looked')
    <3> SUFFICES ASSUME NEW y \in Channels PROVE tab[e].seen[y] <= Looked'[y]
      BY DEF Within
    <3>1. tab[e].seen[y] \in Nat /\ Looked[y] \in Nat /\ Looked'[y] \in Nat
      BY <1>2, <1>3, <2>2 DEF Counts
    <3>2. tab[e].seen[y] <= Looked[y] /\ Looked[y] <= Looked'[y]
      BY <1>4, <2>1 DEF Within
    <3> QED BY <3>1, <3>2
  <2>4. ShowsItsNews(tab[e], last, Looked')
    <3> SUFFICES ASSUME tab[e].is = "on", NEW y \in Channels
                 PROVE  IF tab[e].view = y THEN last[y] <= Looked'[y]
                        ELSE last[y] > Looked'[y] => tab[e].unread[y] > 0
      BY DEF ShowsItsNews
    <3>1. Looked[y] <= Looked'[y] /\ Looked[y] \in Nat /\ Looked'[y] \in Nat /\ last[y] \in Nat
      BY <1>2, <1>3, <1>4 DEF Counts
    <3> QED BY <2>1, <3>1 DEF ShowsItsNews
  <2> QED BY <2>1, <2>3, <2>4 DEF Honest
<1> QED BY <1>1, <1>3, <1>4, <1>5, <1>6

\* The pages after it, of which one has a new account.
LEMMA NewlyOnScreen ==
  ASSUME RInv, NEW d \in Tabs, NEW v \in Channels, NEW u, Honest(u, last, Looked'),
         UNCHANGED <<last, stored, office>>, Looked' = [Looked EXCEPT ![v] = Now],
         tab' = [tab EXCEPT ![d] = u]
  PROVE  RInv'
<1>1. /\ Looked' \in Counts /\ NewestWasSaid' /\ \A y \in Channels : Looked[y] <= Looked'[y]
      /\ \A e \in Tabs : Honest(tab[e], last, Looked')
  BY ScreenShowsNow
<1>2. DOMAIN tab' = Tabs /\ \A e \in Tabs : tab'[e] \in {u, tab[e]}
  BY DEF RInv, PagesAreHonest
<1>3. PagesAreHonest'
  BY <1>1, <1>2 DEF PagesAreHonest
<1>4. last' \in Counts
  BY DEF RInv, ReadingTyped
<1> QED BY <1>1, <1>3, <1>4, MoreIsSeen

LEMMA LooksInv == ASSUME RInv, GhostsTyped, NEW d \in Tabs, NEW v \in Channels \cup {None}, Looks(d, v) PROVE RInv'
<1> DEFINE t == [tab[d] EXCEPT !.view = v]
<1>1. UNCHANGED <<last, stored, office>> /\ last \in Counts /\ Looked \in Counts
  BY DEF Looks, RInv, ReadingTyped
<1>2. tab[d] \in Page /\ Within(tab[d].seen, Looked) /\ ShowsItsNews(tab[d], last, Looked)
  BY DEF RInv, PagesAreHonest, Honest
<1>3. /\ t \in Page /\ t.seen = tab[d].seen /\ t.unread = tab[d].unread /\ t.is = tab[d].is /\ t.view = v
  BY <1>2 DEF Page
<1>4. ASSUME t.is = "on", NEW y \in Channels, y # v, last[y] > Looked[y] PROVE t.unread[y] > 0
  <2>1. last[y] \in Nat /\ Looked[y] \in Nat
    BY <1>1 DEF Counts
  <2>2. tab[d].view # y
    BY <1>2, <1>3, <1>4, <2>1 DEF ShowsItsNews
  <2> QED BY <1>2, <1>3, <1>4, <2>2 DEF ShowsItsNews
<1> HIDE DEF t
<1>5. CASE v = None
  <2>1. tab' = [tab EXCEPT ![d] = t] /\ UNCHANGED Looked
    BY <1>5 DEF Looks, t, Looked
  <2>2. ShowsItsNews(t, last, Looked)
    BY <1>3, <1>4, <1>5, ChannelsAssumption DEF ShowsItsNews
  <2>3. Honest(t, last, Looked)
    BY <1>2, <1>3, <2>2 DEF Honest
  <2>4. PagesAreHonest'
    BY <1>1, <2>1, <2>3, OnePageHonest
  <2>5. ReadingTyped' /\ OnlyTheSeenIsRead'
    BY <1>1, <2>1 DEF RInv, ReadingTyped, OnlyTheSeenIsRead, Within, office
  <2> QED BY <1>1, <2>1, <2>4, <2>5, QuietStep
<1>6. CASE v \in Channels
  <2> DEFINE n == Max({t.seen[v], Now})
             u == Read(t, v, n)
  <2>2. /\ Now \in Nat /\ \E x \in Channels : Now = last[x]
        /\ \A y \in Channels : last[y] <= Now /\ Looked[y] <= Now
    BY <1>6, NowIsNewest
  <2>1. /\ v # None /\ tab' = [tab EXCEPT ![d] = u] /\ Looked' = [Looked EXCEPT ![v] = Now]
    <3>1. v # None
      BY <1>6, ChannelsAssumption
    <3>2. tab' = [tab EXCEPT ![d] = u]
      BY <3>1 DEF Looks, t
    <3>3. \/ onScreen' = [onScreen EXCEPT ![v] = Now] /\ UNCHANGED blind
          \/ blind' = [blind EXCEPT ![v] = Now] /\ UNCHANGED onScreen
      BY <3>1 DEF Looks
    <3>4. Looked' = [Looked EXCEPT ![v] = Now]
      BY <1>6, <2>2, <3>3, LookedMoves
    <3> QED BY <3>1, <3>2, <3>4
  <2>3. t.seen \in Counts /\ t.unread \in Counts /\ t.seen[v] \in Nat /\ t.seen[v] <= Looked[v]
    BY <1>2, <1>3, <1>6 DEF Page, Counts, Within
  <2>4. Looked[v] \in Nat /\ Looked[v] <= Now /\ last[v] \in Nat /\ last[v] <= Now
    BY <1>1, <1>6, <2>2 DEF Counts
  <2>5. n = Now
    <3>1. n \in {t.seen[v], Now} /\ Now <= n
      BY <2>2, <2>3, MaxOfTwo
    <3> QED BY <2>2, <2>3, <2>4, <3>1
  <2>6. /\ u \in Page /\ u.is = t.is /\ u.view = v /\ u.seen = [t.seen EXCEPT ![v] = Now]
        /\ u.unread = [t.unread EXCEPT ![v] = 0]
    BY <1>3, <1>6, <2>2, <2>5, ReadKeepsPage
  <2>7. /\ Looked' \in Counts /\ Looked'[v] = Now /\ last[v] <= Now
        /\ \A y \in Channels : y # v => Looked'[y] = Looked[y]
        /\ Within(t.seen, Looked')
    BY <1>1, <1>3, <1>6, <2>1, ScreenShowsNow
  <2>8. Within(u.seen, Looked')
    <3> SUFFICES ASSUME NEW y \in Channels PROVE [t.seen EXCEPT ![v] = Now][y] <= Looked'[y]
      BY <2>6 DEF Within
    <3>1. CASE y = v
      BY <2>2, <2>3, <2>7, <3>1 DEF Counts
    <3>2. CASE y # v
      BY <2>3, <2>7, <3>2 DEF Counts, Within
    <3> QED BY <3>1, <3>2
  <2>9. ASSUME t.is = "on", NEW y \in Channels, y # v, last[y] > Looked'[y] PROVE u.unread[y] > 0
    <3>1. t.unread[y] > 0
      BY <1>4, <2>7, <2>9
    <3> QED BY <2>3, <2>6, <2>9, <3>1 DEF Counts
  <2>10. Honest(u, last, Looked')
    <3> HIDE DEF u
    <3>1. ShowsItsNews(u, last, Looked')
      BY <2>6, <2>7, <2>9 DEF ShowsItsNews
    <3> QED BY <2>6, <2>8, <3>1 DEF Honest
  <2> HIDE DEF u
  <2> QED BY <1>1, <1>6, <2>1, <2>10, NewlyOnScreen
<1> QED BY <1>5, <1>6

\* A page that listens hears of whatever it missed.
LEMMA ListensInv == ASSUME RInv, GhostsTyped, NEW d \in Tabs, Listens(d) PROVE RInv'
<1> DEFINE t == [tab[d] EXCEPT !.is = "on", !.told = Untold]
           w == [t EXCEPT !.told = Signature(inRoom.at)]
<1>1. /\ tab' = [tab EXCEPT ![d] = Answered(tab[d])] /\ UNCHANGED <<last, stored, office, blind>>
      /\ onScreen' = IF tab[d].view = None THEN onScreen ELSE [onScreen EXCEPT ![tab[d].view] = Now]
  BY DEF Listens
<1>2. tab[d] \in Page /\ Honest(tab[d], last, Looked) /\ Within(tab[d].seen, Looked)
  BY DEF RInv, PagesAreHonest, Honest
<1>3. inRoom.at \in Counts /\ Within(inRoom.at, Looked) /\ last \in Counts /\ Looked \in Counts
  BY DEF RInv, ReadingTyped, OnlyTheSeenIsRead
<1>4. Untold \in [sent : BOOLEAN, at : Counts] /\ Signature(inRoom.at) \in [sent : BOOLEAN, at : Counts]
  BY <1>3 DEF Untold, Signature, Never, Counts
<1>5. Untold # Signature(inRoom.at)
  BY DEF Untold, Signature
<1>6. /\ t \in Page /\ t.is = "on" /\ t.told = Untold /\ t.view = tab[d].view /\ t.seen = tab[d].seen
  BY <1>2, <1>4 DEF Page
<1>7. /\ w \in Page /\ w.is = "on" /\ w.view = tab[d].view /\ w.seen = tab[d].seen
  BY <1>4, <1>6 DEF Page
<1>8. Answered(tab[d]) = CaughtUp(w, inRoom.at)
  BY <1>5, <1>6, <1>7 DEF Answered, Offered
<1> HIDE DEF t, w
<1>9. CASE tab[d].view = None
  <2>1. UNCHANGED Looked
    BY <1>1, <1>9 DEF Looked
  <2>2. \A c \in Channels : w.view = c => last[c] <= Looked[c]
    BY <1>7, <1>9, ChannelsAssumption
  <2>3. Honest(CaughtUp(w, inRoom.at), last, Looked)
    BY <1>2, <1>3, <1>7, <2>2, CaughtUpHonest
  <2>4. PagesAreHonest'
    BY <1>1, <1>8, <2>1, <2>3, OnePageHonest
  <2>5. ReadingTyped' /\ OnlyTheSeenIsRead'
    BY <1>1, <2>1 DEF RInv, ReadingTyped, OnlyTheSeenIsRead, Within, office
  <2> QED BY <1>1, <2>1, <2>4, <2>5, QuietStep
<1>10. CASE tab[d].view # None
  <2> DEFINE v == tab[d].view
  <2>1. v \in Channels /\ Looked' = [Looked EXCEPT ![v] = Now]
    <3>1. v \in Channels /\ onScreen' = [onScreen EXCEPT ![v] = Now] /\ UNCHANGED blind
      BY <1>1, <1>2, <1>10 DEF Page
    <3>2. Now \in Nat /\ Looked[v] <= Now
      BY <3>1, NowIsNewest
    <3> QED BY <3>1, <3>2, LookedMoves
  <2>2. /\ Looked' \in Counts /\ Looked'[v] = Now /\ last[v] <= Now
        /\ \A y \in Channels : Looked[y] <= Looked'[y]
        /\ Within(tab[d].seen, Looked')
    BY <1>1, <2>1, ScreenShowsNow
  <2>3. Within(inRoom.at, Looked')
    <3> SUFFICES ASSUME NEW y \in Channels PROVE inRoom.at[y] <= Looked'[y]
      BY DEF Within
    <3>1. inRoom.at[y] \in Nat /\ Looked[y] \in Nat /\ Looked'[y] \in Nat
      BY <1>3, <2>2 DEF Counts
    <3> QED BY <1>3, <2>2, <3>1 DEF Within
  <2>4. \A c \in Channels : w.view = c => last[c] <= Looked'[c]
    BY <1>7, <2>2
  <2>5. Honest(CaughtUp(w, inRoom.at), last, Looked')
    BY <1>2, <1>3, <1>7, <2>2, <2>3, <2>4, CaughtUpHonest
  <2> QED BY <1>1, <1>8, <2>1, <2>5, NewlyOnScreen
<1> QED BY <1>9, <1>10

-----------------------------------------------------------------------------
\* A page that is not up owes nothing.
LEMMA DownHonest ==
  ASSUME NEW t \in Page, t.is # "on", NEW newest, NEW screen, Within(t.seen, screen)
  PROVE  Honest(t, newest, screen)
BY DEF Honest, ShowsItsNews

\* What the room holds of the last session that goes, or all of it.
LEMMA RemovedInv ==
  ASSUME RInv, NEW d \in Tabs, UNCHANGED <<last, stored, marks, Looked>>,
         inRoom' = inRoom \/ Removed(d), loads' = loads \/ loads' = Orphaned(d)
  PROVE  ReadingTyped' /\ OnlyTheSeenIsRead'
<1>1. /\ NotLoaded \in [there : BOOLEAN, whole : BOOLEAN, at : Counts]
      /\ Within(NotLoaded.at, Looked)
  BY DEF NotLoaded, Never, Counts, Within, RInv, ReadingTyped
<1>2. inRoom' = inRoom \/ inRoom' = NotLoaded
  BY DEF Removed
<1>3. ReadingTyped'
  BY <1>1, <1>2, OrphanedSeen DEF RInv, ReadingTyped
<1>4. Within(inRoom'.at, Looked)
  BY <1>1, <1>2 DEF RInv, OnlyTheSeenIsRead
<1>5. \A l \in loads' : Within(l.at, Looked)
  BY OrphanedSeen DEF RInv, OnlyTheSeenIsRead
<1> QED BY <1>3, <1>4, <1>5 DEF RInv, OnlyTheSeenIsRead, Within

LEMMA ArrivesInv ==
  ASSUME RInv, NEW d \in Tabs, NEW t, Honest(t, last, Looked), Arrives(d, t),
         UNCHANGED <<last, stored, inRoom, marks, Looked>>
  PROVE  RInv'
<1>1. /\ inRoom.at \in Counts /\ Within(inRoom.at, Looked)
      /\ stored \in Counts /\ Within(stored, Looked)
  BY DEF RInv, ReadingTyped, OnlyTheSeenIsRead
<1>2. /\ Orphaned(d) \subseteq [of : Tabs \cup {Nobody}, at : Counts]
      /\ \A l \in Orphaned(d) : Within(l.at, Looked)
  BY OrphanedSeen
<1>3. PICK u \in {t, Offered(t, inRoom.at)} : tab' = [tab EXCEPT ![d] = u]
  BY DEF Arrives
<1>4. Honest(u, last, Looked)
  BY <1>1, <1>3, OfferedHonest
<1>5. PagesAreHonest'
  BY <1>3, <1>4, OnePageHonest
<1>6. loads' \subseteq Orphaned(d) \cup {[of |-> d, at |-> stored]}
  BY DEF Arrives
<1>7. ReadingTyped' /\ OnlyTheSeenIsRead'
  BY <1>1, <1>2, <1>6 DEF RInv, ReadingTyped, OnlyTheSeenIsRead, Within
<1> QED BY <1>5, <1>7, QuietStep

LEMMA OpensInv == ASSUME RInv, NEW d \in Tabs, Opens(d) PROVE RInv'
<1> DEFINE seen == tab[d].seen
           moved == {c \in Channels : seen[c] > Never[c]}
           t == [Noted(Closed, tab[d].seen) EXCEPT !.is = "in"]
<1>1. seen \in Counts /\ Within(seen, Looked)
  BY DEF RInv, PagesAreHonest, Honest, Page
<1>2. Closed \in Page /\ Closed.seen = Never /\ Closed.due = {}
  BY DEF Closed, Page, Never, Counts, Untold
<1>3. t = [[Closed EXCEPT !.seen = seen, !.due = @ \cup moved] EXCEPT !.is = "in"]
  BY <1>2 DEF Noted
<1>4. moved \subseteq Channels
  OBVIOUS
<1> HIDE DEF seen, moved, t
<1>5. t \in Page /\ t.seen = seen /\ t.is = "in"
  BY <1>1, <1>2, <1>3, <1>4 DEF Page
<1>6. Honest(t, last, Looked)
  BY <1>1, <1>5, DownHonest
<1>7. Arrives(d, t) /\ UNCHANGED <<last, stored, inRoom, marks, Looked>>
  BY DEF Opens, t, screens, Looked
<1> QED BY <1>6, <1>7, ArrivesInv

LEMMA RejoinsInv == ASSUME RInv, NEW d \in Tabs, Rejoins(d) PROVE RInv'
<1> DEFINE t == [tab[d] EXCEPT !.is = "in", !.told = Untold]
<1>1. tab[d] \in Page /\ Within(tab[d].seen, Looked) /\ Untold \in [sent : BOOLEAN, at : Counts]
  BY DEF RInv, PagesAreHonest, Honest, Untold, Never, Counts
<1>2. t \in Page /\ t.seen = tab[d].seen /\ t.is = "in"
  BY <1>1 DEF Page
<1> HIDE DEF t
<1>3. Honest(t, last, Looked)
  BY <1>1, <1>2, DownHonest
<1>4. Arrives(d, t) /\ UNCHANGED <<last, stored, inRoom, marks, Looked>>
  BY DEF Rejoins, t, screens, Looked
<1> QED BY <1>3, <1>4, ArrivesInv

LEMMA CutsInv == ASSUME RInv, NEW d \in Tabs, Cuts(d) \/ Resumes(d) PROVE RInv'
<1>1. /\ UNCHANGED <<last, stored, inRoom, loads, marks, Looked>>
      /\ \E is \in {"cut", "in"} : tab' = [tab EXCEPT ![d].is = is]
  BY DEF Cuts, Resumes, screens, Looked
<1>2. PICK is \in {"cut", "in"} : tab' = [tab EXCEPT ![d] = [tab[d] EXCEPT !.is = is]]
  BY <1>1
<1> DEFINE t == [tab[d] EXCEPT !.is = is]
<1>3. tab[d] \in Page /\ Within(tab[d].seen, Looked)
  BY DEF RInv, PagesAreHonest, Honest
<1>4. t \in Page /\ t.seen = tab[d].seen /\ t.is # "on"
  BY <1>3 DEF Page
<1>5. Honest(t, last, Looked)
  BY <1>3, <1>4, DownHonest
<1>6. PagesAreHonest'
  BY <1>1, <1>2, <1>5, OnePageHonest
<1>7. ReadingTyped' /\ OnlyTheSeenIsRead'
  BY <1>1 DEF RInv, ReadingTyped, OnlyTheSeenIsRead, Within
<1> QED BY <1>1, <1>6, <1>7, QuietStep

LEMMA ReportsInv == ASSUME RInv, NEW d \in Tabs, Reports(d) PROVE RInv'
<1> DEFINE t == [tab[d] EXCEPT !.due = {}]
           made == {[c |-> c, at |-> tab[d].seen[c], pc |-> "asked"] :
                      c \in {x \in tab[d].due : tab[d].is = "on" /\ inRoom.at[x] < tab[d].seen[x]}}
<1>1. /\ UNCHANGED <<last, stored, inRoom, loads, Looked>> /\ marks' = marks \cup made
      /\ tab' = [tab EXCEPT ![d] = t]
  BY DEF Reports, screens, Looked
<1>2. tab[d] \in Page /\ Honest(tab[d], last, Looked) /\ Within(tab[d].seen, Looked)
  BY DEF RInv, PagesAreHonest, Honest
<1>3. /\ t \in Page /\ t.seen = tab[d].seen /\ t.unread = tab[d].unread
      /\ t.is = tab[d].is /\ t.view = tab[d].view
  BY <1>2 DEF Page
<1>4. \A m \in made : /\ m \in [c : Channels, at : Nat, pc : {"asked", "moved"}]
                      /\ m.at <= Looked[m.c]
  BY <1>2 DEF Page, Counts, Within
<1> HIDE DEF t, made
<1>5. Honest(t, last, Looked)
  BY <1>2, <1>3 DEF Honest, ShowsItsNews
<1>6. PagesAreHonest'
  BY <1>1, <1>5, OnePageHonest
<1>7. ReadingTyped' /\ OnlyTheSeenIsRead'
  BY <1>1, <1>4 DEF RInv, ReadingTyped, OnlyTheSeenIsRead, Within
<1> QED BY <1>1, <1>6, <1>7, QuietStep

LEMMA ExpiresInv == ASSUME RInv, NEW d \in Tabs, Expires(d) PROVE RInv'
<1>1. UNCHANGED <<last, stored, marks, tab, Looked>>
  BY DEF Expires, screens, Looked
<1>2. (inRoom' = inRoom \/ Removed(d)) /\ (loads' = loads \/ loads' = Orphaned(d))
  BY DEF Expires
<1>3. ReadingTyped' /\ OnlyTheSeenIsRead'
  BY <1>1, <1>2, RemovedInv
<1> QED BY <1>1, <1>3, PagesStay, QuietStep

LEMMA ClosesInv == ASSUME RInv, NEW d \in Tabs, Closes(d) PROVE RInv'
<1> DEFINE t == [Closed EXCEPT !.seen = tab[d].seen]
<1>1. UNCHANGED <<last, stored, marks, Looked>> /\ tab' = [tab EXCEPT ![d] = t]
  BY DEF Closes, Looked
<1>2. (inRoom' = inRoom \/ Removed(d)) /\ loads' = Orphaned(d)
  BY DEF Closes
<1>3. tab[d].seen \in Counts /\ Within(tab[d].seen, Looked)
  BY DEF RInv, PagesAreHonest, Honest, Page
<1>4. Closed \in Page /\ Closed.is = "closed"
  BY DEF Closed, Page, Never, Counts, Untold
<1>5. t \in Page /\ t.seen = tab[d].seen /\ t.is = "closed"
  BY <1>3, <1>4 DEF Page
<1> HIDE DEF t
<1>6. Honest(t, last, Looked)
  BY <1>3, <1>5, DownHonest
<1>7. PagesAreHonest'
  BY <1>1, <1>6, OnePageHonest
<1>8. ReadingTyped' /\ OnlyTheSeenIsRead'
  BY <1>1, <1>2, RemovedInv
<1> QED BY <1>1, <1>7, <1>8, QuietStep

LEMMA ReadingNextInv == ASSUME RInv, GhostsTyped, [ReadingNext]_readingVars PROVE RInv'
<1>1. ASSUME NEW c \in Channels, Says(c) PROVE RInv'
  BY <1>1, SaysInv
<1>2. CASE Refreshes
  BY <1>2, RefreshesInv
<1>3. ASSUME NEW l \in loads, LoadLands(l) \/ LoadFails(l) PROVE RInv'
  BY <1>3, LoadLandsInv, LoadFailsInv
<1>4. ASSUME NEW m \in marks, Marks(m) \/ MarkFails(m) PROVE RInv'
  BY <1>4, MarkWritesInv, MarkLandsInv, MarkFailsInv DEF Marks
<1>5. ASSUME NEW d \in Tabs, Opens(d) \/ Listens(d) \/ Reports(d) \/ Closes(d) PROVE RInv'
  BY <1>5, OpensInv, ListensInv, ReportsInv, ClosesInv
<1>6. ASSUME NEW d \in Tabs, Cuts(d) \/ Resumes(d) \/ Rejoins(d) \/ Expires(d) PROVE RInv'
  BY <1>6, CutsInv, RejoinsInv, ExpiresInv
<1>7. ASSUME NEW d \in Tabs, NEW v \in Channels \cup {None}, Looks(d, v) PROVE RInv'
  BY <1>7, LooksInv
<1>8. CASE UNCHANGED readingVars
  <2>1. UNCHANGED <<last, stored, inRoom, loads, marks, tab, Looked>>
    BY <1>8 DEF readingVars, Looked
  <2>2. ReadingTyped' /\ OnlyTheSeenIsRead'
    BY <2>1 DEF RInv, ReadingTyped, OnlyTheSeenIsRead, Within
  <2> QED BY <2>1, <2>2, PagesStay, QuietStep
<1> QED
  BY <1>1, <1>2, <1>3, <1>4, <1>5, <1>6, <1>7, <1>8 DEF ReadingNext

\* Both ghosts count lines.
LEMMA GhostsAtFirst == ReadingInit => GhostsTyped
BY DEF ReadingInit, GhostsTyped, Never, Counts

LEMMA GhostsStayTyped == ASSUME RInv, GhostsTyped, [ReadingNext]_readingVars PROVE GhostsTyped'
<1>1. ASSUME NEW c \in Channels
      PROVE  /\ Now \in Nat
             /\ \A g \in Counts, n \in Nat : [g EXCEPT ![c] = n] \in Counts
  BY NowIsNewest DEF Counts
<1>2. CASE UNCHANGED <<onScreen, blind>>
  BY <1>2 DEF GhostsTyped
<1>3. ASSUME NEW c \in Channels, Says(c) PROVE GhostsTyped'
  <2>1. UNCHANGED blind /\ onScreen' \in {onScreen, [onScreen EXCEPT ![c] = Now + 1]}
    BY <1>3 DEF Says
  <2>2. Now + 1 \in Nat
    BY <1>1
  <2> QED BY <1>1, <2>1, <2>2 DEF GhostsTyped
<1>4. ASSUME NEW d \in Tabs, NEW v \in Channels \cup {None}, Looks(d, v) PROVE GhostsTyped'
  <2>1. CASE v = None
    BY <1>2, <1>4, <2>1 DEF Looks
  <2>2. CASE v # None
    <3>1. v \in Channels
      BY <2>2
    <3>2. \/ onScreen' = [onScreen EXCEPT ![v] = Now] /\ UNCHANGED blind
          \/ blind' = [blind EXCEPT ![v] = Now] /\ UNCHANGED onScreen
      BY <1>4, <2>2 DEF Looks
    <3> QED BY <1>1, <3>1, <3>2 DEF GhostsTyped
  <2> QED BY <2>1, <2>2
<1>5. ASSUME NEW d \in Tabs, Listens(d) PROVE GhostsTyped'
  <2>1. tab[d].view \in Channels \cup {None}
    BY DEF RInv, PagesAreHonest, Honest, Page
  <2>2. /\ UNCHANGED blind
        /\ onScreen' = IF tab[d].view = None THEN onScreen ELSE [onScreen EXCEPT ![tab[d].view] = Now]
    BY <1>5 DEF Listens
  <2> QED BY <1>1, <2>1, <2>2 DEF GhostsTyped
<1>6. ASSUME NEW d \in Tabs,
             \/ Opens(d) \/ Reports(d) \/ Closes(d)
             \/ Cuts(d) \/ Resumes(d) \/ Rejoins(d) \/ Expires(d)
      PROVE  GhostsTyped'
  BY <1>2, <1>6 DEF Opens, Reports, Closes, Cuts, Resumes, Rejoins, Expires, screens
<1>7. ASSUME NEW l \in loads, LoadLands(l) \/ LoadFails(l) PROVE GhostsTyped'
  BY <1>2, <1>7 DEF LoadLands, LoadFails, screens
<1>8. ASSUME NEW m \in marks, Marks(m) \/ MarkFails(m) PROVE GhostsTyped'
  BY <1>2, <1>8 DEF Marks, MarkWrites, MarkLands, MarkFails, screens
<1>9. CASE Refreshes \/ UNCHANGED readingVars
  BY <1>2, <1>9 DEF Refreshes, readingVars, screens
<1> QED
  BY <1>3, <1>4, <1>5, <1>6, <1>7, <1>8, <1>9 DEF ReadingNext

\* A line nobody has had on a screen is shown as unread on every page that is
\* up, for any number of pages and channels and whatever drops, fails or is
\* read elsewhere (unread.ts, channel-list.ts, #onRead) -- unless a page that
\* had not got it has looked at its conversation since.
THEOREM NothingUnseenIsHidden == ReadingSpec => []UnreadIsShown
<1>1. RInv /\ GhostsTyped => UnreadIsShown
  <2> SUFFICES ASSUME RInv, GhostsTyped, NEW d \in Tabs, NEW c \in Channels, tab[d].is = "on",
                      tab[d].view # c, last[c] > onScreen[c], last[c] > blind[c]
               PROVE  tab[d].unread[c] > 0
    BY DEF UnreadIsShown
  <2>1. last[c] > Looked[c]
    BY DEF Looked
  <2> QED BY <2>1 DEF RInv, PagesAreHonest, Honest, ShowsItsNews
<1>2. RInv /\ GhostsTyped /\ [ReadingNext]_readingVars => RInv' /\ GhostsTyped'
  BY ReadingNextInv, GhostsStayTyped
<1>3. ReadingInit => RInv /\ GhostsTyped
  BY ReadingInitInv, GhostsAtFirst
<1> QED
  BY <1>1, <1>2, <1>3, PTL DEF ReadingSpec

-----------------------------------------------------------------------------
\* What a page makes of a list brings back nothing it has seen.
BringsNothingBack(t, u) ==
  \A c \in Channels : u.unread[c] > t.unread[c] => u.unread[c] > t.seen[c]

LEMMA CaughtUpBringsNothingBack ==
  ASSUME last \in Counts, NEW t \in Page, NEW cursors \in Counts
  PROVE  BringsNothingBack(t, CaughtUp(t, cursors))
<1> DEFINE seen == Folded(t.seen, cursors)
           u == CaughtUp(t, cursors)
<1>1. t.seen \in Counts /\ t.unread \in Counts
  BY DEF Page
<1>2. /\ \A c \in Channels : seen[c] \in Nat /\ t.seen[c] <= seen[c]
  BY <1>1, LaterIsBoth DEF Folded, Within, Counts
<1>3. ASSUME NEW c \in Channels
      PROVE  \/ u.unread[c] = t.unread[c]
             \/ u.unread[c] = last[c] /\ last[c] > seen[c]
             \/ u.unread[c] = 0
  BY DEF CaughtUp, Noted, Page
<1> HIDE DEF u, seen
<1>4. ASSUME NEW c \in Channels, u.unread[c] > t.unread[c] PROVE u.unread[c] > t.seen[c]
  <2>1. t.seen[c] \in Nat /\ t.unread[c] \in Nat /\ last[c] \in Nat
    BY <1>1 DEF Counts
  <2> QED BY <1>2, <1>3, <1>4, <2>1
<1> QED BY <1>4 DEF BringsNothingBack, u

LEMMA OfferedBringsNothingBack ==
  ASSUME last \in Counts, NEW t \in Page, NEW cursors \in Counts
  PROVE  BringsNothingBack(t, Offered(t, cursors))
<1> DEFINE u == [t EXCEPT !.told = Signature(cursors)]
<1>1. Signature(cursors) \in [sent : BOOLEAN, at : Counts]
  BY DEF Signature
<1>2. u \in Page /\ u.seen = t.seen /\ u.unread = t.unread
  BY <1>1 DEF Page
<1>3. BringsNothingBack(t, CaughtUp(u, cursors))
  BY <1>2, CaughtUpBringsNothingBack DEF BringsNothingBack
<1>4. Offered(t, cursors) \in {t, u, CaughtUp(u, cursors)}
  BY DEF Offered
<1>5. \A c \in Channels : t.unread[c] \in Nat
  BY DEF Page, Counts
<1> HIDE DEF u
<1> QED BY <1>2, <1>3, <1>4, <1>5 DEF BringsNothingBack

\* A page that shows no more than it did.
LEMMA FewerBringNothingBack ==
  ASSUME NEW t \in Page, NEW u, \A c \in Channels : u.unread[c] \in {t.unread[c], 0}
  PROVE  BringsNothingBack(t, u)
<1> SUFFICES ASSUME NEW c \in Channels, u.unread[c] > t.unread[c] PROVE u.unread[c] > t.seen[c]
  BY DEF BringsNothingBack
<1>1. t.unread[c] \in Nat
  BY DEF Page, Counts
<1> QED BY <1>1

LEMMA OnePageBack ==
  ASSUME RInv, NEW d \in Tabs, NEW u, tab' = [tab EXCEPT ![d] = u], BringsNothingBack(tab[d], u)
  PROVE  \A e \in Tabs : BringsNothingBack(tab[e], tab'[e])
<1> SUFFICES ASSUME NEW e \in Tabs PROVE BringsNothingBack(tab[e], tab'[e])
  OBVIOUS
<1>1. tab[e] \in Page /\ tab'[e] = IF e = d THEN u ELSE tab[e]
  BY DEF RInv, PagesAreHonest, Honest
<1>2. BringsNothingBack(tab[e], tab[e])
  BY <1>1, FewerBringNothingBack
<1> QED BY <1>1, <1>2

LEMMA SentBack ==
  ASSUME RInv, NEW ds, NEW cursors \in Counts, tab' = SentTo(ds, cursors)
  PROVE  \A e \in Tabs : BringsNothingBack(tab[e], tab'[e])
<1> SUFFICES ASSUME NEW e \in Tabs PROVE BringsNothingBack(tab[e], tab'[e])
  OBVIOUS
<1>1. tab[e] \in Page /\ last \in Counts
  BY DEF RInv, PagesAreHonest, Honest, ReadingTyped
<1>2. tab'[e] \in {tab[e], Offered(tab[e], cursors)}
  BY DEF SentTo
<1> QED BY <1>1, <1>2, FewerBringNothingBack, OfferedBringsNothingBack

LEMMA ArrivesBack ==
  ASSUME RInv, NEW d \in Tabs, NEW t \in Page, t.is # "on", Arrives(d, t),
         \A c \in Channels : t.unread[c] \in {tab[d].unread[c], 0}
  PROVE  \A e \in Tabs : BringsNothingBack(tab[e], tab'[e])
<1>1. PICK u \in {t, Offered(t, inRoom.at)} : tab' = [tab EXCEPT ![d] = u]
  BY DEF Arrives
<1>2. inRoom.at \in Counts
  BY DEF RInv, ReadingTyped
<1>3. Signature(inRoom.at) \in [sent : BOOLEAN, at : Counts]
  BY <1>2 DEF Signature
<1>4. u.unread = t.unread
  BY <1>1, <1>3 DEF Offered, Page
<1>5. tab[d] \in Page
  BY DEF RInv, PagesAreHonest, Honest
<1>6. BringsNothingBack(tab[d], u)
  BY <1>4, <1>5, FewerBringNothingBack
<1> QED BY <1>1, <1>6, OnePageBack

LEMMA SaysBack ==
  ASSUME RInv, NEW c \in Channels, Says(c)
  PROVE  \A e \in Tabs : BringsNothingBack(tab[e], tab'[e])
<1> SUFFICES ASSUME NEW e \in Tabs PROVE BringsNothingBack(tab[e], tab'[e])
  OBVIOUS
<1>1. tab[e] \in Page /\ Within(tab[e].seen, Looked) /\ Looked \in Counts
  BY DEF RInv, PagesAreHonest, Honest, ReadingTyped
<1>2. tab[e].seen \in Counts /\ tab[e].unread \in Counts
  BY <1>1 DEF Page
<1>3. Now \in Nat /\ Looked[c] <= Now
  BY NowIsNewest
<1>4. Now + 1 > tab[e].seen[c] /\ Now + 1 \in Nat
  BY <1>1, <1>2, <1>3 DEF Counts, Within
<1>5. tab'[e] = IF tab[e].is = "on" THEN Heard(tab[e], c, Now + 1) ELSE tab[e]
  BY DEF Says
<1>6. CASE tab[e].is = "on" /\ tab[e].view = c
  <2> DEFINE n == Now + 1
             u == Read(tab[e], c, n)
  <2>0. tab'[e] = u
    BY <1>5, <1>6 DEF Heard
  <2> HIDE DEF n
  <2>1. tab'[e].unread = [tab[e].unread EXCEPT ![c] = 0]
    <3>1. n \in Nat
      BY <1>4 DEF n
    <3>2. u.unread = [tab[e].unread EXCEPT ![c] = 0]
      BY <1>1, <3>1, ReadKeepsPage, ZenonT(30)
    <3> QED BY <2>0, <3>2
  <2>2. \A y \in Channels : tab'[e].unread[y] \in {tab[e].unread[y], 0}
    BY <1>2, <2>1 DEF Counts
  <2> QED BY <1>1, <2>2, FewerBringNothingBack
<1>7. CASE tab[e].is = "on" /\ tab[e].view # c
  <2>1. tab'[e].unread = [tab[e].unread EXCEPT ![c] = Now + 1]
    BY <1>1, <1>5, <1>7 DEF Heard, Page
  <2>2. \A y \in Channels : tab'[e].unread[y] = IF y = c THEN Now + 1 ELSE tab[e].unread[y]
    BY <1>2, <2>1 DEF Counts
  <2>3. \A y \in Channels : tab[e].unread[y] \in Nat
    BY <1>2 DEF Counts
  <2> QED BY <1>4, <2>2, <2>3 DEF BringsNothingBack
<1>8. CASE tab[e].is # "on"
  BY <1>1, <1>5, <1>8, FewerBringNothingBack
<1> QED BY <1>6, <1>7, <1>8

LEMMA PageStepsBack ==
  ASSUME RInv, NEW d \in Tabs,
         \/ Opens(d) \/ Listens(d) \/ Reports(d) \/ Closes(d)
         \/ Cuts(d) \/ Resumes(d) \/ Rejoins(d) \/ Expires(d)
         \/ \E v \in Channels \cup {None} : Looks(d, v)
  PROVE  \A e \in Tabs : BringsNothingBack(tab[e], tab'[e])
<1>1. /\ tab[d] \in Page /\ tab[d].seen \in Counts /\ tab[d].unread \in Counts
      /\ last \in Counts /\ inRoom.at \in Counts /\ \A e \in Tabs : tab[e] \in Page
  BY DEF RInv, PagesAreHonest, Honest, ReadingTyped, Page
<1>2. /\ Never \in Counts /\ (\A c \in Channels : Never[c] = 0) /\ Untold \in [sent : BOOLEAN, at : Counts]
  BY DEF Never, Untold, Counts
<1>3. Closed \in Page /\ Closed.unread = Never
  BY <1>2 DEF Closed, Page
<1>4. CASE Opens(d)
  <2> DEFINE t == [Noted(Closed, tab[d].seen) EXCEPT !.is = "in"]
  <2>1. Noted(Closed, tab[d].seen) \in Page /\ Noted(Closed, tab[d].seen).unread = Never
    <3> DEFINE moved == {c \in Channels : tab[d].seen[c] > Closed.seen[c]}
               seen == tab[d].seen
    <3>1. moved \subseteq Channels /\ Noted(Closed, seen) = [Closed EXCEPT !.seen = seen, !.due = @ \cup moved]
      BY DEF Noted
    <3> HIDE DEF moved, seen
    <3>2. seen \in Counts
      BY <1>1 DEF seen
    <3>3. Noted(Closed, seen) \in Page /\ Noted(Closed, seen).unread = Never
      BY <1>3, <3>1, <3>2 DEF Page
    <3> QED BY <3>3 DEF seen
  <2>2. t \in Page /\ t.unread = Never /\ t.is = "in"
    BY <2>1 DEF Page
  <2>3. Arrives(d, t)
    BY <1>4 DEF Opens
  <2> HIDE DEF t
  <2>4. \A c \in Channels : t.unread[c] \in {tab[d].unread[c], 0}
    BY <1>2, <2>2
  <2> QED BY <2>2, <2>3, <2>4, ArrivesBack
<1>5. CASE Rejoins(d)
  <2> DEFINE t == [tab[d] EXCEPT !.is = "in", !.told = Untold]
  <2>1. t \in Page /\ t.unread = tab[d].unread /\ t.is = "in"
    BY <1>1, <1>2 DEF Page
  <2>2. Arrives(d, t)
    BY <1>5 DEF Rejoins
  <2> HIDE DEF t
  <2> QED BY <2>1, <2>2, ArrivesBack
<1>6. CASE Listens(d)
  <2> DEFINE t == [tab[d] EXCEPT !.is = "on", !.told = Untold]
  <2>1. t \in Page /\ t.unread = tab[d].unread /\ t.seen = tab[d].seen
    BY <1>1, <1>2 DEF Page
  <2>2. tab' = [tab EXCEPT ![d] = Offered(t, inRoom.at)]
    BY <1>6 DEF Listens, Answered
  <2> HIDE DEF t
  <2>3. BringsNothingBack(t, Offered(t, inRoom.at))
    BY <1>1, <2>1, OfferedBringsNothingBack
  <2>4. BringsNothingBack(tab[d], Offered(t, inRoom.at))
    BY <2>1, <2>3 DEF BringsNothingBack
  <2> QED BY <2>2, <2>4, OnePageBack
<1>7. ASSUME NEW u, tab' = [tab EXCEPT ![d] = u], \A c \in Channels : u.unread[c] \in {tab[d].unread[c], 0}
      PROVE  \A e \in Tabs : BringsNothingBack(tab[e], tab'[e])
  BY <1>1, <1>7, FewerBringNothingBack, OnePageBack
<1>8. CASE Reports(d)
  <2>1. /\ tab' = [tab EXCEPT ![d] = [tab[d] EXCEPT !.due = {}]]
        /\ [tab[d] EXCEPT !.due = {}].unread = tab[d].unread
    BY <1>1, <1>8 DEF Reports, Page
  <2> QED BY <1>7, <2>1
<1>9. CASE Closes(d)
  <2>1. /\ tab' = [tab EXCEPT ![d] = [Closed EXCEPT !.seen = tab[d].seen]]
        /\ [Closed EXCEPT !.seen = tab[d].seen].unread = Never
    BY <1>3, <1>9 DEF Closes, Page
  <2> QED BY <1>2, <1>7, <2>1
<1>10. CASE Cuts(d) \/ Resumes(d)
  <2>1. PICK is \in {"cut", "in"} : tab' = [tab EXCEPT ![d] = [tab[d] EXCEPT !.is = is]]
    BY <1>10 DEF Cuts, Resumes
  <2>2. [tab[d] EXCEPT !.is = is].unread = tab[d].unread
    BY <1>1 DEF Page
  <2> QED BY <1>7, <2>1, <2>2
<1>11. CASE Expires(d)
  BY <1>1, <1>11, FewerBringNothingBack DEF Expires
<1>12. ASSUME NEW v \in Channels \cup {None}, Looks(d, v)
       PROVE  \A e \in Tabs : BringsNothingBack(tab[e], tab'[e])
  <2> DEFINE t == [tab[d] EXCEPT !.view = v]
             n == Max({t.seen[v], Now})
  <2>1. t \in Page /\ t.unread = tab[d].unread /\ t.seen = tab[d].seen
    BY <1>1 DEF Page
  <2>2. CASE v = None
    <3>1. tab' = [tab EXCEPT ![d] = t]
      BY <1>12, <2>2 DEF Looks
    <3> QED BY <1>7, <2>1, <3>1
  <2>3. CASE v # None
    <3>1. v \in Channels /\ tab' = [tab EXCEPT ![d] = Read(t, v, n)]
      BY <1>12, <2>3 DEF Looks
    <3>2. n \in Nat
      <4>1. t.seen[v] \in Nat /\ Now \in Nat
        BY <1>1, <2>1, <3>1, NowIsNewest DEF Counts
      <4> QED BY <4>1, MaxOfTwo
    <3> HIDE DEF t, n
    <3>3. Read(t, v, n).unread = [tab[d].unread EXCEPT ![v] = 0]
      <4>1. t \in Page /\ v \in Channels /\ n \in Nat
        BY <2>1, <3>1, <3>2
      <4>2. Read(t, v, n).unread = [t.unread EXCEPT ![v] = 0]
        BY <4>1, ReadKeepsPage
      <4> QED BY <2>1, <4>2
    <3>4. \A c \in Channels : Read(t, v, n).unread[c] \in {tab[d].unread[c], 0}
      BY <1>1, <3>1, <3>3 DEF Counts
    <3> QED BY <1>7, <3>1, <3>4
  <2> QED BY <2>2, <2>3
<1> QED BY <1>4, <1>5, <1>6, <1>8, <1>9, <1>10, <1>11, <1>12

LEMMA NothingComesBackUnread ==
  ASSUME RInv, [ReadingNext]_readingVars
  PROVE  \A d \in Tabs : BringsNothingBack(tab[d], tab'[d])
<1>1. CASE \E c \in Channels : Says(c)
  BY <1>1, SaysBack
<1>2. /\ inRoom.at \in Counts /\ \A d \in Tabs : tab[d] \in Page
      /\ \A l \in loads : l.at \in Counts /\ \A m \in marks : m.c \in Channels /\ m.at \in Nat
  BY DEF RInv, ReadingTyped, PagesAreHonest, Honest
<1>3. CASE Refreshes
  BY <1>2, <1>3, SentBack DEF Refreshes
<1>4. CASE UNCHANGED tab
  BY <1>2, <1>4, FewerBringNothingBack
<1>5. ASSUME NEW l \in loads, LoadLands(l) PROVE \A d \in Tabs : BringsNothingBack(tab[d], tab'[d])
  <2>1. CASE UNCHANGED tab
    BY <1>4, <2>1
  <2>2. CASE tab' = SentTo({l.of}, inRoom'.at) /\ inRoom'.at = Later(inRoom.at, l.at)
    <3>1. Later(inRoom.at, l.at) \in Counts
      BY <1>2, LaterIsBoth
    <3> QED BY <2>2, <3>1, SentBack
  <2> QED BY <1>5, <2>1, <2>2 DEF LoadLands
<1>6. ASSUME NEW m \in marks, MarkLands(m) PROVE \A d \in Tabs : BringsNothingBack(tab[d], tab'[d])
  <2>1. CASE UNCHANGED tab
    BY <1>4, <2>1
  <2>2. CASE tab' = SentTo(Tabs, inRoom'.at) /\ inRoom' = [inRoom EXCEPT !.there = TRUE, !.at[m.c] = m.at]
    <3> DEFINE at == [inRoom.at EXCEPT ![m.c] = m.at]
    <3>1. m.c \in Channels /\ m.at \in Nat
      BY DEF RInv, ReadingTyped
    <3>2. inRoom'.at = at
      BY <2>2 DEF RInv, ReadingTyped
    <3>3. at \in Counts
      BY <1>2, <3>1 DEF Counts
    <3> HIDE DEF at
    <3> QED BY <2>2, <3>2, <3>3, SentBack
  <2> QED BY <1>6, <2>1, <2>2 DEF MarkLands
<1>7. ASSUME NEW l \in loads, LoadFails(l) PROVE UNCHANGED tab
  BY <1>7 DEF LoadFails
<1>8. ASSUME NEW m \in marks, MarkWrites(m) \/ MarkFails(m) PROVE UNCHANGED tab
  BY <1>8 DEF MarkWrites, MarkFails
<1>9. CASE \E d \in Tabs :
             \/ Opens(d) \/ Listens(d) \/ Reports(d) \/ Closes(d)
             \/ Cuts(d) \/ Resumes(d) \/ Rejoins(d) \/ Expires(d)
             \/ \E v \in Channels \cup {None} : Looks(d, v)
  BY <1>9, PageStepsBack
<1>10. CASE UNCHANGED readingVars
  BY <1>4, <1>10 DEF readingVars
<1> QED
  BY <1>1, <1>3, <1>4, <1>5, <1>6, <1>7, <1>8, <1>9, <1>10 DEF ReadingNext, Marks

\* What was looked at on a page does not come back as unread there, however far
\* behind the office's cursor is, and also when the page is opened again
\* (unread.ts caughtUp).
THEOREM SeenStaysSeen == ReadingSpec => NotUnreadAgain
<1>1. RInv /\ [ReadingNext]_readingVars =>
        [\A d \in Tabs, c \in Channels :
           tab'[d].unread[c] > tab[d].unread[c] => tab'[d].unread[c] > tab[d].seen[c]]_readingVars
  BY NothingComesBackUnread DEF BringsNothingBack
<1>2. RInv /\ GhostsTyped /\ [ReadingNext]_readingVars => RInv' /\ GhostsTyped'
  BY ReadingNextInv, GhostsStayTyped
<1>3. ReadingInit => RInv /\ GhostsTyped
  BY ReadingInitInv, GhostsAtFirst
<1> QED
  BY <1>1, <1>2, <1>3, PTL DEF ReadingSpec, NotUnreadAgain
=============================================================================
