------------------------- MODULE DesksRoutinesProofs -------------------------
(***************************************************************************)
(* Proofs about the desks, for any agents, seats and begins, and about the *)
(* routines, for any rooms, routines, editors and horizon.                 *)
(*                                                                         *)
(* A seat has one holder because both ways of giving one (Take) evict      *)
(* whoever held it.  That nobody in the room is evicted rests on more: the *)
(* book's list of the gone names nobody who has a session, although an     *)
(* agent can have two of them and each ends on its own (GoneAreOut).       *)
(*                                                                         *)
(* A slot of a routine is spoken once because only one settle finds its    *)
(* run "missed", and a run that was found so is never missed again while   *)
(* the routine lives (Recorded).  A deleted routine takes its runs with    *)
(* it: a room that still holds one of its slots must find none to settle   *)
(* (GoneHasNoRuns), and its id must not come back (EditsOK).               *)
(***************************************************************************)
EXTENDS Desks, Routines, TLAPS

SimTyped == sim \in [Agents -> [Slots -> Session \cup {Nobody}]]

HeldTyped == held \in [Agents -> Seats \cup {NoSeat}]

BeginsTyped == begins \in [Begins -> Begun \cup {NoBegin}]

\* Those gone are in the order they left, and each holds a desk.
GoneInOrder ==
  /\ gone \subseteq Absent \X Absent
  /\ \A a \in Absent : held[a] # NoSeat /\ \A b \in Absent : <<a, b>> \in gone \/ <<b, a>> \in gone

\* None of them has a session in the room.
GoneAreOut == \A a \in Absent : ~HasSession(a)

BookOK == HeldTyped /\ GoneInOrder /\ OneHolder

IInv == SimTyped /\ BeginsTyped /\ BookOK /\ GoneAreOut

-----------------------------------------------------------------------------
(* The book.                                                               *)

\* Forgetting some of the gone leaves the others, in order.
LEMMA WithoutOK ==
  ASSUME GoneInOrder, NEW as, gone' = Without(as),
         \A a \in Absent \ as : held'[a] # NoSeat
  PROVE  GoneInOrder' /\ Absent' = Absent \ as
<1>1. Absent' = Absent \ as
  BY DEF Absent, Without
<1>2. gone' \subseteq Absent' \X Absent'
  <2> SUFFICES ASSUME NEW p \in gone' PROVE p \in Absent' \X Absent'
    OBVIOUS
  <2>1. p \in Absent \X Absent /\ p[1] \notin as /\ p[2] \notin as
    BY DEF GoneInOrder, Without
  <2> QED
    BY <1>1, <2>1
<1>3. \A a \in Absent' : held'[a] # NoSeat
  BY <1>1
<1>4. \A a, b \in Absent' : <<a, b>> \in gone' \/ <<b, a>> \in gone'
  BY <1>1 DEF GoneInOrder, Without
<1> QED
  BY <1>1, <1>2, <1>3, <1>4 DEF GoneInOrder

\* A desk taken: its holder loses it, and nobody else but the taker's own.
LEMMA TakeOK ==
  ASSUME BookOK, NEW a \in Agents, NEW s \in Seats \cup {NoSeat}, Take(a, s)
  PROVE  /\ BookOK' /\ Absent' \subseteq Absent
         /\ \A x \in Agents : held'[x] # held[x] => x = a \/ held[x] = s
<1>1. held' = [x \in Agents |-> IF x = a THEN s ELSE IF held[x] = s THEN NoSeat ELSE held[x]]
  BY DEF Take
<1>2. HeldTyped'
  BY <1>1 DEF BookOK, HeldTyped
<1>3. OneHolder'
  BY <1>1 DEF BookOK, OneHolder
<1>4. \A x \in Absent \ ({a} \cup HoldersOf(s)) : held'[x] # NoSeat
  BY <1>1 DEF BookOK, GoneInOrder, HoldersOf, Absent
<1>5. GoneInOrder' /\ Absent' = Absent \ ({a} \cup HoldersOf(s))
  BY <1>4, WithoutOK DEF BookOK, Take
<1> QED
  BY <1>1, <1>2, <1>3, <1>5 DEF BookOK

LEMMA ReleaseOK ==
  ASSUME BookOK, NEW a \in Agents, Release(a)
  PROVE  /\ BookOK' /\ Absent' \subseteq Absent
         /\ \A x \in Agents : held'[x] # held[x] => x = a
<1>1. held' = [held EXCEPT ![a] = NoSeat] /\ gone' = Without({a})
  BY DEF Release
<1>2. HeldTyped'
  BY <1>1 DEF BookOK, HeldTyped
<1>3. OneHolder'
  BY <1>1 DEF BookOK, HeldTyped, OneHolder
<1>4. \A x \in Absent \ {a} : held'[x] # NoSeat
  BY <1>1 DEF BookOK, HeldTyped, GoneInOrder, Absent
<1>5. GoneInOrder' /\ Absent' = Absent \ {a}
  BY <1>1, <1>4, WithoutOK DEF BookOK
<1> QED
  BY <1>1, <1>2, <1>3, <1>5 DEF BookOK, HeldTyped

\* An agent forgotten as gone, its desk as it was.
LEMMA ArrivedOK ==
  ASSUME BookOK, NEW a \in Agents, UNCHANGED held, gone' = Without({a})
  PROVE  BookOK' /\ Absent' = Absent \ {a}
<1>1. \A x \in Absent \ {a} : held'[x] # NoSeat
  BY DEF BookOK, GoneInOrder
<1>2. GoneInOrder' /\ Absent' = Absent \ {a}
  BY <1>1, WithoutOK DEF BookOK
<1> QED
  BY <1>2 DEF BookOK, HeldTyped, OneHolder

\* The book as it was.
LEMMA SameBook ==
  ASSUME BookOK, UNCHANGED book
  PROVE  BookOK' /\ Absent' = Absent
BY DEF BookOK, book, HeldTyped, GoneInOrder, Absent, OneHolder

-----------------------------------------------------------------------------
(* Sessions.                                                               *)

\* A step that changes a session and neither makes nor ends one.
SameSessions == \A a \in Agents : HasSession(a)' <=> HasSession(a)

\* A session there is stays one, whatever is written of it.
LEMMA KeepSession ==
  ASSUME SimTyped, NEW a \in Agents, NEW i \in Slots, NEW r \in Session,
         sim[a][i] # Nobody, sim' = [sim EXCEPT ![a][i] = r]
  PROVE  SimTyped' /\ SameSessions
<1>1. r # Nobody /\ r \in Session \cup {Nobody}
  BY DEF Session, Nobody
<1>2. /\ SimTyped' /\ sim'[a][i] = r
      /\ \A b \in Agents, j \in Slots : b # a \/ j # i => sim'[b][j] = sim[b][j]
  BY <1>1 DEF SimTyped
<1> QED
  BY <1>1, <1>2 DEF SameSessions, HasSession

\* Nobody gone comes to have a session, when none begins and none goes.
LEMMA StillOut ==
  ASSUME GoneAreOut, SameSessions, Absent' \subseteq Absent
  PROVE  GoneAreOut'
BY DEF GoneAreOut, SameSessions, Absent

-----------------------------------------------------------------------------
LEMMA InitInv == Init => IInv
<1> SUFFICES ASSUME Init PROVE IInv
  OBVIOUS
<1>1. SimTyped
  BY DEF Init, SimTyped
<1>2. BeginsTyped
  BY DEF Init, BeginsTyped
<1>3. Absent = {}
  BY DEF Init, Absent
<1>4. BookOK
  BY <1>3 DEF Init, BookOK, HeldTyped, GoneInOrder, OneHolder
<1> QED
  BY <1>1, <1>2, <1>3, <1>4 DEF IInv, GoneAreOut

LEMMA JoinsInv == ASSUME IInv, NEW a \in Agents, Joins(a) PROVE IInv'
<1>1. PICK i \in Slots, busy \in BOOLEAN :
        sim[a][i] = Nobody /\ sim' = [sim EXCEPT ![a][i] = Fresh(busy)]
  BY DEF Joins
<1>2. Fresh(busy) \in Session \cup {Nobody}
  BY DEF Fresh, Session, Floor
<1>3. /\ SimTyped'
      /\ \A b \in Agents, j \in Slots : b # a \/ j # i => sim'[b][j] = sim[b][j]
  BY <1>1, <1>2 DEF IInv, SimTyped
<1>4. BookOK' /\ Absent' = Absent \ {a}
  BY ArrivedOK DEF IInv, Joins
<1>5. BeginsTyped'
  BY DEF IInv, Joins, BeginsTyped
<1>6. GoneAreOut'
  BY <1>3, <1>4 DEF IInv, GoneAreOut, HasSession, Absent
<1> QED
  BY <1>3, <1>4, <1>5, <1>6 DEF IInv

\* Leaving: only with its last session does an agent become one of the gone.
LEMMA LeavesInv == ASSUME IInv, NEW a \in Agents, NEW i \in Slots, Leaves(a, i) PROVE IInv'
<1>0. Nobody \in Session \cup {Nobody} /\ sim' = [sim EXCEPT ![a][i] = Nobody]
  BY DEF Leaves
<1>1. /\ SimTyped' /\ sim'[a][i] = Nobody
      /\ \A b \in Agents, j \in Slots : b # a \/ j # i => sim'[b][j] = sim[b][j]
  BY <1>0 DEF IInv, SimTyped
<1>2. BeginsTyped'
  BY DEF IInv, Leaves, BeginsTyped
<1>3. \A b \in Agents : HasSession(b)' => HasSession(b)
  BY <1>1 DEF HasSession
<1>4. CASE LastOfIts(a, i) /\ held[a] # NoSeat
  <2>1. UNCHANGED held /\ gone' = Without({a}) \cup ((Absent \cup {a}) \X {a})
    BY <1>4 DEF Leaves
  <2>2. Absent' = Absent \cup {a}
    BY <2>1 DEF Absent, Without
  <2>3. gone' \subseteq Absent' \X Absent'
    <3> SUFFICES ASSUME NEW p \in gone' PROVE p \in Absent' \X Absent'
      OBVIOUS
    <3> QED
      BY <2>1, <2>2 DEF IInv, BookOK, GoneInOrder, Without
  <2>4. \A x \in Absent' : held'[x] # NoSeat
    BY <1>4, <2>1, <2>2 DEF IInv, BookOK, GoneInOrder
  <2>5. \A x, y \in Absent' : <<x, y>> \in gone' \/ <<y, x>> \in gone'
    BY <2>1, <2>2 DEF IInv, BookOK, GoneInOrder, Without
  <2>6. BookOK'
    BY <2>1, <2>3, <2>4, <2>5 DEF IInv, BookOK, HeldTyped, GoneInOrder, OneHolder
  <2>7. ~HasSession(a)'
    BY <1>1, <1>4 DEF HasSession, LastOfIts
  <2>8. GoneAreOut'
    BY <1>3, <2>2, <2>7 DEF IInv, GoneAreOut, Absent
  <2> QED
    BY <1>1, <1>2, <2>6, <2>8 DEF IInv
<1>5. CASE ~(LastOfIts(a, i) /\ held[a] # NoSeat)
  <2>1. UNCHANGED book
    BY <1>5 DEF Leaves, book
  <2>2. BookOK' /\ Absent' = Absent
    BY <2>1, SameBook DEF IInv
  <2>3. GoneAreOut'
    BY <1>3, <2>2 DEF IInv, GoneAreOut, Absent
  <2> QED
    BY <1>1, <1>2, <2>2, <2>3 DEF IInv
<1> QED
  BY <1>4, <1>5

\* Dropped, resumed, a turn begun or ended, a walk ended: sessions alone.
LEMMA SessionInv ==
  ASSUME IInv, NEW a \in Agents, NEW i \in Slots,
         Drops(a, i) \/ Resumes(a, i) \/ Turns(a, i) \/ Arrives(a, i)
  PROVE  IInv' /\ UNCHANGED held
<1>1. sim[a][i] \in Session /\ sim[a][i] # Nobody
  BY DEF IInv, SimTyped, Drops, Resumes, Turns, Arrives, Here, Session, Nobody
<1>2. PICK r \in Session : sim' = [sim EXCEPT ![a][i] = r]
  <2>1. CASE Drops(a, i)
    <3> DEFINE r == [sim[a][i] EXCEPT !.is = "away", !.walk = NoSeat]
    <3>1. r \in Session
      BY <1>1 DEF Session
    <3>2. sim' = [sim EXCEPT ![a][i] = r]
      BY <1>1, <2>1 DEF Drops, IInv, SimTyped, Session
    <3> QED
      BY <3>1, <3>2
  <2>2. CASE Resumes(a, i)
    <3> DEFINE r == [sim[a][i] EXCEPT !.is = "here"]
    <3>1. r \in Session
      BY <1>1 DEF Session
    <3>2. sim' = [sim EXCEPT ![a][i] = r]
      BY <2>2 DEF Resumes
    <3> QED
      BY <3>1, <3>2
  <2>3. CASE Turns(a, i)
    <3> DEFINE r == [sim[a][i] EXCEPT !.busy = ~@]
    <3>1. r \in Session
      BY <1>1 DEF Session
    <3>2. sim' = [sim EXCEPT ![a][i] = r]
      BY <2>3 DEF Turns
    <3> QED
      BY <3>1, <3>2
  <2>4. CASE Arrives(a, i)
    <3> DEFINE r == [sim[a][i] EXCEPT !.at = sim[a][i].walk, !.walk = NoSeat]
    <3>1. r \in Session
      BY <1>1, <2>4 DEF Session, Arrives
    <3>2. sim' = [sim EXCEPT ![a][i] = r]
      BY <1>1, <2>4 DEF Arrives, IInv, SimTyped, Session
    <3> QED
      BY <3>1, <3>2
  <2> QED
    BY <2>1, <2>2, <2>3, <2>4
<1>3. UNCHANGED <<book, begins>>
  BY DEF Drops, Resumes, Turns, Arrives
<1>4. SimTyped' /\ SameSessions
  BY <1>1, <1>2, KeepSession DEF IInv
<1>5. BookOK' /\ Absent' = Absent
  BY <1>3, SameBook DEF IInv
<1>6. GoneAreOut'
  BY <1>4, <1>5, StillOut DEF IInv
<1> QED
  BY <1>3, <1>4, <1>5, <1>6 DEF IInv, BeginsTyped, book

\* What a begin reserves is free, or of somebody gone, or already its own.
LEMMA ReservedIsNobodysHere ==
  ASSUME IInv, NEW a \in Agents, NEW s \in Seats \cup {NoSeat}, Reservable(a, s), Take(a, s)
  PROVE  /\ BookOK' /\ Absent' \subseteq Absent
         /\ \A x \in Agents : HasSession(x) /\ held'[x] # held[x] => x = a
<1>1. /\ BookOK' /\ Absent' \subseteq Absent
      /\ \A x \in Agents : held'[x] # held[x] => x = a \/ held[x] = s
  BY TakeOK DEF IInv
<1>2. \A x \in Agents : held[x] = s /\ x # a => ~HasSession(x)
  BY DEF IInv, GoneAreOut, Reservable, HoldersOf
<1> QED
  BY <1>1, <1>2

\* What the sweep claims is one's own, free, or of somebody gone.
LEMMA ClaimedIsNobodysHere ==
  ASSUME IInv, NEW a \in Agents, NEW s \in Claimable(a), Take(a, s)
  PROVE  /\ s \in Seats \cup {NoSeat} /\ BookOK' /\ Absent' \subseteq Absent
         /\ \A x \in Agents : HasSession(x) /\ held[x] # NoSeat => held'[x] = held[x]
<1>1. s \in Seats \cup {NoSeat}
  BY DEF IInv, BookOK, HeldTyped, Claimable, Free, LongestGone, Absent
<1>2. /\ BookOK' /\ Absent' \subseteq Absent
      /\ \A x \in Agents : held'[x] # held[x] => x = a \/ held[x] = s
  BY <1>1, TakeOK DEF IInv
<1>3. held'[a] = s
  BY DEF Take
<1>4. CASE held[a] # NoSeat
  <2>1. s = held[a]
    BY <1>4 DEF Claimable
  <2>2. \A x \in Agents : held[x] = s => x = a
    BY <1>4, <2>1 DEF IInv, BookOK, OneHolder
  <2> QED
    BY <1>1, <1>2, <1>3, <2>1, <2>2
<1>5. CASE held[a] = NoSeat /\ Free # {}
  <2>1. \A x \in Agents : held[x] # s
    BY <1>5 DEF Claimable, Free, HoldersOf
  <2> QED
    BY <1>1, <1>2, <1>5, <2>1
<1>6. CASE held[a] = NoSeat /\ Free = {}
  <2>1. PICK h \in Absent : s = held[h]
    BY <1>6 DEF Claimable, LongestGone
  <2>2. held[h] # NoSeat /\ ~HasSession(h) /\ h \in Agents
    BY <2>1 DEF IInv, BookOK, GoneInOrder, GoneAreOut, Absent
  <2>3. \A x \in Agents : held[x] = s => x = h
    BY <2>1, <2>2 DEF IInv, BookOK, OneHolder
  <2> QED
    BY <1>1, <1>2, <1>6, <2>2, <2>3
<1> QED
  BY <1>4, <1>5, <1>6

-----------------------------------------------------------------------------
\* A sweep: it seats whom it can, and evicts nobody who is there.
LEMMA SweepsInv ==
  ASSUME IInv, NEW a \in Agents, NEW i \in Slots, Sweeps(a, i)
  PROVE  /\ IInv'
         /\ \A x \in Agents : HasSession(x) /\ held[x] # NoSeat => held'[x] = held[x]
<1>1. sim[a][i] \in Session /\ sim[a][i] # Nobody
  BY DEF IInv, SimTyped, Sweeps, Here, Session, Nobody
<1>2. BeginsTyped'
  BY DEF IInv, Sweeps, BeginsTyped
<1>3. SUFFICES ASSUME NEW r \in Session, sim' = [sim EXCEPT ![a][i] = r]
               PROVE  /\ BookOK' /\ Absent' \subseteq Absent
                      /\ \A x \in Agents : HasSession(x) /\ held[x] # NoSeat => held'[x] = held[x]
  <2>1. PICK r \in Session : sim' = [sim EXCEPT ![a][i] = r]
    <3>1. CASE Rises(a, i)
      <4> DEFINE r == [sim[a][i] EXCEPT !.arranged = "stand",
                                        !.at = IF AtSeat(a, i) THEN Floor ELSE @]
      <4>1. r \in Session
        BY <1>1 DEF Session
      <4>2. sim' = [sim EXCEPT ![a][i] = r]
        BY <1>1, <3>1 DEF Rises, IInv, SimTyped, Session
      <4> QED
        BY <4>1, <4>2
    <3>2. CASE Settles(a, i)
      <4> DEFINE r == [sim[a][i] EXCEPT !.arranged = "work"]
      <4>1. r \in Session
        BY <1>1 DEF Session
      <4>2. sim' = [sim EXCEPT ![a][i] = r]
        BY <3>2 DEF Settles
      <4> QED
        BY <4>1, <4>2
    <3>3. CASE Walks(a, i)
      <4>1. PICK s \in Claimable(a) :
              /\ Take(a, s)
              /\ sim' = [sim EXCEPT ![a][i].arranged = "work",
                                    ![a][i].at = Floor, ![a][i].walk = s]
        BY <3>3 DEF Walks
      <4> DEFINE r == [sim[a][i] EXCEPT !.arranged = "work", !.at = Floor, !.walk = s]
      <4>2. r \in Session
        <5>1. s \in Seats \cup {NoSeat}
          BY <4>1, ClaimedIsNobodysHere
        <5> QED
          BY <1>1, <5>1 DEF Session
      <4>3. sim' = [sim EXCEPT ![a][i] = r]
        BY <1>1, <4>1 DEF IInv, SimTyped, Session
      <4> QED
        BY <4>2, <4>3
    <3>4. CASE Waits(a, i)
      <4> DEFINE r == [sim[a][i] EXCEPT !.arranged = Refused(a, i)]
      <4>1. r \in Session
        BY <1>1 DEF Session, Refused
      <4>2. sim' = [sim EXCEPT ![a][i] = r]
        BY <3>4 DEF Waits
      <4> QED
        BY <4>1, <4>2
    <3> QED
      BY <3>1, <3>2, <3>3, <3>4 DEF Sweeps
  <2>2. SimTyped' /\ SameSessions
    BY <1>1, <2>1, KeepSession DEF IInv
  <2>3. /\ BookOK' /\ Absent' \subseteq Absent
        /\ \A x \in Agents : HasSession(x) /\ held[x] # NoSeat => held'[x] = held[x]
    BY <1>3, <2>1
  <2>4. GoneAreOut'
    BY <2>2, <2>3, StillOut DEF IInv
  <2> QED
    BY <1>2, <2>2, <2>3, <2>4 DEF IInv
<1>4. CASE Rises(a, i) \/ Settles(a, i)
  BY <1>4, SameBook DEF IInv, Rises, Settles, book
<1>5. CASE Walks(a, i)
  BY <1>5, ClaimedIsNobodysHere DEF Walks
<1>6. CASE Waits(a, i)
  <2>1. BookOK' /\ Absent' = Absent \ {a}
    BY <1>6, ArrivedOK DEF IInv, Waits
  <2> QED
    BY <1>6, <2>1 DEF Waits
<1> QED
  BY <1>4, <1>5, <1>6 DEF Sweeps

-----------------------------------------------------------------------------
(* Begins.                                                                 *)

\* The desk of the agent begun for may move; of the others, only those gone
\* lose theirs.
OnlyMoves(a) == \A x \in Agents : HasSession(x) /\ held'[x] # held[x] => x = a

LEMMA ReservesInv ==
  ASSUME IInv, NEW b \in Begins, NEW a \in Agents, NEW s \in Seats, Reserves(b, a, s)
  PROVE  /\ BookOK' /\ BeginsTyped' /\ Absent' \subseteq Absent
         /\ held' # held => OnlyMoves(a) /\ begins'[b] # NoBegin /\ begins'[b].of = a
<1>1. CASE Reservable(a, s)
  <2> DEFINE r == [pc |-> "taken", of |-> a, seat |-> s, before |-> held[a]]
  <2>1. Take(a, s) /\ begins' = [begins EXCEPT ![b] = r]
    BY <1>1 DEF Reserves
  <2>2. r \in Begun /\ r # NoBegin
    BY DEF Begun, NoBegin, IInv, BookOK, HeldTyped
  <2>3. BeginsTyped' /\ begins'[b] = r
    BY <2>1, <2>2 DEF IInv, BeginsTyped
  <2>4. BookOK' /\ Absent' \subseteq Absent /\ OnlyMoves(a)
    BY <1>1, <2>1, ReservedIsNobodysHere DEF OnlyMoves
  <2> QED
    BY <2>2, <2>3, <2>4
<1>2. CASE ~Reservable(a, s)
  <2>1. begins' = [begins EXCEPT ![b] = NoBegin] /\ UNCHANGED book
    BY <1>2 DEF Reserves
  <2>2. BeginsTyped'
    BY <2>1 DEF IInv, BeginsTyped
  <2> QED
    BY <2>1, <2>2, SameBook DEF IInv, book
<1> QED
  BY <1>1, <1>2

\* What a begin's step keeps: whoever loses a desk, and is there, is the agent
\* a begin under way is for.
OfTheBegun ==
  \A a \in Agents :
    HasSession(a) /\ held[a] # NoSeat /\ held'[a] # held[a]
    => \E b \in Begins : \/ begins[b] # NoBegin /\ begins[b].of = a
                         \/ begins'[b] # NoBegin /\ begins'[b].of = a

LEMMA BeginsAtInv ==
  ASSUME IInv, NEW b \in Begins, NEW a \in Agents, NEW s \in Seats, BeginsAt(b, a, s)
  PROVE  BookOK' /\ BeginsTyped' /\ Absent' \subseteq Absent /\ OfTheBegun
<1>1. CASE read
  <2>1. Reserves(b, a, s)
    BY <1>1 DEF BeginsAt
  <2> QED
    BY <2>1, ReservesInv DEF OnlyMoves, OfTheBegun
<1>2. CASE ~read
  <2> DEFINE r == [pc |-> "judged", of |-> a, seat |-> s, before |-> NoSeat]
  <2>1. begins' = [begins EXCEPT ![b] = r] /\ UNCHANGED book
    BY <1>2 DEF BeginsAt
  <2>2. r \in Begun
    BY DEF Begun
  <2>3. BeginsTyped'
    BY <2>1, <2>2 DEF IInv, BeginsTyped
  <2> QED
    BY <2>1, <2>3, SameBook DEF IInv, book, OfTheBegun
<1> QED
  BY <1>1, <1>2

LEMMA TakesLateInv ==
  ASSUME IInv, NEW b \in Begins, TakesLate(b)
  PROVE  BookOK' /\ BeginsTyped' /\ Absent' \subseteq Absent /\ OfTheBegun
<1>1. begins[b] \in Begun
  BY DEF IInv, BeginsTyped, TakesLate, NoBegin
<1>2. begins[b].of \in Agents /\ begins[b].seat \in Seats
  BY <1>1 DEF Begun
<1>3. Reserves(b, begins[b].of, begins[b].seat)
  BY DEF TakesLate
<1> QED
  BY <1>2, <1>3, ReservesInv DEF OnlyMoves, OfTheBegun

LEMMA WriteFailsInv ==
  ASSUME IInv, NEW b \in Begins, WriteFails(b)
  PROVE  BookOK' /\ BeginsTyped' /\ Absent' \subseteq Absent /\ OfTheBegun
<1>1. begins[b] \in Begun /\ begins[b] # NoBegin
  BY DEF IInv, BeginsTyped, WriteFails, NoBegin
<1>2. begins[b].of \in Agents /\ begins[b].before \in Seats \cup {NoSeat}
  BY <1>1 DEF Begun
<1> DEFINE a == begins[b].of
           s == begins[b].before
<1>3. BeginsTyped'
  BY DEF IInv, BeginsTyped, WriteFails
<1>4. CASE s # NoSeat /\ Reservable(a, s)
  <2>1. Take(a, s)
    BY <1>4 DEF WriteFails
  <2>2. BookOK' /\ Absent' \subseteq Absent /\ OnlyMoves(a)
    BY <1>2, <1>4, <2>1, ReservedIsNobodysHere DEF OnlyMoves
  <2> QED
    BY <1>1, <1>3, <2>2 DEF OnlyMoves, OfTheBegun
<1>5. CASE ~(s # NoSeat /\ Reservable(a, s))
  <2>1. Release(a)
    BY <1>5 DEF WriteFails
  <2>2. /\ BookOK' /\ Absent' \subseteq Absent
        /\ \A x \in Agents : held'[x] # held[x] => x = a
    BY <1>2, <2>1, ReleaseOK DEF IInv
  <2> QED
    BY <1>1, <1>3, <2>2 DEF OfTheBegun
<1> QED
  BY <1>4, <1>5

LEMMA BeginInv == ASSUME IInv, NEW b \in Begins, BeginStep(b) PROVE IInv' /\ OfTheBegun
<1>1. UNCHANGED sim
  BY DEF BeginStep, BeginsAt, TakesLate, Written, WriteFails
<1>2. BookOK' /\ BeginsTyped' /\ Absent' \subseteq Absent /\ OfTheBegun
  <2>1. CASE Written(b)
    <3>1. begins' = [begins EXCEPT ![b] = NoBegin] /\ UNCHANGED book
      BY <2>1 DEF Written
    <3>2. BeginsTyped'
      BY <3>1 DEF IInv, BeginsTyped
    <3> QED
      BY <3>1, <3>2, SameBook DEF IInv, book, OfTheBegun
  <2> QED
    BY <2>1, BeginsAtInv, TakesLateInv, WriteFailsInv DEF BeginStep
<1>3. SimTyped' /\ SameSessions
  BY <1>1 DEF IInv, SimTyped, SameSessions, HasSession
<1>4. GoneAreOut'
  BY <1>2, <1>3, StillOut DEF IInv
<1> QED
  BY <1>2, <1>3, <1>4 DEF IInv

-----------------------------------------------------------------------------
\* Every step keeps the invariant and takes no desk from an agent that is
\* there, except by a begin of its own.
LEMMA StepInv == IInv /\ [Next]_vars => IInv' /\ OfTheBegun
<1> SUFFICES ASSUME IInv, [Next]_vars PROVE IInv' /\ OfTheBegun
  OBVIOUS
<1>1. ASSUME NEW a \in Agents, SessionStep(a) PROVE IInv' /\ OfTheBegun
  <2>1. CASE Joins(a)
    BY <2>1, JoinsInv DEF Joins, OfTheBegun
  <2>2. ASSUME NEW i \in Slots, Leaves(a, i) PROVE IInv' /\ OfTheBegun
    BY <2>2, LeavesInv DEF Leaves, OfTheBegun
  <2>3. ASSUME NEW i \in Slots, Sweeps(a, i) PROVE IInv' /\ OfTheBegun
    <3>1. /\ IInv' /\ UNCHANGED begins
          /\ \A x \in Agents : HasSession(x) /\ held[x] # NoSeat => held'[x] = held[x]
      BY <2>3, SweepsInv DEF Sweeps
    <3> QED
      BY <3>1 DEF OfTheBegun
  <2>4. ASSUME NEW i \in Slots, Drops(a, i) \/ Resumes(a, i) \/ Turns(a, i) \/ Arrives(a, i)
        PROVE  IInv' /\ OfTheBegun
    BY <2>4, SessionInv DEF OfTheBegun
  <2> QED
    BY <1>1, <2>1, <2>2, <2>3, <2>4 DEF SessionStep
<1>2. ASSUME NEW b \in Begins, BeginStep(b) PROVE IInv' /\ OfTheBegun
  BY <1>2, BeginInv
<1>3. CASE BoardRead \/ UNCHANGED vars
  <2>1. UNCHANGED <<sim, book, begins>>
    BY <1>3 DEF BoardRead, vars, book
  <2>2. BookOK' /\ Absent' = Absent
    BY <2>1, SameBook DEF IInv
  <2>3. SimTyped' /\ SameSessions
    BY <2>1 DEF IInv, SimTyped, SameSessions, HasSession
  <2>4. GoneAreOut'
    BY <2>2, <2>3, StillOut DEF IInv
  <2> QED
    BY <2>1, <2>2, <2>3, <2>4 DEF IInv, BeginsTyped, OfTheBegun, book
<1> QED
  BY <1>1, <1>2, <1>3 DEF Next

\* A seat has one holder, whatever sweeps, begins and give-backs overlap
\* (seating.ts:78).
THEOREM SeatsHaveOneHolder == Spec => []OneHolder
<1>1. Init => IInv
  BY InitInv
<1>2. IInv /\ [Next]_vars => IInv'
  BY StepInv
<1>3. IInv => OneHolder
  BY DEF IInv, BookOK
<1> QED
  BY <1>1, <1>2, <1>3, PTL DEF Spec

\* An agent with a session in the room keeps its desk, however many of its
\* sessions end and whoever else looks for one: only a begin of its own moves
\* it (OfficeRoom.ts #removePlayer, seating.ts claim, reserve).
THEOREM ThePresentKeepTheirDesks == Spec => PresentKeepsDesk
<1>1. Init => IInv
  BY InitInv
<1>2. IInv /\ [Next]_vars => IInv'
  BY StepInv
<1>3. IInv /\ [Next]_vars
      => [\A a \in Agents :
            HasSession(a) /\ held[a] # NoSeat /\ held'[a] # held[a]
            => \E b \in Begins : \/ begins[b] # NoBegin /\ begins[b].of = a
                                 \/ begins'[b] # NoBegin /\ begins'[b].of = a]_vars
  BY StepInv DEF OfTheBegun
<1> QED
  BY <1>1, <1>2, <1>3, PTL DEF Spec, PresentKeepsDesk

\* The gone are ordered, hold a desk, and have no session in the room: what
\* lets claim take the longest gone's desk without looking for its sessions
\* (seating.ts:131).
THEOREM TheGoneAreOut == Spec => [](GoneInOrder /\ GoneAreOut)
<1>1. Init => IInv
  BY InitInv
<1>2. IInv /\ [Next]_vars => IInv'
  BY StepInv
<1>3. IInv => GoneInOrder /\ GoneAreOut
  BY DEF IInv, BookOK
<1> QED
  BY <1>1, <1>2, <1>3, PTL DEF Spec

-----------------------------------------------------------------------------
(* The routines: what every reachable state satisfies.                     *)

Slotted(x) == x.r \in Ids /\ x.slot \in DueMoments

\* A tick knows what its step needs.
TickOK(t) ==
  /\ t.at \in {"idle", "due", "claim", "settle", "speak", "pause", "missed"}
  /\ t.at # "idle" => {"at", "todo"} \subseteq DOMAIN t /\ \A x \in t.todo : Slotted(x)
  /\ t.at = "claim" => Slotted(t.one) /\ t.decided \in {"missed", "skipped", "fire"}
  /\ t.at \in {"settle", "speak", "pause"} =>
       Slotted(t) /\ {"r", "slot"} \subseteq DOMAIN t /\ t.decided \in {"fired", "made_up"}

TicksOK == DOMAIN tick = Rooms /\ \A m \in Rooms : TickOK(tick[m])

Named(row) == "name" \in DOMAIN row /\ row.name \in Names

RowsOK == DOMAIN rows = Ids /\ \A r \in Ids : rows[r] \in {NoRow, Gone} \/ Named(rows[r])

RunsOK == clock \in 0..Horizon /\ runs \in [Ids -> [DueMoments -> Outcomes]]

\* The runs of a routine go with it.
GoneHasNoRuns == \A r \in Ids : rows[r] = Gone => \A s \in DueMoments : runs[r][s] = "none"

\* A routine yet to be written is not there, and has one writer.
Creates(e) == edits[e].at = "create"
EditsOK ==
  /\ DOMAIN edits = Editors
  /\ \A e \in Editors : Creates(e) =>
       /\ edits[e].r \in Ids /\ rows[edits[e].r] = NoRow /\ Named(edits[e].row)
       /\ \A f \in Editors \ {e} : Creates(f) => edits[f].r # edits[e].r

\* On record as spoken, as long as there is a record.
Recorded(r, s) == runs[r][s] \in {"fired", "made_up"} \/ rows[r] = Gone

SpokenOK ==
  /\ spoken \in [Ids -> Seq(DueMoments)]
  /\ \A r \in Ids : /\ IsInjective(spoken[r])
                    /\ \A s \in SpokenSlots(r) : Recorded(r, s)

\* Of the rooms about to speak, each is alone with its slot, and early enough.
Speaking(m, r, s) == tick[m].at = "speak" /\ tick[m].r = r /\ tick[m].slot = s
SpeakingOK ==
  \A m \in Rooms, r \in Ids, s \in DueMoments : Speaking(m, r, s) =>
    /\ Recorded(r, s) /\ s \notin SpokenSlots(r)
    /\ \A o \in Rooms \ {m} : ~Speaking(o, r, s)

DiaryInv == TicksOK /\ RowsOK /\ RunsOK /\ GoneHasNoRuns /\ EditsOK /\ SpokenOK /\ SpeakingOK

-----------------------------------------------------------------------------
LEMMA DiaryInitInv == RoutinesInit => DiaryInv
<1> SUFFICES ASSUME RoutinesInit PROVE DiaryInv
  OBVIOUS
<1>1. TicksOK
  BY DEF RoutinesInit, TicksOK, TickOK, Idle
<1>2. RowsOK /\ \A r \in Ids : rows[r] # Gone
  <2>1. PICK made \in {{}, {CHOOSE r \in Ids : TRUE}}, n \in Names, s \in Schedules :
          rows = [r \in Ids |-> IF r \notin made THEN NoRow ELSE
                   [name |-> n, sched |-> s, next |-> NextDue(s, 0), paused |-> FALSE,
                    words |-> "command"]]
    BY DEF RoutinesInit
  <2> DEFINE row == [name |-> n, sched |-> s, next |-> NextDue(s, 0), paused |-> FALSE,
                     words |-> "command"]
  <2>2. Named(row) /\ row.words = "command"
    BY DEF Named
  <2>3. \A r \in Ids : rows[r] \in {NoRow, row}
    BY <2>1
  <2>4. NoRow # Gone /\ row # Gone
    <3>1. Gone.name = "gone" /\ NoRow.name = "unmade" /\ Gone.words = "none"
      BY DEF Gone, NoRow
    <3> HIDE DEF row
    <3> QED BY <2>2, <3>1
  <2> HIDE DEF row
  <2> QED BY <2>1, <2>2, <2>3, <2>4 DEF RowsOK
<1>3. RunsOK
  BY HorizonAssumption DEF RoutinesInit, RunsOK, Outcomes
<1>4. GoneHasNoRuns
  BY <1>2 DEF GoneHasNoRuns
<1>5. EditsOK
  BY DEF RoutinesInit, EditsOK, Creates, Idle
<1>6. SpokenOK
  BY DEF RoutinesInit, SpokenOK, SpokenSlots, Range, IsInjective
<1>7. SpeakingOK
  BY DEF RoutinesInit, SpeakingOK, Speaking, Idle
<1> QED BY <1>1, <1>2, <1>3, <1>4, <1>5, <1>6, <1>7 DEF DiaryInv

\* The step leaves every tick in order, and brings none to the point of speaking.
Hushed == TicksOK' /\ \A o \in Rooms : tick'[o] = tick[o] \/ tick'[o].at # "speak"

LEMMA NoTick == ASSUME DiaryInv, UNCHANGED tick PROVE Hushed
BY DEF Hushed, DiaryInv, TicksOK

LEMMA OneTick ==
  ASSUME DiaryInv, NEW m \in Rooms, NEW t, TickOK(t), t.at # "speak",
         tick' = [tick EXCEPT ![m] = t]
  PROVE  Hushed
BY DEF Hushed, DiaryInv, TicksOK

\* What is recorded stays so, and nobody new is about to speak.
LEMMA NobodyNewSpeaks ==
  ASSUME DiaryInv, UNCHANGED spoken, Hushed,
         \A r \in Ids, s \in DueMoments : Recorded(r, s) => Recorded(r, s)'
  PROVE  SpokenOK' /\ SpeakingOK'
<1>1. \A o \in Rooms, r \in Ids, s \in DueMoments : Speaking(o, r, s)' => Speaking(o, r, s)
  BY DEF Hushed, Speaking
<1>2. \A r \in Ids : SpokenSlots(r)' = SpokenSlots(r) /\ SpokenSlots(r) \subseteq DueMoments
  BY DEF SpokenSlots, DiaryInv, SpokenOK, Range
<1>3. SpokenOK'
  BY <1>2 DEF DiaryInv, SpokenOK
<1>4. SpeakingOK'
  BY <1>1, <1>2 DEF DiaryInv, SpeakingOK
<1> QED BY <1>3, <1>4

\* A step of a tick that touches no table.
LEMMA TickLooks ==
  ASSUME DiaryInv, NEW m \in Rooms, NEW t, TickOK(t), t.at # "speak",
         tick' = [tick EXCEPT ![m] = t], UNCHANGED <<clock, rows, runs, edits, spoken>>
  PROVE  DiaryInv'
<1>1. Hushed /\ TicksOK'
  BY OneTick DEF Hushed
<1>2. RowsOK' /\ RunsOK' /\ GoneHasNoRuns' /\ EditsOK'
  BY DEF DiaryInv, RowsOK, RunsOK, GoneHasNoRuns, EditsOK, Creates
<1>3. \A r \in Ids, s \in DueMoments : Recorded(r, s) => Recorded(r, s)'
  BY DEF Recorded
<1>4. SpokenOK' /\ SpeakingOK'
  BY <1>1, <1>3, NobodyNewSpeaks
<1> QED BY <1>1, <1>2, <1>4 DEF DiaryInv

LEMMA LooksInv ==
  ASSUME DiaryInv, NEW m \in Rooms,
         TickBegins(m) \/ Looks(m) \/ ReadsMissed(m) \/ LooksAgain(m) \/ Breaks(m)
  PROVE  DiaryInv'
<1>1. TickOK(tick[m]) /\ UNCHANGED <<clock, rows, runs, edits, spoken>>
  BY DEF DiaryInv, TicksOK, TickBegins, Looks, ReadsMissed, LooksAgain, Breaks
<1>2. TickOK(Idle)
  BY DEF TickOK, Idle
<1>3. CASE TickBegins(m)
  <2> DEFINE t == [at |-> "due", now |-> clock, todo |-> Listed(clock)]
  <2>1. \A x \in Listed(clock) : Slotted(x)
    <3> SUFFICES ASSUME NEW r \in Due(clock) PROVE r \in Ids /\ rows[r].next \in DueMoments
      BY DEF Listed, Slotted
    <3>1. clock \in 0..Horizon /\ r \in Ids /\ rows[r].next \in 1..clock
      BY DEF Due, Kept, DiaryInv, RunsOK
    <3> QED BY <3>1, HorizonAssumption DEF DueMoments
  <2>2. TickOK(t) /\ t.at # "speak"
    BY <2>1 DEF TickOK
  <2>3. tick' = [tick EXCEPT ![m] = t]
    BY <1>3 DEF TickBegins, At
  <2> QED BY <1>1, <2>2, <2>3, TickLooks
<1>4. CASE Looks(m)
  <2>1. PICK one \in Earliest(tick[m].todo) :
          tick' = [tick EXCEPT ![m] =
            [at |-> "claim", now |-> tick[m].now, todo |-> tick[m].todo \ {one},
             one |-> one, door |-> agent.door, decided |-> Decision(agent)]]
    BY <1>4 DEF Looks, At
  <2>2. tick[m].at = "due" /\ Slotted(one) /\ \A x \in tick[m].todo \ {one} : Slotted(x)
    BY <1>1, <1>4 DEF Looks, Doing, TickOK, Earliest
  <2>3. Decision(agent) \in {"missed", "skipped", "fire"}
    BY DEF Decision
  <2> DEFINE t == [at |-> "claim", now |-> tick[m].now, todo |-> tick[m].todo \ {one},
                   one |-> one, door |-> agent.door, decided |-> Decision(agent)]
  <2>4. TickOK(t) /\ t.at # "speak"
    BY <2>2, <2>3 DEF TickOK
  <2> QED BY <1>1, <2>1, <2>4, TickLooks
<1>5. CASE ReadsMissed(m)
  <2> DEFINE t == [at |-> "missed", now |-> tick[m].now, todo |-> Missed]
  <2>1. \A x \in Missed : Slotted(x)
    BY DEF Missed, Slotted
  <2>2. TickOK(t) /\ t.at # "speak"
    BY <2>1 DEF TickOK
  <2>3. tick' = [tick EXCEPT ![m] = t]
    BY <1>5 DEF ReadsMissed, At
  <2> QED BY <1>1, <2>2, <2>3, TickLooks
<1>6. CASE tick' = [tick EXCEPT ![m] = Idle]
  BY <1>1, <1>2, <1>6, TickLooks DEF Idle
<1>7. CASE LooksAgain(m) /\ ~(tick' = [tick EXCEPT ![m] = Idle])
  <2>1. PICK one \in Earliest(tick[m].todo) :
          LET rest == [tick[m] EXCEPT !.todo = @ \ {one}] IN
          tick' = [tick EXCEPT ![m] =
            IF one.r \in Kept /\ ~rows[one.r].paused /\ MakesUp(rows[one.r], rest.now, agent)
            THEN ToSettle(rest, one.r, one.slot, agent.door, "made_up") ELSE rest]
    BY <1>7 DEF LooksAgain, At
  <2> DEFINE rest == [tick[m] EXCEPT !.todo = @ \ {one}]
             u == ToSettle(rest, one.r, one.slot, agent.door, "made_up")
  <2>2. tick[m].at = "missed" /\ Slotted(one) /\ {"at", "todo"} \subseteq DOMAIN tick[m]
    BY <1>1, <1>7 DEF LooksAgain, Doing, TickOK, Earliest
  <2>3. /\ rest.at = "missed" /\ rest.todo = tick[m].todo \ {one} /\ DOMAIN rest = DOMAIN tick[m]
    BY <2>2
  <2>4. \A x \in rest.todo : Slotted(x)
    BY <1>1, <2>2, <2>3 DEF TickOK
  <2>5. PICK t \in {u, rest} : tick' = [tick EXCEPT ![m] = t]
    BY <2>1
  <2> HIDE DEF rest
  <2>6. TickOK(rest) /\ rest.at # "speak"
    BY <2>2, <2>3, <2>4 DEF TickOK
  <2>7. TickOK(u) /\ u.at # "speak"
    BY <2>2, <2>4 DEF TickOK, ToSettle, Slotted
  <2> QED BY <1>1, <2>5, <2>6, <2>7, TickLooks
<1>8. CASE Breaks(m)
  BY <1>6, <1>8 DEF Breaks, At
<1> QED BY <1>3, <1>4, <1>5, <1>6, <1>7, <1>8

-----------------------------------------------------------------------------
LEMMA KeptIsNamed ==
  ASSUME DiaryInv, NEW r \in Kept
  PROVE  /\ r \in Ids /\ r \in DOMAIN rows /\ Named(rows[r]) /\ DOMAIN rows = Ids
         /\ rows[r] # Gone /\ rows[r] # NoRow
BY DEF DiaryInv, RowsOK, Kept

\* Writers in hand keep what they check when no unmade row is made.
LEMMA EditsStay ==
  ASSUME DiaryInv, \A x \in Ids : rows[x] = NoRow => rows'[x] = NoRow,
         DOMAIN edits' = Editors,
         \A e \in Editors : edits'[e] = edits[e] \/ edits'[e].at # "create"
  PROVE  EditsOK'
BY DEF DiaryInv, EditsOK, Creates

LEMMA NamedIsNotGone == ASSUME NEW row, Named(row) PROVE row # Gone /\ row # NoRow
<1>1. Gone.name = "gone" /\ NoRow.name = "unmade"
  BY DEF Gone, NoRow
<1> QED BY <1>1, NamesAssumption DEF Named

\* The row of a routine written to, and slots of it given a run.
LEMMA RowWritten ==
  ASSUME DiaryInv, NEW r \in Kept, Named(rows'[r]),
         DOMAIN rows' = Ids, \A x \in Ids \ {r} : rows'[x] = rows[x] /\ runs'[x] = runs[x],
         runs' \in [Ids -> [DueMoments -> Outcomes]],
         \A s \in DueMoments : runs[r][s] \in {"fired", "made_up"} => runs'[r][s] = runs[r][s],
         UNCHANGED <<clock, spoken>>, DOMAIN edits' = Editors,
         \A e \in Editors : edits'[e] = edits[e] \/ edits'[e].at # "create", Hushed
  PROVE  DiaryInv'
<1>1. /\ r \in Ids /\ DOMAIN rows = Ids /\ rows[r] # Gone /\ rows[r] # NoRow
      /\ rows'[r] # Gone /\ rows'[r] # NoRow
  BY KeptIsNamed, NamedIsNotGone
<1>2. RowsOK' /\ \A x \in Ids : rows[x] \in {NoRow, Gone} => rows'[x] = rows[x]
  BY <1>1 DEF DiaryInv, RowsOK
<1>3. TicksOK' /\ RunsOK'
  BY DEF DiaryInv, Hushed, RunsOK
<1>4. GoneHasNoRuns'
  BY <1>1 DEF DiaryInv, GoneHasNoRuns
<1>5. EditsOK'
  BY <1>2, EditsStay
<1>6. \A x \in Ids, s \in DueMoments : Recorded(x, s) => Recorded(x, s)'
  <2> SUFFICES ASSUME NEW x \in Ids, NEW s \in DueMoments, Recorded(x, s) PROVE Recorded(x, s)'
    OBVIOUS
  <2>1. CASE x = r
    BY <1>1, <2>1 DEF Recorded
  <2>2. CASE x # r
    BY <2>2 DEF Recorded
  <2> QED BY <2>1, <2>2
<1>7. SpokenOK' /\ SpeakingOK'
  BY <1>6, NobodyNewSpeaks
<1> QED BY <1>2, <1>3, <1>4, <1>5, <1>7 DEF DiaryInv

LEMMA PausesInv == ASSUME DiaryInv, NEW m \in Rooms, Pauses(m) PROVE DiaryInv'
<1> DEFINE t == tick[m]
<1>1. /\ t.at = "pause" /\ TickOK(t) /\ Slotted(t) /\ t.decided \in {"fired", "made_up"}
      /\ UNCHANGED <<clock, runs, edits, spoken>>
  BY DEF Pauses, Doing, DiaryInv, TicksOK, TickOK
<1>2. CASE tick' = [tick EXCEPT ![m] = Idle] /\ UNCHANGED rows
  BY <1>1, <1>2, TickLooks DEF TickOK, Idle
<1>3. CASE /\ rows[t.r].words # "none" /\ tick' = [tick EXCEPT ![m] = Onward(t)]
           /\ rows' = [rows EXCEPT ![t.r].paused = TRUE, ![t.r].next = Never]
  <2> DEFINE r == t.r
  <2>1. r \in Kept
    BY <1>1, <1>3 DEF Kept, Slotted, NoRow, Gone
  <2>2. Named(rows[r]) /\ r \in Ids /\ DOMAIN rows = Ids
    BY <2>1, KeptIsNamed
  <2>3. /\ DOMAIN rows' = Ids /\ \A x \in Ids \ {r} : rows'[x] = rows[x]
        /\ rows'[r] = [rows[r] EXCEPT !.paused = TRUE, !.next = Never]
    BY <1>3, <2>2
  <2>4. Named(rows'[r])
    BY <2>2, <2>3 DEF Named
  <2>5. Onward(t).at # "speak" /\ TickOK(Onward(t))
    BY <1>1 DEF Onward, TickOK
  <2>6. runs \in [Ids -> [DueMoments -> Outcomes]] /\ DOMAIN edits = Editors
    BY DEF DiaryInv, RunsOK, EditsOK
  <2>7. Hushed
    BY <1>3, <2>5, OneTick
  <2> HIDE DEF r, t
  <2> QED BY <1>1, <2>1, <2>3, <2>4, <2>6, <2>7, RowWritten
<1> QED BY <1>2, <1>3 DEF Pauses, At

LEMMA WritesInv == ASSUME DiaryInv, NEW e \in Editors, Writes(e) PROVE DiaryInv'
<1> DEFINE c == edits[e]
<1>1. /\ UNCHANGED <<clock, runs, tick, spoken>> /\ edits' = [edits EXCEPT ![e] = Idle]
      /\ DOMAIN edits = Editors
  BY DEF Writes, Quiet, DiaryInv, EditsOK
<1>2. DOMAIN edits' = Editors /\ \A f \in Editors : edits'[f] = edits[f] \/ edits'[f].at # "create"
  BY <1>1 DEF Idle
<1>3. Hushed
  BY <1>1, NoTick
<1>5. CASE rows' = rows
  <2>1. TicksOK' /\ RunsOK' /\ RowsOK' /\ GoneHasNoRuns'
    BY <1>1, <1>3, <1>5 DEF DiaryInv, Hushed, RunsOK, RowsOK, GoneHasNoRuns
  <2>2. EditsOK'
    BY <1>2, <1>5, EditsStay
  <2>3. \A x \in Ids, s \in DueMoments : Recorded(x, s) => Recorded(x, s)'
    BY <1>1, <1>5 DEF Recorded
  <2>4. SpokenOK' /\ SpeakingOK'
    BY <1>1, <1>3, <2>3, NobodyNewSpeaks
  <2> QED BY <2>1, <2>2, <2>4 DEF DiaryInv
<1>6. CASE c.r \in Kept
  <2>1. PICK p, q, n :
          rows' = [rows EXCEPT ![c.r].paused = p, ![c.r].sched = q, ![c.r].next = n]
    BY <1>6 DEF Writes
  <2>2. Named(rows[c.r]) /\ c.r \in Ids /\ DOMAIN rows = Ids
    BY <1>6, KeptIsNamed
  <2>3. /\ DOMAIN rows' = Ids /\ \A x \in Ids \ {c.r} : rows'[x] = rows[x]
        /\ rows'[c.r] = [rows[c.r] EXCEPT !.paused = p, !.sched = q, !.next = n]
    BY <2>1, <2>2
  <2>4. Named(rows'[c.r])
    BY <2>2, <2>3 DEF Named
  <2>5. runs \in [Ids -> [DueMoments -> Outcomes]]
    BY DEF DiaryInv, RunsOK
  <2> HIDE DEF c
  <2> QED BY <1>1, <1>2, <1>3, <1>6, <2>3, <2>4, <2>5, RowWritten
<1> QED BY <1>5, <1>6 DEF Writes

LEMMA LosesCommandInv == ASSUME DiaryInv, NEW r \in Ids, LosesCommand(r) PROVE DiaryInv'
<1>1. /\ UNCHANGED <<clock, runs, tick, spoken, edits>> /\ r \in Kept
      /\ rows' = [rows EXCEPT ![r].words = "none"]
  BY DEF LosesCommand, Quiet
<1>2. Hushed
  BY <1>1, NoTick
<1>4. Named(rows[r]) /\ DOMAIN rows = Ids
  BY <1>1, KeptIsNamed
<1>5. /\ DOMAIN rows' = Ids /\ \A x \in Ids \ {r} : rows'[x] = rows[x]
      /\ rows'[r] = [rows[r] EXCEPT !.words = "none"]
  BY <1>1, <1>4
<1>6. Named(rows'[r])
  BY <1>4, <1>5 DEF Named
<1>7. runs \in [Ids -> [DueMoments -> Outcomes]] /\ DOMAIN edits = Editors
  BY DEF DiaryInv, RunsOK, EditsOK
<1> QED BY <1>1, <1>2, <1>5, <1>6, <1>7, RowWritten

\* A slot claimed gets its run, and the routine moves on.
LEMMA ClaimsWrite ==
  ASSUME DiaryInv, NEW m \in Rooms, Claims(m)
  PROVE  /\ tick[m].at = "claim" /\ Slotted(tick[m].one) /\ UNCHANGED <<clock, edits, spoken>>
         /\ \/ UNCHANGED <<rows, runs>> /\ tick' = [tick EXCEPT ![m] = Idle]
            \/ LET r == tick[m].one.r
                   s == tick[m].one.slot IN
               /\ r \in Kept /\ Named(rows'[r]) /\ DOMAIN rows' = Ids
               /\ \A x \in Ids \ {r} : rows'[x] = rows[x] /\ runs'[x] = runs[x]
               /\ runs' \in [Ids -> [DueMoments -> Outcomes]] /\ runs'[r][s] # "none"
               /\ rows[r].next # s => rows' = rows
               /\ \A u \in DueMoments : runs[r][u] # "none" => runs'[r][u] = runs[r][u]
               /\ \E t : TickOK(t) /\ t.at # "speak" /\ tick' = [tick EXCEPT ![m] = t]
<1> DEFINE k == tick[m]
           r == k.one.r
           s == k.one.slot
<1>1. /\ k.at = "claim" /\ TickOK(k) /\ Slotted(k.one) /\ k.decided \in {"missed", "skipped", "fire"}
      /\ UNCHANGED <<clock, edits, spoken>> /\ runs \in [Ids -> [DueMoments -> Outcomes]]
  BY DEF Claims, Doing, DiaryInv, TicksOK, TickOK, RunsOK
<1>2. CASE r \notin Kept
  BY <1>1, <1>2 DEF Claims, At
<1>3. CASE r \in Kept
  <2>1. /\ rows' = Advanced(r, k.one.sched, s)
        /\ runs' = IF runs[r][s] # "none" THEN runs
                   ELSE [runs EXCEPT ![r][s] = IF k.decided = "fire" THEN "missed" ELSE k.decided]
        /\ tick' = [tick EXCEPT ![m] = IF Wins(r, s) /\ k.decided = "fire"
                                       THEN ToSettle(k, r, s, k.door, "fired")
                                       ELSE [at |-> "due", now |-> k.now, todo |-> k.todo]]
    BY <1>3 DEF Claims, At
  <2>2. r \in Ids /\ s \in DueMoments /\ Named(rows[r]) /\ DOMAIN rows = Ids
    BY <1>1, <1>3, KeptIsNamed DEF Slotted
  <2>3. PICK n : rows' = rows \/ (rows[r].next = s /\ rows' = [rows EXCEPT ![r].next = n])
    BY <2>1 DEF Advanced
  <2>4. /\ DOMAIN rows' = Ids /\ (\A x \in Ids \ {r} : rows'[x] = rows[x])
        /\ rows'[r] \in {rows[r], [rows[r] EXCEPT !.next = n]}
    BY <2>2, <2>3
  <2>5. Named(rows'[r])
    BY <2>2, <2>4 DEF Named
  <2>6. PICK o \in {"missed", "skipped"} :
          runs' = IF runs[r][s] # "none" THEN runs ELSE [runs EXCEPT ![r][s] = o]
    BY <1>1, <2>1
  <2>7. /\ runs' \in [Ids -> [DueMoments -> Outcomes]] /\ runs'[r][s] # "none"
        /\ \A x \in Ids \ {r} : runs'[x] = runs[x]
        /\ \A u \in DueMoments : runs[r][u] # "none" => runs'[r][u] = runs[r][u]
    BY <1>1, <2>2, <2>6 DEF Outcomes
  <2>8. \E t : TickOK(t) /\ t.at # "speak" /\ tick' = [tick EXCEPT ![m] = t]
    <3>1. \A x \in k.todo : Slotted(x)
      BY <1>1 DEF TickOK
    <3>2. /\ TickOK(ToSettle(k, r, s, k.door, "fired"))
          /\ ToSettle(k, r, s, k.door, "fired").at # "speak"
      BY <2>2, <3>1 DEF ToSettle, TickOK, Slotted
    <3>3. TickOK([at |-> "due", now |-> k.now, todo |-> k.todo])
      BY <3>1 DEF TickOK
    <3> QED BY <2>1, <3>2, <3>3
  <2> QED BY <1>1, <1>3, <2>3, <2>4, <2>5, <2>7, <2>8
<1> QED BY <1>2, <1>3

LEMMA ClaimsInv == ASSUME DiaryInv, NEW m \in Rooms, Claims(m) PROVE DiaryInv'
<1> DEFINE r == tick[m].one.r
<1>1. DOMAIN edits = Editors /\ UNCHANGED <<clock, edits, spoken>>
  BY ClaimsWrite DEF DiaryInv, EditsOK
<1>2. CASE UNCHANGED <<rows, runs>> /\ tick' = [tick EXCEPT ![m] = Idle]
  BY <1>1, <1>2, TickLooks DEF TickOK, Idle
<1>3. CASE ~(UNCHANGED <<rows, runs>> /\ tick' = [tick EXCEPT ![m] = Idle])
  <2>1. /\ r \in Kept /\ Named(rows'[r]) /\ DOMAIN rows' = Ids
        /\ \A x \in Ids \ {r} : rows'[x] = rows[x] /\ runs'[x] = runs[x]
        /\ runs' \in [Ids -> [DueMoments -> Outcomes]]
        /\ \A u \in DueMoments : runs[r][u] # "none" => runs'[r][u] = runs[r][u]
    BY <1>3, ClaimsWrite
  <2>2. PICK t : TickOK(t) /\ t.at # "speak" /\ tick' = [tick EXCEPT ![m] = t]
    BY <1>3, ClaimsWrite
  <2>3. \A u \in DueMoments : runs[r][u] \in {"fired", "made_up"} => runs'[r][u] = runs[r][u]
    BY <2>1
  <2>4. Hushed
    BY <2>2, OneTick
  <2> HIDE DEF r
  <2> QED BY <1>1, <2>1, <2>3, <2>4, RowWritten
<1> QED BY <1>2, <1>3

-----------------------------------------------------------------------------
\* Whoever wins the run is the first: it was missed until now.
LEMMA SettlesRunInv == ASSUME DiaryInv, NEW m \in Rooms, SettlesRun(m) PROVE DiaryInv'
<1> DEFINE k == tick[m]
<1> PICK r \in Ids, s \in DueMoments : r = k.r /\ s = k.slot
  BY DEF SettlesRun, Doing, DiaryInv, TicksOK, TickOK, Slotted
<1>1. /\ k.at = "settle" /\ TickOK(k) /\ r \in Ids /\ s \in DueMoments
      /\ k.decided \in {"fired", "made_up"} /\ {"at", "r", "slot", "todo"} \subseteq DOMAIN k
      /\ UNCHANGED <<clock, rows, edits, spoken>> /\ DOMAIN tick = Rooms
      /\ runs \in [Ids -> [DueMoments -> Outcomes]]
  BY DEF SettlesRun, Doing, DiaryInv, TicksOK, TickOK, RunsOK, Slotted
<1>2. TickOK(Onward(k)) /\ Onward(k).at # "speak"
  BY <1>1 DEF Onward, TickOK
<1>3. CASE runs[r][s] # "missed"
  BY <1>1, <1>2, <1>3, TickLooks DEF SettlesRun, At, Unsettled, MaySpeak
<1>4. CASE runs[r][s] = "missed"
  <2> DEFINE o == IF k.door THEN k.decided ELSE "skipped"
             t == [k EXCEPT !.at = IF k.door THEN "speak" ELSE "pause"]
  <2>1. runs' = [runs EXCEPT ![r][s] = o] /\ tick' = [tick EXCEPT ![m] = t]
    BY <1>4 DEF SettlesRun, At, Unsettled, MaySpeak
  <2>2. o \in Outcomes /\ (k.door => o \in {"fired", "made_up"})
    BY <1>1 DEF Outcomes
  <2> HIDE DEF o
  <2>3. /\ runs' \in [Ids -> [DueMoments -> Outcomes]] /\ runs'[r][s] = o
        /\ \A x \in Ids, u \in DueMoments : x # r \/ u # s => runs'[x][u] = runs[x][u]
    BY <1>1, <2>1, <2>2
  <2>4. rows[r] # Gone
    BY <1>1, <1>4 DEF DiaryInv, GoneHasNoRuns
  <2>5. ~Recorded(r, s)
    BY <1>4, <2>4 DEF Recorded
  <2>6. s \notin SpokenSlots(r) /\ \A p \in Rooms : ~Speaking(p, r, s)
    BY <1>1, <2>5 DEF DiaryInv, SpokenOK, SpeakingOK
  <2>7. \A x \in Ids, u \in DueMoments : Recorded(x, u) => Recorded(x, u)'
    BY <1>1, <2>3, <2>5 DEF Recorded
  <2>8. t.at = (IF k.door THEN "speak" ELSE "pause") /\ TickOK(t) /\ t.r = r /\ t.slot = s
    <3>1. /\ t.at = (IF k.door THEN "speak" ELSE "pause") /\ DOMAIN t = DOMAIN k
          /\ t.r = r /\ t.slot = s /\ t.decided = k.decided /\ t.todo = k.todo
      BY <1>1
    <3>2. \A x \in k.todo : Slotted(x)
      BY <1>1 DEF TickOK
    <3> HIDE DEF t
    <3> QED BY <1>1, <3>1, <3>2 DEF TickOK, Slotted
  <2> HIDE DEF t
  <2>9. TicksOK' /\ tick'[m] = t /\ \A p \in Rooms \ {m} : tick'[p] = tick[p]
    BY <1>1, <2>1, <2>8 DEF DiaryInv, TicksOK
  <2>10. RowsOK' /\ RunsOK' /\ EditsOK'
    BY <1>1, <2>3 DEF DiaryInv, RowsOK, RunsOK, EditsOK, Creates
  <2>11. GoneHasNoRuns'
    BY <1>1, <2>3, <2>4 DEF DiaryInv, GoneHasNoRuns
  <2>12. \A x \in Ids : SpokenSlots(x)' = SpokenSlots(x)
    BY <1>1 DEF SpokenSlots
  <2>13. SpokenOK'
    <3>1. \A x \in Ids : SpokenSlots(x) \subseteq DueMoments
      BY DEF DiaryInv, SpokenOK, SpokenSlots, Range
    <3> QED BY <1>1, <2>7, <2>12, <3>1 DEF DiaryInv, SpokenOK
  <2>14. SpeakingOK'
    <3> SUFFICES ASSUME NEW p \in Rooms, NEW x \in Ids, NEW u \in DueMoments,
                        Speaking(p, x, u)'
                 PROVE  /\ Recorded(x, u)' /\ u \notin SpokenSlots(x)'
                        /\ \A q \in Rooms \ {p} : ~Speaking(q, x, u)'
      BY DEF SpeakingOK
    <3>1. CASE x = r /\ u = s
      <4>1. p = m
        BY <2>6, <2>9, <3>1 DEF Speaking
      <4>2. k.door /\ Recorded(r, s)'
        BY <2>2, <2>3, <2>8, <2>9, <4>1 DEF Speaking, Recorded
      <4>3. \A q \in Rooms \ {m} : ~Speaking(q, r, s)'
        BY <2>6, <2>9 DEF Speaking
      <4> QED BY <2>6, <2>12, <3>1, <4>1, <4>2, <4>3
    <3>2. CASE ~(x = r /\ u = s)
      <4>1. p # m
        BY <2>8, <2>9, <3>2 DEF Speaking
      <4>2. Speaking(p, x, u)
        BY <2>9, <4>1 DEF Speaking
      <4>3. Recorded(x, u)' /\ u \notin SpokenSlots(x)'
        BY <2>7, <2>12, <4>2 DEF DiaryInv, SpeakingOK
      <4>4. \A q \in Rooms \ {p} : ~Speaking(q, x, u)'
        BY <2>8, <2>9, <3>2, <4>2 DEF DiaryInv, SpeakingOK, Speaking
      <4> QED BY <4>3, <4>4
    <3> QED BY <3>1, <3>2
  <2> QED BY <2>9, <2>10, <2>11, <2>13, <2>14 DEF DiaryInv
<1> QED BY <1>3, <1>4

\* A list without repeats keeps none when something new is added.
LEMMA AppendKeepsInjective ==
  ASSUME NEW S, NEW q \in Seq(S), IsInjective(q), NEW x \in S, x \notin Range(q)
  PROVE  /\ Append(q, x) \in Seq(S) /\ IsInjective(Append(q, x))
         /\ Range(Append(q, x)) = Range(q) \cup {x}
<1> DEFINE a == Append(q, x)
           n == Len(q)
<1>1. /\ n \in Nat /\ DOMAIN q = 1..n /\ DOMAIN a = 1..n+1 /\ a \in Seq(S)
      /\ \A i \in 1..n : a[i] = q[i]
      /\ a[n + 1] = x
  OBVIOUS
<1> HIDE DEF a, n
<1>2. \A i \in DOMAIN a : i \in DOMAIN q \/ i = n + 1
  BY <1>1
<1>3. IsInjective(a)
  BY <1>1, <1>2 DEF IsInjective, Range
<1>4. Range(a) = Range(q) \cup {x}
  BY <1>1, <1>2 DEF Range
<1> QED BY <1>1, <1>3, <1>4 DEF a

LEMMA SpeaksInv == ASSUME DiaryInv, NEW m \in Rooms, Speaks(m) PROVE DiaryInv'
<1> DEFINE k == tick[m]
<1> PICK r \in Ids, s \in DueMoments : r = k.r /\ s = k.slot
  BY DEF Speaks, Doing, DiaryInv, TicksOK, TickOK, Slotted
<1>1. /\ k.at = "speak" /\ TickOK(k) /\ r \in Ids /\ s \in DueMoments
      /\ spoken' = [spoken EXCEPT ![r] = Append(@, s)]
      /\ tick' = [tick EXCEPT ![m] = Onward(k)]
      /\ UNCHANGED <<clock, rows, runs, edits>>
  BY DEF Speaks, At, Doing, DiaryInv, TicksOK, TickOK, Slotted
<1>2. TickOK(Onward(k)) /\ Onward(k).at # "speak"
  BY <1>1 DEF Onward, TickOK
<1>3. Hushed /\ tick'[m].at # "speak" /\ \A p \in Rooms \ {m} : tick'[p] = tick[p]
  BY <1>1, <1>2, OneTick DEF DiaryInv, TicksOK
<1>4. Recorded(r, s) /\ s \notin SpokenSlots(r) /\ \A p \in Rooms \ {m} : ~Speaking(p, r, s)
  BY <1>1 DEF DiaryInv, SpeakingOK, Speaking
<1>5. spoken \in [Ids -> Seq(DueMoments)] /\ \A x \in Ids : IsInjective(spoken[x])
  BY DEF DiaryInv, SpokenOK
<1>6. /\ spoken' \in [Ids -> Seq(DueMoments)] /\ IsInjective(spoken'[r])
      /\ SpokenSlots(r)' = SpokenSlots(r) \cup {s}
      /\ \A x \in Ids \ {r} : spoken'[x] = spoken[x] /\ SpokenSlots(x)' = SpokenSlots(x)
  <2>1. spoken'[r] = Append(spoken[r], s) /\ \A x \in Ids \ {r} : spoken'[x] = spoken[x]
    BY <1>1, <1>5
  <2>2. /\ Append(spoken[r], s) \in Seq(DueMoments) /\ IsInjective(Append(spoken[r], s))
        /\ Range(Append(spoken[r], s)) = Range(spoken[r]) \cup {s}
    BY <1>1, <1>4, <1>5, AppendKeepsInjective DEF SpokenSlots
  <2>3. spoken' \in [Ids -> Seq(DueMoments)]
    BY <1>1, <1>5, <2>2
  <2> QED BY <2>1, <2>2, <2>3 DEF SpokenSlots
<1>7. \A x \in Ids, u \in DueMoments : Recorded(x, u)' = Recorded(x, u)
  BY <1>1 DEF Recorded
<1>8. \A x \in Ids : SpokenSlots(x) \subseteq DueMoments
  BY <1>5 DEF SpokenSlots, Range
<1>9. SpokenOK'
  <2> SUFFICES ASSUME NEW x \in Ids
               PROVE  IsInjective(spoken'[x]) /\ \A u \in SpokenSlots(x)' : Recorded(x, u)'
    BY <1>6 DEF SpokenOK
  <2>1. CASE x = r
    BY <1>1, <1>4, <1>6, <1>7, <1>8, <2>1 DEF DiaryInv, SpokenOK
  <2>2. CASE x # r
    BY <1>5, <1>6, <1>7, <1>8, <2>2 DEF DiaryInv, SpokenOK
  <2> QED BY <2>1, <2>2
<1>10. SpeakingOK'
  <2> SUFFICES ASSUME NEW p \in Rooms, NEW x \in Ids, NEW u \in DueMoments, Speaking(p, x, u)'
               PROVE  /\ Recorded(x, u)' /\ u \notin SpokenSlots(x)'
                      /\ \A q \in Rooms \ {p} : ~Speaking(q, x, u)'
    BY DEF SpeakingOK
  <2>1. p # m /\ Speaking(p, x, u)
    BY <1>3 DEF Speaking
  <2>2. x # r \/ u # s
    BY <1>4, <2>1
  <2>3. Recorded(x, u)' /\ u \notin SpokenSlots(x)'
    BY <1>6, <1>7, <2>1, <2>2 DEF DiaryInv, SpeakingOK
  <2>4. \A q \in Rooms \ {p} : ~Speaking(q, x, u)'
    BY <1>3, <2>1 DEF DiaryInv, SpeakingOK, Speaking
  <2> QED BY <2>3, <2>4
<1>11. RowsOK' /\ RunsOK' /\ GoneHasNoRuns' /\ EditsOK' /\ TicksOK'
  BY <1>1, <1>3 DEF DiaryInv, RowsOK, RunsOK, GoneHasNoRuns, EditsOK, Creates, Hushed
<1> QED BY <1>9, <1>10, <1>11 DEF DiaryInv

\* Nothing is said, and no tick moves.
LEMMA NoRoomSpeaks ==
  ASSUME DiaryInv, UNCHANGED <<tick, spoken>>, RowsOK', RunsOK', GoneHasNoRuns', EditsOK',
         \A r \in Ids, s \in DueMoments : Recorded(r, s) => Recorded(r, s)'
  PROVE  DiaryInv'
<1>1. Hushed /\ TicksOK'
  BY NoTick DEF Hushed
<1>2. SpokenOK' /\ SpeakingOK'
  BY <1>1, NobodyNewSpeaks
<1> QED BY <1>1, <1>2 DEF DiaryInv

LEMMA ChecksNewInv ==
  ASSUME DiaryInv, NEW e \in Editors, NEW r \in Ids, NEW n \in Names, NEW c \in Schedules,
         NEW w, ChecksNew(e, r, n, c, w)
  PROVE  DiaryInv'
<1>1. /\ UNCHANGED <<clock, rows, runs, tick, spoken>> /\ rows[r] = NoRow
      /\ \A f \in Editors : edits[f] # Idle => edits[f].r # r
  BY DEF ChecksNew, Quiet
<1>2. PICK row : Named(row) /\ edits' = [edits EXCEPT ![e] = [at |-> "create", r |-> r, row |-> row]]
  BY DEF ChecksNew, Named
<1>3. \A f \in Editors : Creates(f) => edits[f] # Idle
  BY DEF Creates, Idle
<1>4. /\ DOMAIN edits' = Editors /\ edits'[e].r = r /\ edits'[e].row = row
      /\ \A f \in Editors \ {e} : edits'[f] = edits[f]
  BY <1>2 DEF DiaryInv, EditsOK
<1>5. EditsOK'
  BY <1>1, <1>2, <1>3, <1>4 DEF DiaryInv, EditsOK, Creates
<1>6. RowsOK' /\ RunsOK' /\ GoneHasNoRuns'
  BY <1>1 DEF DiaryInv, RowsOK, RunsOK, GoneHasNoRuns
<1> QED BY <1>1, <1>5, <1>6, NoRoomSpeaks DEF Recorded

LEMMA ChecksChangeInv ==
  ASSUME DiaryInv, NEW e \in Editors, NEW r \in Ids, NEW how, NEW c, ChecksChange(e, r, how, c)
  PROVE  DiaryInv'
<1>1. UNCHANGED <<clock, rows, runs, tick, spoken>>
  BY DEF ChecksChange, Quiet
<1>2. /\ DOMAIN edits' = Editors /\ edits'[e].at = "change"
      /\ \A f \in Editors \ {e} : edits'[f] = edits[f]
  BY DEF ChecksChange, DiaryInv, EditsOK
<1>3. EditsOK'
  BY <1>1, <1>2, EditsStay
<1>4. RowsOK' /\ RunsOK' /\ GoneHasNoRuns'
  BY <1>1 DEF DiaryInv, RowsOK, RunsOK, GoneHasNoRuns
<1> QED BY <1>1, <1>3, <1>4, NoRoomSpeaks DEF Recorded

LEMMA InsertsInv == ASSUME DiaryInv, NEW e \in Editors, Inserts(e) PROVE DiaryInv'
<1> PICK row : row = edits[e].row
  OBVIOUS
<1>1. PICK r \in Ids : edits[e].r = r /\ rows[r] = NoRow /\ Named(row)
  BY DEF Inserts, DiaryInv, EditsOK, Creates
<1>2. /\ UNCHANGED <<clock, runs, tick, spoken>> /\ rows' = [rows EXCEPT ![r] = row]
      /\ edits' = [edits EXCEPT ![e] = Idle] /\ Creates(e)
  BY <1>1 DEF Inserts, Quiet, Creates
<1>3. row # Gone /\ row # NoRow /\ NoRow # Gone
  <2>1. NoRow.name = "unmade" /\ Gone.name = "gone"
    BY DEF NoRow, Gone
  <2> QED BY <1>1, <2>1, NamedIsNotGone
<1>4. DOMAIN rows' = Ids /\ rows'[r] = row /\ \A x \in Ids \ {r} : rows'[x] = rows[x]
  BY <1>2 DEF DiaryInv, RowsOK
<1>5. RowsOK' /\ RunsOK' /\ GoneHasNoRuns'
  BY <1>1, <1>2, <1>3, <1>4 DEF DiaryInv, RowsOK, RunsOK, GoneHasNoRuns
<1>6. /\ DOMAIN edits' = Editors /\ edits'[e].at = "idle"
      /\ \A f \in Editors \ {e} : edits'[f] = edits[f]
  BY <1>2 DEF DiaryInv, EditsOK, Idle
<1>7. \A f \in Editors \ {e} : Creates(f) => edits[f].r # r
  BY <1>1, <1>2 DEF DiaryInv, EditsOK
<1>8. EditsOK'
  BY <1>4, <1>6, <1>7 DEF DiaryInv, EditsOK, Creates
<1>9. \A x \in Ids, s \in DueMoments : Recorded(x, s) => Recorded(x, s)'
  BY <1>1, <1>2, <1>3, <1>4 DEF Recorded
<1> QED BY <1>2, <1>5, <1>8, <1>9, NoRoomSpeaks

LEMMA DeletesInv == ASSUME DiaryInv, NEW r \in Ids, Deletes(r) PROVE DiaryInv'
<1>1. /\ UNCHANGED <<clock, edits, tick, spoken>> /\ r \in Kept
      /\ rows' = [rows EXCEPT ![r] = Gone]
      /\ runs' = [runs EXCEPT ![r] = [s \in DueMoments |-> "none"]]
  BY DEF Deletes
<1>2. /\ runs \in [Ids -> [DueMoments -> Outcomes]] /\ clock \in 0..Horizon
      /\ DOMAIN rows = Ids /\ DOMAIN edits = Editors /\ rows[r] # NoRow
  BY <1>1, KeptIsNamed DEF DiaryInv, RunsOK, EditsOK
<1>3. /\ DOMAIN rows' = Ids /\ rows'[r] = Gone /\ \A x \in Ids \ {r} : rows'[x] = rows[x]
      /\ runs'[r] = [s \in DueMoments |-> "none"] /\ \A x \in Ids \ {r} : runs'[x] = runs[x]
      /\ runs' \in [Ids -> [DueMoments -> Outcomes]]
  BY <1>1, <1>2 DEF Outcomes
<1>4. RowsOK' /\ RunsOK' /\ GoneHasNoRuns'
  BY <1>1, <1>2, <1>3 DEF DiaryInv, RowsOK, RunsOK, GoneHasNoRuns
<1>5. EditsOK'
  BY <1>1, <1>2, <1>3, EditsStay
<1>6. \A x \in Ids, s \in DueMoments : Recorded(x, s) => Recorded(x, s)'
  BY <1>3 DEF Recorded
<1> QED BY <1>1, <1>4, <1>5, <1>6, NoRoomSpeaks

LEMMA WorldInv ==
  ASSUME DiaryInv, Passes \/ \E a : Moves(a)
  PROVE  DiaryInv'
<1>1. UNCHANGED <<rows, runs, tick, edits, spoken>> /\ clock' \in 0..Horizon
  BY HorizonAssumption DEF Passes, Moves, DiaryInv, RunsOK
<1>2. RowsOK' /\ RunsOK' /\ GoneHasNoRuns' /\ EditsOK'
  BY <1>1 DEF DiaryInv, RowsOK, RunsOK, GoneHasNoRuns, EditsOK, Creates
<1> QED BY <1>1, <1>2, NoRoomSpeaks DEF Recorded

LEMMA RoutinesNextInv == ASSUME DiaryInv, [RoutinesNext]_routinesVars PROVE DiaryInv'
<1>1. ASSUME NEW m \in Rooms, Tick(m) \/ Breaks(m) PROVE DiaryInv'
  BY <1>1, LooksInv, ClaimsInv, SettlesRunInv, SpeaksInv, PausesInv DEF Tick
<1>2. ASSUME NEW e \in Editors, Edit(e) PROVE DiaryInv'
  BY <1>2, ChecksNewInv, ChecksChangeInv, InsertsInv, WritesInv DEF Edit
<1>3. ASSUME NEW r \in Ids, Deletes(r) \/ LosesCommand(r) PROVE DiaryInv'
  BY <1>3, DeletesInv, LosesCommandInv
<1>4. CASE Passes \/ \E a : Moves(a)
  BY <1>4, WorldInv
<1>5. CASE UNCHANGED routinesVars
  BY <1>5 DEF routinesVars, DiaryInv, TicksOK, RowsOK, RunsOK, GoneHasNoRuns, EditsOK,
              Creates, SpokenOK, SpokenSlots, SpeakingOK, Speaking, Recorded
<1> QED BY <1>1, <1>2, <1>3, <1>4, <1>5 DEF RoutinesNext

LEMMA DiaryIsKept == RoutinesSpec => []DiaryInv
<1> QED BY DiaryInitInv, RoutinesNextInv, PTL DEF RoutinesSpec

\* However many rooms tick over the table, and wherever one is cut short, each
\* slot of a routine is spoken at most once, and its run says it was.
THEOREM SlotsAreSpokenOnce == RoutinesSpec => []SpokenOnce
<1>1. DiaryInv => SpokenOnce
  <2> SUFFICES ASSUME DiaryInv, NEW r \in Ids
               PROVE  /\ IsInjective(spoken[r])
                      /\ r \in Kept => \A s \in SpokenSlots(r) : runs[r][s] \in {"fired", "made_up"}
    BY DEF SpokenOnce
  <2> QED BY DEF DiaryInv, SpokenOK, Recorded, Kept
<1> QED BY <1>1, DiaryIsKept, PTL

\* Of all steps that edit nothing, only a claim moves a routine that is left
\* standing, and the slot it leaves has its run.
LEMMA OnlyClaimsMove ==
  ASSUME DiaryInv, [RoutinesNext]_routinesVars, NEW r \in Kept,
         rows'[r] # Gone, ~rows'[r].paused, edits' = edits, rows'[r].next # rows[r].next
  PROVE  rows[r].next \in {s \in DueMoments : runs'[r][s] # "none"}
<1>1. rows' # rows /\ r \in Ids /\ Named(rows[r]) /\ DOMAIN rows = Ids
  BY KeptIsNamed
<1>2. ASSUME NEW m \in Rooms, Claims(m) PROVE rows[r].next \in {s \in DueMoments : runs'[r][s] # "none"}
  <2> DEFINE q == tick[m].one.r
             u == tick[m].one.slot
  <2>1. /\ Slotted(tick[m].one) /\ \A x \in Ids \ {q} : rows'[x] = rows[x]
        /\ runs'[q][u] # "none" /\ (rows[q].next # u => rows' = rows)
    BY <1>1, <1>2, ClaimsWrite
  <2> QED BY <1>1, <2>1 DEF Slotted
<1>3. ASSUME NEW m \in Rooms, Pauses(m) PROVE FALSE
  <2> DEFINE q == tick[m].r
  <2>1. rows' = [rows EXCEPT ![q].paused = TRUE, ![q].next = Never] /\ q \in Ids
    BY <1>1, <1>3 DEF Pauses, Doing, DiaryInv, TicksOK, TickOK, Slotted
  <2>2. rows[q].words # "none"
    BY <1>1, <1>3 DEF Pauses
  <2>3. q = r
    BY <1>1, <2>1
  <2> QED BY <1>1, <2>1, <2>3
<1>4. ASSUME NEW m \in Rooms, Tick(m) \/ Breaks(m), ~Claims(m), ~Pauses(m) PROVE FALSE
  BY <1>1, <1>4 DEF Tick, TickBegins, Looks, SettlesRun, Speaks, ReadsMissed, LooksAgain, Breaks
<1>5. ASSUME NEW e \in Editors, Edit(e) PROVE FALSE
  <2>1. DOMAIN edits = Editors
    BY DEF DiaryInv, EditsOK
  <2>2. CASE Inserts(e) \/ Writes(e)
    <3>1. edits'[e] = Idle /\ edits[e].at # "idle"
      BY <2>1, <2>2 DEF Inserts, Writes
    <3> QED BY <3>1 DEF Idle
  <2>3. CASE rows' = rows
    BY <1>1, <2>3
  <2> QED BY <1>5, <2>2, <2>3 DEF Edit, ChecksNew, ChecksChange
<1>6. ASSUME NEW x \in Ids, Deletes(x) PROVE FALSE
  BY <1>1, <1>6 DEF Deletes
<1>7. ASSUME NEW x \in Ids, LosesCommand(x) PROVE FALSE
  BY <1>1, <1>7 DEF LosesCommand
<1> QED BY <1>1, <1>2, <1>3, <1>4, <1>5, <1>6, <1>7
        DEF RoutinesNext, Passes, Moves, routinesVars

\* No slot is lost between two rooms: where a tick, and no edit, takes a
\* routine past a slot, there is a run of that slot.
THEOREM SlotsAreAccountedFor == RoutinesSpec => NoSlotSkipped
<1>1. DiaryInv /\ [RoutinesNext]_routinesVars =>
        [\A r \in Kept : (/\ rows'[r] # Gone /\ ~rows'[r].paused /\ edits' = edits
                          /\ rows'[r].next # rows[r].next)
                         => rows[r].next \in {s \in DueMoments : runs'[r][s] # "none"}]_routinesVars
  BY OnlyClaimsMove
<1> QED BY <1>1, DiaryIsKept, PTL DEF RoutinesSpec, NoSlotSkipped
=============================================================================
