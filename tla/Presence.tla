------------------------------ MODULE Presence ------------------------------
(***************************************************************************)
(* A person's pages and the seats the office has for them.  A page that    *)
(* loses its socket asks for its seat back while the office keeps it, and  *)
(* joins afresh after that, for as long as it is open (net/recovery.ts,    *)
(* createGame.ts).  The office keeps a dropped seat for a grace            *)
(* (OfficeRoom.ts onLeave), and of a seat that is gone the place where the *)
(* person stood, for their next arrival (rooms/last-places.ts,             *)
(* #arrivalFor, #removePlayer).                                            *)
(*                                                                         *)
(* Page and office do not see the same things at the same time: either may *)
(* notice a lost socket first, an answer may be lost after the seat was    *)
(* given, and a page may be gone by the time it comes.                     *)
(*                                                                         *)
(* Abstracted: the clocks of the two windows are not compared; a place is  *)
(* a number, the door is 0, and all can be walked on; a socket never ends  *)
(* with code 1000 unless the page itself closed it.                        *)
(***************************************************************************)
EXTENDS Integers, FiniteSets, FiniteSetsExt

CONSTANTS
  Tabs,         \* pages of the one person
  MaxOpens,     \* bound: pages opened
  MaxCuts,      \* bound: sockets lost
  MaxFails,     \* bound: questions or answers lost, the office not reachable
  MaxWalks,     \* bound: places walked to
  MaxRestarts,  \* bound: restarts of the office
  MaxExpired    \* bound: answers that the person is not signed in

VARIABLES
  page,   \* the pages: what they are at, their seat, their question, the answer
  seat,   \* the players of the room, by session, in the order they came
  kept,   \* lastPlaces, of this person
  was,    \* ghost: where they stood when a seat of theirs last lost its page
  left    \* bound

vars == <<page, seat, kept, was, left>>

Door == 0
Nowhere == -1
Spend(what) == left[what] > 0 /\ left' = [left EXCEPT ![what] = @ - 1]

\* Every seat beyond the first of a page is for a socket that was lost.
Sessions == 1..(MaxOpens + MaxCuts + MaxFails + MaxRestarts * Cardinality(Tabs))
NoSeat == 0
Away == [is |-> "closed", seat |-> NoSeat, ask |-> "none", got |-> NoSeat]
Unused == [is |-> "none", wire |-> FALSE, at |-> Door]

Init ==
  /\ page = [d \in Tabs |-> Away]
  /\ seat = [s \in Sessions |-> Unused]
  /\ kept = Nowhere /\ was = Nowhere
  /\ left = [opens |-> MaxOpens, cuts |-> MaxCuts, fails |-> MaxFails,
             walks |-> MaxWalks, restarts |-> MaxRestarts, expired |-> MaxExpired]

There == {s \in Sessions : seat[s].is \in {"live", "held"}}
Held == {s \in Sessions : seat[s].is = "held"}
Fresh == Min({s \in Sessions : seat[s].is = "none"})
Goes(d, what) == page' = [page EXCEPT ![d].is = what]

-----------------------------------------------------------------------------
(* The office.                                                             *)

\* LastPlaces.take: a kept place first, else the seat still held for them,
\* the first that #arrivalFor meets
Arrival ==
  IF kept # Nowhere THEN kept
  ELSE IF Held # {} THEN seat[Min(Held)].at
  ELSE Door

\* onJoin
Joins(d) ==
  /\ page[d].ask = "join" /\ page[d].got = NoSeat
  /\ seat' = [seat EXCEPT ![Fresh] = [is |-> "live", wire |-> TRUE, at |-> Arrival]]
  /\ page' = [page EXCEPT ![d].got = Fresh]
  /\ kept' = Nowhere
  /\ UNCHANGED <<was, left>>

\* allowReconnection, claimed: only once the office has seen the drop
Resumes(d) ==
  /\ page[d].ask = "resume" /\ page[d].got = NoSeat /\ page[d].seat \in Held
  /\ seat' = [seat EXCEPT ![page[d].seat].is = "live", ![page[d].seat].wire = TRUE]
  /\ page' = [page EXCEPT ![d].got = page[d].seat]
  /\ UNCHANGED <<kept, was, left>>

\* LastPlaces.seatExpired
KeptAfter(s) == IF There # {s} \/ kept # Nowhere THEN kept ELSE seat[s].at

\* onLeave, not consented, when the office has noticed
Drops(s) ==
  /\ seat[s].is = "live" /\ ~seat[s].wire
  /\ seat' = [seat EXCEPT ![s].is = "held"]
  /\ UNCHANGED <<page, kept, was, left>>

\* #removePlayer, when the grace is over
Expires(s) ==
  /\ seat[s].is = "held"
  /\ seat' = [seat EXCEPT ![s].is = "gone"] /\ kept' = KeptAfter(s)
  /\ UNCHANGED <<page, was, left>>

\* onLeave, consented; #removePlayer
Left(s) ==
  /\ seat' = [seat EXCEPT ![s].is = "gone", ![s].wire = FALSE]
  /\ kept' = seat[s].at /\ was' = seat[s].at

Restarts ==
  /\ Spend("restarts")
  /\ seat' = [s \in Sessions |->
                IF s \in There THEN [seat[s] EXCEPT !.is = "gone", !.wire = FALSE] ELSE seat[s]]
  /\ kept' = Nowhere /\ was' = Nowhere
  /\ UNCHANGED page

-----------------------------------------------------------------------------
(* The socket.                                                             *)

\* It is lost: where they stood is where they were.
Lost(s) == seat' = [seat EXCEPT ![s].wire = FALSE] /\ was' = seat[s].at

Cuts(s) ==
  /\ seat[s].wire /\ Spend("cuts") /\ Lost(s)
  /\ UNCHANGED <<page, kept>>

Walks(d) ==
  /\ page[d].is = "here" /\ seat[page[d].seat].wire /\ Spend("walks")
  /\ seat' = [seat EXCEPT ![page[d].seat].at = left'.walks + 1]
  /\ UNCHANGED <<page, kept, was>>

-----------------------------------------------------------------------------
(* The page.                                                               *)

\* createGame
Opens(d) ==
  /\ page[d].is = "closed" /\ page[d].ask = "none" /\ Spend("opens")
  /\ page' = [page EXCEPT ![d] = [Away EXCEPT !.is = "opening", !.ask = "join"]]
  /\ UNCHANGED <<seat, kept, was>>

\* room.onLeave: comeBack, and recover begins
Notices(d) ==
  /\ page[d].is = "here" /\ ~seat[page[d].seat].wire /\ Goes(d, "warm")
  /\ UNCHANGED <<seat, kept, was, left>>

\* Mutant: the seat is asked for, and never a new one.
OnlyResumes(d) ==
  /\ page[d].is = "warm" /\ page[d].ask = "none" /\ page' = [page EXCEPT ![d].ask = "resume"]
  /\ UNCHANGED <<seat, kept, was, left>>
\* An attempt of either phase.
Tries(d) ==
  /\ page[d].ask = "none"
  /\ \/ page[d].is = "warm" /\ page' = [page EXCEPT ![d].ask = "resume"]
     \/ page[d].is = "cold" /\ page' = [page EXCEPT ![d].ask = "join"]
  /\ UNCHANGED <<seat, kept, was, left>>

\* The time for asking for the seat is over.
Closes(d) ==
  /\ page[d].is = "warm" /\ page[d].ask = "none" /\ Goes(d, "cold")
  /\ UNCHANGED <<seat, kept, was, left>>

\* A failed attempt: the first join fails the page, later ones are tried again.
Failed(p) == [p EXCEPT !.ask = "none", !.got = NoSeat,
                       !.is = IF p.is = "opening" THEN "closed" ELSE p.is]

\* The office has no such seat to give back.
Refused(d) ==
  /\ page[d].ask = "resume" /\ page[d].got = NoSeat /\ page[d].seat \notin Held
  /\ page' = [page EXCEPT ![d] = Failed(@)]
  /\ UNCHANGED <<seat, kept, was, left>>

\* A seat given back has a new token and comeBack asks with the old one: whose
\* answer is lost asks in vain from then on.
Known(p) == IF p.got = NoSeat THEN p.seat ELSE NoSeat

\* The question is lost, or, with the socket, the answer.
Unanswered(d) ==
  /\ page[d].ask # "none"
  /\ page' = [page EXCEPT ![d] = [Failed(@) EXCEPT !.seat = Known(page[d])]]
  /\ IF page[d].got = NoSeat
     THEN Spend("fails") /\ UNCHANGED <<seat, was>>
     ELSE IF seat[page[d].got].wire
     THEN Spend("fails") /\ Lost(page[d].got)
     ELSE UNCHANGED <<seat, was, left>>
  /\ UNCHANGED kept

\* NotSignedInError: no use asking again
NotSignedIn(d) ==
  /\ page[d].ask = "join" /\ page[d].got = NoSeat /\ Spend("expired")
  /\ page' = [page EXCEPT ![d].ask = "none", ![d].is = "closed"]
  /\ UNCHANGED <<seat, kept, was>>

\* Mutant: a seat that comes after the page is gone is left as it is.
Ignored(s) == UNCHANGED <<seat, kept, was>>
\* The stray is left.
Stray(s) == Left(s)

\* The answer: the game is built on it, or nobody wants it any more.
Answered(d) ==
  /\ page[d].got # NoSeat /\ seat[page[d].got].wire
  /\ page' = [page EXCEPT ![d] = [Away EXCEPT !.is = IF page[d].is = "closed" THEN "closed" ELSE "here",
                                              !.seat = page[d].got]]
  /\ IF page[d].is = "closed" THEN Stray(page[d].got) ELSE UNCHANGED <<seat, kept, was>>
  /\ UNCHANGED left

\* destroy: the view is left; an attempt under way goes on.
Leaves(d) ==
  /\ page[d].is # "closed" /\ Goes(d, "closed")
  /\ IF page[d].is = "here" /\ seat[page[d].seat].wire THEN Left(page[d].seat)
     ELSE UNCHANGED <<seat, kept, was>>
  /\ UNCHANGED left

\* The page is reloaded, or its window shut: sockets drop without a word.
Dies(d) ==
  /\ page[d] # Away /\ page' = [page EXCEPT ![d] = Away]
  /\ LET its == {s \in {page[d].seat, page[d].got} \ {NoSeat} : seat[s].wire} IN
     IF its = {} THEN UNCHANGED <<seat, was>> ELSE \E s \in its : Lost(s)
  /\ UNCHANGED <<kept, left>>

-----------------------------------------------------------------------------
Settles(d) == Joins(d) \/ Resumes(d) \/ Refused(d) \/ Answered(d) \/ Unanswered(d)

Next ==
  \/ Restarts
  \/ \E s \in Sessions : Drops(s) \/ Expires(s) \/ Cuts(s)
  \/ \E d \in Tabs :
       \/ Settles(d) \/ NotSignedIn(d) \/ Walks(d) \/ Opens(d) \/ Notices(d)
       \/ Tries(d) \/ Closes(d) \/ Leaves(d) \/ Dies(d)

Spec == Init /\ [][Next]_vars

\* The office's ping and grace and the page's timers fire; what is asked is
\* settled one way or the other.  That the time for asking for the seat is
\* over is a clock's doing and not a matter of being let.
Fairness ==
  /\ WF_vars(\E s \in Sessions : Drops(s)) /\ WF_vars(\E s \in Sessions : Expires(s))
  /\ \A d \in Tabs : /\ WF_vars(Settles(d)) /\ WF_vars(Notices(d))
                     /\ WF_vars(Tries(d)) /\ SF_vars(Closes(d))
FairSpec == Spec /\ Fairness

-----------------------------------------------------------------------------
(* Properties.                                                             *)

Places == Door..MaxWalks

\* The shape of the state; a page that plays has a seat.
TypeOK ==
  /\ \A d \in Tabs :
       /\ page[d].is \in {"closed", "opening", "here", "warm", "cold"}
       /\ page[d].ask \in {"none", "resume", "join"}
       /\ {page[d].seat, page[d].got} \subseteq Sessions \cup {NoSeat}
       /\ page[d].is = "here" => page[d].seat # NoSeat
  /\ seat \in [Sessions -> [is : {"none", "live", "held", "gone"}, wire : BOOLEAN, at : Places]]
  /\ {kept, was} \subseteq Places \cup {Nowhere}

\* An open page that lost its connection plays again in the end, however the
\* drop, the office's grace and its own attempts fall together: "giving up is
\* the one thing that must not happen while the page is open"
\* (recovery.ts:15-16).
Cut(d) == page[d].is \in {"warm", "cold"} \/ (page[d].is = "here" /\ ~seat[page[d].seat].wire)
EverybodyComesBack == \A d \in Tabs : Cut(d) ~> ~Cut(d)

\* Nobody stands in the office for a page that is not there: every seat that
\* no page plays is given up, or played again (recovery.ts:52-57, destroy).
Empty(s) == s \in There /\ ~\E d \in Tabs : page[d].is = "here" /\ page[d].seat = s
SeatsAreGivenUp == \A s \in Sessions : Empty(s) ~> ~Empty(s)

\* What the code's own words promise and it does not keep.

\* "A kept spot beats it: that was a real leave, and it can only have come
\* after the drop" (last-places.ts:59-60): of the seats held and the place
\* kept, what was kept is the last.
KeptIsNewest == kept # Nowhere /\ Held # {} /\ {s \in Sessions : seat[s].is = "live"} = {} => kept = was

\* Somebody comes in "where they were, or else the door" (#arrivalFor).
ComesWhereTheyWere ==
  [][\A d \in Tabs :
       page[d].ask = "join" /\ page[d].got = NoSeat /\ page'[d].got # NoSeat
       /\ was # Nowhere /\ (\A s \in Sessions : seat[s].is # "live")
       => seat'[page'[d].got].at = was]_vars
=============================================================================
