------------------------------- MODULE Board --------------------------------
(***************************************************************************)
(* How the office's board reaches the people in a room: reads of the       *)
(* database that overlap, of which only the newest may land, and a send to *)
(* everybody when what landed differs from what was last sent              *)
(* (OfficeRoom.ts #refreshBoard to #sendBoard; rooms/latest-read.ts).      *)
(*                                                                         *)
(* A read asks several tables, each in its own time.  A send awaits the    *)
(* person's role and then sends what the room holds by then.               *)
(*                                                                         *)
(* Abstracted: what a table says is a version number; what a role may see, *)
(* the listing of pull requests, who writes and why.                       *)
(***************************************************************************)
EXTENDS Integers, FiniteSets

CONSTANTS
  Tables, People,
  BoardReads,  \* bound: reads under way at once
  MaxWrites,   \* bound: writes to each table
  MaxTroubles  \* bound: reads that fail, of the board or a role, or that are slow

VARIABLES
  db,      \* the version of each table
  follow,  \* writes made in this room whose read has yet to start
  reads,   \* the reads under way: what each has of each table so far
  latest,  \* the newest read started, while it is under way (#boardReads)
  loaded,  \* the first read is over (#boardLoaded)
  room,    \* what the room holds (#boardItems, #boardTasks, ...)
  signed,  \* what was last sent to everybody (#boardSignature)
  here,    \* the people in the room
  due,     \* who is being sent the board, their role awaited
  shown,   \* what each person was last sent
  lost,    \* ghost: who was not sent a board because their role was not read
  left     \* bound

rows == <<db, follow, reads, latest, loaded, room, signed>>
people == <<here, due, shown, lost>>
vars == <<rows, people, left>>

Unread == -1
Idle   == [t \in Tables |-> -2]
Empty  == [t \in Tables |-> 0]
Started == [t \in Tables |-> Unread]
Blank  == [t \in Tables |-> -1]   \* no board yet
NoRead == "none"
ASSUME ReadsAssumption == NoRead \notin BoardReads

Init ==
  /\ db = Empty /\ follow = 0 /\ room = Blank /\ signed = Blank /\ loaded = FALSE
  /\ reads = [r \in BoardReads |-> Idle] /\ latest = NoRead
  /\ here = {} /\ due = {} /\ shown = [p \in People |-> Blank] /\ lost = {}
  /\ left = MaxTroubles

Under(r)   == reads[r] # Idle
Trouble    == left > 0 /\ left' = left - 1

-----------------------------------------------------------------------------
(* Writes and reads.                                                       *)

\* In this room, which then reads, or elsewhere: a settings page, another process.
Writes(t) ==
  /\ db[t] < MaxWrites /\ db' = [db EXCEPT ![t] = @ + 1]
  /\ follow' \in {follow, follow + 1}
  /\ UNCHANGED <<reads, latest, loaded, room, signed, people, left>>

Start(r) ==
  /\ ~Under(r) /\ reads' = [reads EXCEPT ![r] = Started] /\ latest' = r
  /\ UNCHANGED <<db, loaded, room, signed, people>>

\* #refreshBoard, after a write made here
Follows(r) == follow > 0 /\ follow' = follow - 1 /\ Start(r) /\ UNCHANGED left

\* ... and every ten seconds, whether or not the last read is over: one that
\* takes as long is a trouble.
Ticks(r) ==
  /\ Start(r) /\ UNCHANGED follow
  /\ \/ (\A q \in BoardReads : ~Under(q)) /\ UNCHANGED left
     \/ (\E q \in BoardReads : Under(q)) /\ Trouble

Queries(r, t) ==
  /\ Under(r) /\ reads[r][t] = Unread
  /\ reads' = [reads EXCEPT ![r][t] = db[t]]
  /\ UNCHANGED <<db, follow, latest, loaded, room, signed, people, left>>

\* Mutant: whichever read finishes lands.
AnyRead(r) == TRUE
IsLatest(r) == latest = r

\* Mutant: only what the room has not seen before is worth sending.
NewRows(seen) == \A t \in Tables : seen[t] > signed[t]
Changed(seen) == seen # signed

\* A read is over, one way or the other.
Over(r) ==
  /\ reads' = [reads EXCEPT ![r] = Idle]
  /\ latest' = IF latest = r THEN NoRead ELSE latest
  /\ loaded' = TRUE

\* What landed is kept, and sent to everybody here if it is not what they
\* were sent.
Lands(r) ==
  /\ Under(r) /\ \A t \in Tables : reads[r][t] # Unread
  /\ IsLatest(r) /\ room' = reads[r]
  /\ IF Changed(reads[r])
     THEN signed' = reads[r] /\ due' = due \cup here
     ELSE UNCHANGED <<signed, due>>
  /\ Over(r) /\ UNCHANGED <<db, follow, here, shown, lost, left>>

Discards(r) ==
  /\ Under(r) /\ \A t \in Tables : reads[r][t] # Unread
  /\ ~IsLatest(r) /\ Over(r) /\ UNCHANGED <<db, follow, room, signed, people, left>>

ReadFails(r) ==
  /\ Under(r) /\ Trouble /\ Over(r) /\ UNCHANGED <<db, follow, room, signed, people>>

-----------------------------------------------------------------------------
(* People.                                                                 *)

Joins(p) ==
  /\ p \notin here /\ here' = here \cup {p}
  /\ shown' = [shown EXCEPT ![p] = Blank] /\ lost' = lost \ {p}
  /\ UNCHANGED <<rows, due, left>>

\* A send whose role is awaited reaches nobody any more.
Leaves(p) ==
  /\ p \in here /\ here' = here \ {p} /\ due' = due \ {p}
  /\ UNCHANGED <<rows, shown, lost, left>>

\* #onBoardGet: a browser asks when it listens, and is answered once the
\* first read is over.
Asks(p) ==
  /\ p \in here /\ loaded /\ due' = due \cup {p}
  /\ UNCHANGED <<rows, here, shown, lost, left>>

\* #sendBoard, its role known: what the room holds by now
Sends(p) ==
  /\ p \in due /\ due' = due \ {p} /\ shown' = [shown EXCEPT ![p] = room]
  /\ UNCHANGED <<rows, here, lost, left>>

\* #roleFor throws: nothing is sent, and nobody hears of it.
RoleFails(p) ==
  /\ p \in due /\ Trouble /\ due' = due \ {p} /\ lost' = lost \cup {p}
  /\ UNCHANGED <<rows, here, shown>>

-----------------------------------------------------------------------------
Next ==
  \/ \E t \in Tables : Writes(t)
  \/ \E r \in BoardReads : \/ Follows(r) \/ Ticks(r) \/ Lands(r) \/ Discards(r) \/ ReadFails(r)
                      \/ \E t \in Tables : Queries(r, t)
  \/ \E p \in People : Joins(p) \/ Leaves(p) \/ Asks(p) \/ Sends(p) \/ RoleFails(p)

Spec == Init /\ [][Next]_vars

AsksFirst(p) == shown[p] = Blank /\ Asks(p)
\* The timer ticks for ever, and every query and send is answered.
FairSpec ==
  /\ Spec
  /\ WF_vars(\E r \in BoardReads : Ticks(r))
  /\ \A r \in BoardReads : WF_vars(Lands(r)) /\ WF_vars(Discards(r))
  /\ \A r \in BoardReads, t \in Tables : WF_vars(Queries(r, t))
  /\ \A p \in People : WF_vars(Sends(p)) /\ WF_vars(AsksFirst(p))

-----------------------------------------------------------------------------
(* Properties.                                                             *)

Version == [Tables -> 0 .. MaxWrites]

\* The shape of the state (OfficeRoom.ts, the fields of the board).
TypeOK ==
  /\ db \in Version /\ {room, signed} \subseteq Version \cup {Blank}
  /\ reads \in [BoardReads -> [Tables -> -1 .. MaxWrites] \cup {Idle}]
  /\ follow \in 0 .. MaxWrites * Cardinality(Tables)
  /\ latest \in BoardReads \cup {NoRead} /\ loaded \in BOOLEAN
  /\ here \subseteq People /\ due \subseteq People /\ lost \subseteq People
  /\ shown \in [People -> Version \cup {Blank}] /\ left \in 0 .. MaxTroubles

\* What the room holds is of no time that is yet to come, and the newest read
\* under way has nothing older than it (latest-read.ts).
NewestIsNewest ==
  /\ \A t \in Tables : room[t] <= db[t]
  /\ latest # NoRead =>
       \A t \in Tables : reads[latest][t] # Unread
                         => room[t] <= reads[latest][t] /\ reads[latest][t] <= db[t]

\* A note just written never vanishes: neither what the room holds nor what a
\* person who stays is shown goes back to an older version of any table.
NeverBack ==
  [][\A t \in Tables :
       /\ room'[t] >= room[t]
       /\ \A p \in here \cap here' : shown'[p][t] >= shown[p][t]]_vars

\* Whatever is written reaches everybody who stays, if their role was read
\* (#sendBoardIfChanged).
ReachesEverybody ==
  \A p \in People, t \in Tables, v \in 1 .. MaxWrites :
    (p \in here /\ db[t] >= v) ~> (shown[p][t] >= v \/ p \notin here \/ p \in lost)

\* What the code's own words promise and it does not keep: everybody here is
\* sent the board, if it is not the board they were last sent (OfficeRoom.ts:2101).
EverybodyIsSent ==
  \A p \in People, t \in Tables, v \in 1 .. MaxWrites :
    (p \in here /\ db[t] >= v) ~> (shown[p][t] >= v \/ p \notin here)
=============================================================================
