------------------------------- MODULE Voice --------------------------------
(***************************************************************************)
(* Who hears whom.  The office keeps the pairs of people in earshot        *)
(* (packages/shared/src/voice.ts, EarshotTracker; OfficeRoom.ts            *)
(* #sweepEarshot) and tells the relay what changed; the relay keeps a      *)
(* socket for each session and, for each socket, which byte stands for     *)
(* which sender (voice/relay.ts); the page opens a socket when somebody is *)
(* near, and keeps a table of its own from what the relay tells it         *)
(* (game/voice/client.ts).                                                 *)
(*                                                                         *)
(* A byte is used again for another once its sender is out of earshot, and *)
(* a session's token is checked across an await, while the person walks    *)
(* off, drops out of the office or opens another socket.                   *)
(*                                                                         *)
(* Abstracted: a distance is one of the four bands the two margins make;   *)
(* which free byte is taken; a frame is who spoke, and is forwarded to     *)
(* each hearer or, for a limit on the pace or a slow socket, not; a page   *)
(* sees where people stand without delay; the pause before a page tries    *)
(* again; the office has one room; a page whose seat is given back has its *)
(* game, and its voice, built anew at once; a welcome is a first table.    *)
(***************************************************************************)
EXTENDS Integers, Sequences, FiniteSets, Functions

CONSTANTS
  People,      \* sessions of the office
  Meet,        \* pairs of them that come near each other
  Bytes,       \* peer indices: one for each other person at least
  MaxSockets,  \* bound: sockets of one session that are not yet gone
  MaxMoves,    \* bound: steps from one band to another
  MaxFrames,   \* bound: frames
  MaxCuts,     \* bound: sockets that are lost
  MaxDrops,    \* bound: sessions that drop out of the office, or leave
  MaxRefusals  \* bound: tokens that are not verified

ASSUME MeetAssumption == Meet \subseteq {{p, q} : p, q \in People}
ASSUME NobodyAssumption == "nobody" \notin People
ASSUME SocketsAssumption == MaxSockets \in Nat

VARIABLES
  band,     \* how far apart a pair stands
  seat,     \* the sessions in the office
  pairs,    \* EarshotTracker.#pairs
  hearers,  \* RoomState.hearers
  conns,    \* VoiceRelay.#connections
  sock,     \* the sockets: the relay's end, and what is on the way to the page
  page,     \* VoiceClient: #wantOpen, #ws, #peersByIndex
  left      \* bound

voiceVars == <<band, seat, pairs, hearers, conns, sock, page, left>>

Nobody == "nobody"
None == 0
Sockets == 1..MaxSockets
Pair(p, q) == {p, q}
Spend(what) == left[what] > 0 /\ left' = [left EXCEPT ![what] = @ - 1]

NoTable == [i \in Bytes |-> Nobody]
Unused == [at |-> "none", cut |-> FALSE, knows |-> NoTable, wire |-> <<>>]
QuietPage == [want |-> FALSE, ws |-> None, peers |-> NoTable]

VoiceInit ==
  /\ band = [m \in Meet |-> "far"] /\ seat = [p \in People |-> "here"]
  /\ pairs = {} /\ hearers = [p \in People |-> {}] /\ conns = [p \in People |-> None]
  /\ sock = [p \in People |-> [k \in Sockets |-> Unused]]
  /\ page = [p \in People |-> QuietPage]
  /\ left = [moves |-> MaxMoves, frames |-> MaxFrames, cuts |-> MaxCuts,
             drops |-> MaxDrops, refusals |-> MaxRefusals]

Human(p) == seat[p] = "here"
Holds(p, k) == page[p].ws = k
Others(p) == {q \in People \ {p} : Pair(p, q) \in Meet}

-----------------------------------------------------------------------------
(* People walk.                                                            *)

\* Within the radius; within the margin the relay and a page allow; within a
\* page's second margin; beyond.  As far as they get between two looks.
Bands == {"near", "edge", "rim", "far"}
Walks(m) ==
  /\ Spend("moves")
  /\ \E b \in Bands \ {band[m]} : band' = [band EXCEPT ![m] = b]
  /\ UNCHANGED <<seat, pairs, hearers, conns, sock, page>>

-----------------------------------------------------------------------------
(* The relay's tables.                                                     *)

\* allocate, release: a table after some have gone and some have come
TableOf(t, gone, come) ==
  {u \in [Bytes -> People \cup {Nobody}] :
     /\ \A i \in Bytes : IF t[i] \in People \ gone THEN u[i] = t[i] ELSE u[i] \in come \cup {Nobody}
     /\ \A q \in come : \E i \in Bytes : u[i] = q /\ \A j \in Bytes \ {i} : u[j] # q}

Peers(t, gone, come) ==
  [is |-> "peers", joined |-> {<<i, t[i]>> : i \in {j \in Bytes : t[j] \in come}}, gone |-> gone]

\* #send
OnTheWire(x, message) == IF x.cut THEN x ELSE [x EXCEPT !.wire = Append(@, message)]

Retabled(x, t, gone, come) == OnTheWire([x EXCEPT !.knows = t], Peers(t, gone, come))

\* updatePeers: every receiver with a socket is told once.  come and gone are
\* by receiver.
UpdatePeers(socks, cs, gone, come) ==
  LET knows(p) == socks[p][cs[p]].knows
      told == {p \in People : cs[p] # None /\ come[p] \cup (gone[p] \cap Range(knows(p))) # {}}
      choices(p) == TableOf(knows(p), gone[p], come[p]) IN
  /\ \E t \in [told -> UNION {choices(p) : p \in told}] :
       /\ \A p \in told : t[p] \in choices(p)
       /\ sock' = [p \in People |->
            IF p \in told
            THEN [socks[p] EXCEPT ![cs[p]] = Retabled(@, t[p], gone[p] \cap Range(@.knows), come[p])]
            ELSE socks[p]]
  /\ hearers' = [p \in People |-> (hearers[p] \cup come[p]) \ gone[p]]

\* The relay closes a socket; the page is told after all that went before.
Shut(x, held) == IF held THEN OnTheWire([x EXCEPT !.at = "shut"], [is |-> "close"]) ELSE Unused

-----------------------------------------------------------------------------
(* The office.                                                             *)

\* EarshotTracker.update
Enter == {m \in Meet \ pairs : band[m] = "near" /\ \A p \in m : Human(p)}
Part == {m \in pairs : band[m] \in {"rim", "far"} \/ \E p \in m : ~Human(p)}
With(ms, p) == (UNION {m \in ms : p \in m}) \ {p}

\* #sweepEarshot
Sweeps ==
  /\ Enter \cup Part # {}
  /\ pairs' = (pairs \cup Enter) \ Part
  /\ UpdatePeers(sock, conns, [p \in People |-> With(Part, p)], [p \in People |-> With(Enter, p)])
  /\ UNCHANGED <<band, seat, conns, page, left>>

\* onLeave: a seat kept for its grace
Drops(p) ==
  /\ seat[p] = "here" /\ Spend("drops") /\ seat' = [seat EXCEPT ![p] = "away"]
  /\ UNCHANGED <<band, pairs, hearers, conns, sock, page>>

\* #closeSocket; the relay is yet to see it
Closing(p) == [page EXCEPT ![p] = QuietPage]

\* It is taken back: the page's voice client is stopped, and another made.
Resumes(p) ==
  /\ seat[p] = "away" /\ seat' = [seat EXCEPT ![p] = "here"] /\ page' = Closing(p)
  /\ UNCHANGED <<band, pairs, hearers, conns, sock, left>>

\* #removePlayer: sessionLeft, and the tracker's pairs end; the page is gone,
\* or comes back as another session.
Removed(p) ==
  /\ seat[p] = "away" \/ (seat[p] = "here" /\ left.drops > 0)
  /\ seat' = [seat EXCEPT ![p] = "gone"]
  /\ left' = IF seat[p] = "here" THEN [left EXCEPT !.drops = @ - 1] ELSE left
  /\ page' = Closing(p) /\ conns' = [conns EXCEPT ![p] = None]
  /\ pairs' = {m \in pairs : p \notin m}
  /\ LET closed == IF conns[p] = None THEN sock
                   ELSE [sock EXCEPT ![p][conns[p]] = Shut(@, FALSE)]
         ended == [q \in People |-> IF q = p THEN hearers[p]
                                    ELSE IF q \in hearers[p] THEN {p} ELSE {}] IN
     UpdatePeers(closed, conns', ended, [q \in People |-> {}])
  /\ UNCHANGED band

-----------------------------------------------------------------------------
(* The door.                                                               *)

\* The page may still have a socket the relay has closed.
Closes(p, k) == sock' = [sock EXCEPT ![p][k] = Shut(@, Holds(p, k))]

\* A hello: is a human there?
Hello(p, k) ==
  /\ sock[p][k].at = "hello" /\ ~sock[p][k].cut
  /\ IF Human(p) THEN sock' = [sock EXCEPT ![p][k].at = "checking"] ELSE Closes(p, k)
  /\ UNCHANGED <<band, seat, pairs, hearers, conns, page, left>>

\* The token does not verify.
Refuses(p, k) ==
  /\ sock[p][k].at = "checking" /\ Spend("refusals") /\ Closes(p, k)
  /\ UNCHANGED <<band, seat, pairs, hearers, conns, page>>

\* Mutant: those in earshot are not told of.
WelcomesOnly(x) == TableOf(NoTable, {}, {})
\* Who is in earshot already is told first.
Welcomes(p) == TableOf(NoTable, {}, hearers[p])

\* It verifies: is the human still there?  The socket takes the place of what
\* the session had.
Verified(p, k) ==
  /\ sock[p][k].at = "checking"
  /\ IF ~Human(p) THEN Closes(p, k) /\ UNCHANGED conns
     ELSE \E t \in Welcomes(p) :
       /\ conns' = [conns EXCEPT ![p] = k]
       /\ sock' = [sock EXCEPT ![p] = [j \in Sockets |->
            IF j = k THEN Retabled([sock[p][k] EXCEPT !.at = "bound"], t, {}, Range(t) \ {Nobody})
            ELSE IF j = conns[p] THEN Shut(sock[p][j], Holds(p, j))
            ELSE sock[p][j]]]
  /\ UNCHANGED <<band, seat, pairs, hearers, page, left>>

\* The relay hears that a socket is closed, or hears nothing from it.
SeesClose(p, k) ==
  /\ sock[p][k].at \in {"hello", "checking", "bound", "shut"} /\ (~Holds(p, k) \/ sock[p][k].cut)
  /\ sock[p][k].at # "shut" \/ ~Holds(p, k)
  /\ sock' = [sock EXCEPT ![p][k] = Shut(@, Holds(p, k))]
  /\ conns' = IF conns[p] = k THEN [conns EXCEPT ![p] = None] ELSE conns
  /\ UNCHANGED <<band, seat, pairs, hearers, page, left>>

Cuts(p, k) ==
  /\ sock[p][k].at # "none" /\ ~sock[p][k].cut /\ Spend("cuts")
  /\ sock' = [sock EXCEPT ![p][k] = [@ EXCEPT !.cut = TRUE, !.wire = <<>>]]
  /\ UNCHANGED <<band, seat, pairs, hearers, conns, page>>

\* #relay: a frame that p's page sent, maybe before it closed its socket, goes
\* to r, under the byte r's socket knows p by.
Relays(p, r) ==
  /\ \E k \in Sockets : sock[p][k].at = "bound" /\ ~sock[p][k].cut
  /\ r \in hearers[p] /\ conns[r] # None /\ Spend("frames")
  /\ \E i \in Bytes :
       /\ sock[r][conns[r]].knows[i] = p
       /\ sock' = [sock EXCEPT ![r][conns[r]] = OnTheWire(@, [is |-> "frame", byte |-> i, from |-> p])]
  /\ UNCHANGED <<band, seat, pairs, hearers, conns, page>>

-----------------------------------------------------------------------------
(* The page.                                                               *)

\* shouldBeOpen: from the nearest human that is in the office, there or away
WantsOpen(p) ==
  LET around == {band[Pair(p, q)] : q \in {o \in Others(p) : seat[o] # "gone"}} IN
  around \cap (IF page[p].want THEN {"near", "edge", "rim"} ELSE {"near", "edge"}) # {}

\* #tick, ten times a second; #openSocket, #closeSocket
Opens(p) ==
  /\ seat[p] # "gone" /\ WantsOpen(p) /\ Holds(p, None)
  /\ \E k \in Sockets :
       /\ sock[p][k].at = "none" /\ \A j \in Sockets : j < k => sock[p][j].at # "none"
       /\ sock' = [sock EXCEPT ![p][k].at = "hello"]
       /\ page' = [page EXCEPT ![p].want = TRUE, ![p].ws = k]
  /\ UNCHANGED <<band, seat, pairs, hearers, conns, left>>

Alone(p) ==
  /\ seat[p] # "gone" /\ ~WantsOpen(p) /\ page[p].want /\ page' = Closing(p)
  /\ UNCHANGED <<band, seat, pairs, hearers, conns, sock, left>>

\* Mutant: it is the byte that is given up, whoever has it now.
DropsByte(t, joined, gone) ==
  [i \in Bytes |-> IF t[i] \in gone THEN Nobody
                   ELSE IF \E q \in People : <<i, q>> \in joined THEN CHOOSE q \in People : <<i, q>> \in joined
                   ELSE t[i]]
\* #control: the joined, and then those who left (#addPeer, #dropPeer)
Told(t, joined, gone) ==
  LET u == [i \in Bytes |-> IF \E q \in People : <<i, q>> \in joined
                            THEN CHOOSE q \in People : <<i, q>> \in joined ELSE t[i]] IN
  [i \in Bytes |-> IF u[i] \in gone THEN Nobody ELSE u[i]]

\* What the relay sent comes, in order; frames are played, which the state
\* does not show.
PageHears(p) ==
  /\ page[p].ws # None
  /\ LET x == sock[p][page[p].ws] IN
     /\ x.wire # <<>> /\ Head(x.wire).is # "close"
     /\ sock' = [sock EXCEPT ![p][page[p].ws].wire = Tail(@)]
     /\ page' = IF Head(x.wire).is = "peers"
                THEN [page EXCEPT ![p].peers = Told(@, Head(x.wire).joined, Head(x.wire).gone)]
                ELSE page
  /\ UNCHANGED <<band, seat, pairs, hearers, conns, left>>

\* onclose: the table goes; the watch tries again.
Closed(p) ==
  /\ page[p].ws # None
  /\ LET k == page[p].ws IN
     /\ sock[p][k].cut \/ (sock[p][k].wire # <<>> /\ Head(sock[p][k].wire).is = "close")
     /\ page' = [page EXCEPT ![p].ws = None, ![p].peers = NoTable]
     /\ sock' = IF sock[p][k].at = "shut" THEN [sock EXCEPT ![p][k] = Unused] ELSE sock
  /\ UNCHANGED <<band, seat, pairs, hearers, conns, left>>

-----------------------------------------------------------------------------
Door(p, k) == Hello(p, k) \/ Verified(p, k) \/ SeesClose(p, k)
Watch(p) == Opens(p) \/ Alone(p)

VoiceNext ==
  \/ \E m \in Meet : Walks(m)
  \/ Sweeps
  \/ \E p \in People :
       \/ Drops(p) \/ Resumes(p) \/ Removed(p)
       \/ Watch(p) \/ PageHears(p) \/ Closed(p)
       \/ \E k \in Sockets : Door(p, k) \/ Refuses(p, k) \/ Cuts(p, k)
       \/ \E r \in People : Relays(p, r)

VoiceSpec == VoiceInit /\ [][VoiceNext]_voiceVars

\* The office's sweep and the page's watch are timers; a token's check ends;
\* a socket that works delivers, and either end of one that does not finds out.
VoiceFairness ==
  /\ WF_voiceVars(Sweeps)
  /\ \A p \in People :
       /\ WF_voiceVars(Watch(p)) /\ WF_voiceVars(PageHears(p)) /\ WF_voiceVars(Closed(p))
       /\ \A k \in Sockets : WF_voiceVars(Door(p, k))
FairVoices == VoiceSpec /\ VoiceFairness

-----------------------------------------------------------------------------
(* Properties.                                                             *)

\* The shape of the state.
VoiceTypeOK ==
  /\ band \in [Meet -> Bands] /\ seat \in [People -> {"here", "away", "gone"}]
  /\ pairs \subseteq Meet /\ hearers \in [People -> SUBSET People]
  /\ conns \in [People -> Sockets \cup {None}]
  /\ \A p \in People, k \in Sockets :
       sock[p][k].at \in {"none", "hello", "checking", "bound", "shut"}
  /\ page \in [People -> [want : BOOLEAN, ws : Sockets \cup {None},
                          peers : [Bytes -> People \cup {Nobody}]]]

\* A voice is never taken for another's, nor for nobody's: a frame that comes
\* finds its sender under its byte, whatever the byte stood for before
\* (docs/VOICE.md:78-83).
VoiceIsTheirs ==
  \A p \in People : page[p].ws # None =>
    LET wire == sock[p][page[p].ws].wire IN
    wire # <<>> /\ Head(wire).is = "frame" => page[p].peers[Head(wire).byte] = Head(wire).from

\* The office and the relay have one graph, though the one tells the other
\* only what changed, and a session's end reaches it on two ways.
OneGraph == \A p, q \in People : q \in hearers[p] <=> p # q /\ Pair(p, q) \in pairs

\* The table of a session's socket names whoever its person is to hear and
\* nobody else, whether they came before the socket, with it or after
\* (relay.ts updatePeers, and the welcome).
TablesFollowTheGraph ==
  \A p \in People : conns[p] # None => Range(sock[p][conns[p]].knows) \ {Nobody} = hearers[p]

\* Two people who stay near each other come to hear each other.
Near(p, q) == Pair(p, q) \in Meet /\ band[Pair(p, q)] = "near" /\ Human(p) /\ Human(q)
Hearing(p, q) == page[p].ws # None /\ q \in Range(page[p].peers)
NeighboursAreHeard == \A p, q \in People : Near(p, q) ~> (Hearing(p, q) \/ ~Near(p, q))

\* Who has gone out of earshot, or out of the office, is heard no more.
Apart(p, q) == q # p /\ (seat[q] = "gone" \/ (Pair(p, q) \in Meet /\ band[Pair(p, q)] \in {"rim", "far"}))
PartedAreNotHeard == \A p, q \in People : (Hearing(p, q) /\ Apart(p, q)) ~> ~(Hearing(p, q) /\ Apart(p, q))

\* What the code's own words promise and it does not keep.

\* "A reconnecting client's new socket wins" (relay.ts:354): what the page
\* holds is not put aside for what it has given up.
NewSocketWins ==
  [][\A p \in People :
       conns[p] # None /\ Holds(p, conns[p]) /\ conns'[p] # None => Holds(p, conns'[p])]_voiceVars
=============================================================================
