------------------------------ MODULE MCBoard ------------------------------
(* What the office lets people see and hear: its board, and the voices near *)
(* them, each with its own fairness, in one run.  They share no state, so a *)
(* behaviour is of one of them, which `of' says, and the run explores their *)
(* sum and not their product.  The board is here under its own names, the   *)
(* voices are an instance.                                                  *)
EXTENDS Board

CONSTANTS ann, bob

VARIABLES band, seat, pairs, hearers, conns, sock, page, rest,
          of

voices == <<band, seat, pairs, hearers, conns, sock, page, rest>>
all == <<vars, voices, of>>

\* Two people, whose socket is cut and whose token is not verified at once.
V == INSTANCE Voice WITH
  left <- rest, People <- {ann, bob}, Meet <- {{ann, bob}}, Bytes <- {1},
  MaxSockets <- 2, MaxMoves <- 2, MaxFrames <- 0, MaxCuts <- 1, MaxDrops <- 0, MaxRefusals <- 1

BothInit == of \in {"board", "voices"} /\ Init /\ V!VoiceInit

\* A step of one leaves the other alone.
OfBoard(Step) == of = "board" /\ Step /\ UNCHANGED <<voices, of>>
OfVoices(Step) == of = "voices" /\ Step /\ UNCHANGED <<vars, of>>

BothNext == OfBoard(Next) \/ OfVoices(V!VoiceNext)

\* The fairness of each module (its FairSpec, FairVoices), of its own behaviours.
BoardFairness ==
  /\ WF_all(OfBoard(\E r \in BoardReads : Ticks(r)))
  /\ \A r \in BoardReads : WF_all(OfBoard(Lands(r))) /\ WF_all(OfBoard(Discards(r)))
  /\ \A r \in BoardReads, t \in Tables : WF_all(OfBoard(Queries(r, t)))
  /\ \A p \in People : WF_all(OfBoard(Sends(p))) /\ WF_all(OfBoard(AsksFirst(p)))

VoicesFairness ==
  /\ WF_all(OfVoices(V!Sweeps))
  /\ \A p \in {ann, bob} :
       /\ WF_all(OfVoices(V!Watch(p))) /\ WF_all(OfVoices(V!PageHears(p)))
       /\ WF_all(OfVoices(V!Closed(p)))
       /\ \A k \in V!Sockets : WF_all(OfVoices(V!Door(p, k)))

BothSpec == BothInit /\ [][BothNext]_all /\ BoardFairness /\ VoicesFairness

NeighboursAreHeard == V!NeighboursAreHeard
=============================================================================
