------------------------------- MODULE Mailbox -------------------------------
(***************************************************************************)
(* What the turn loop promises a message, whatever becomes of the workers, *)
(* the turns and the sockets: it waits, it is held by a turn, it is put to *)
(* the runtime, and then it is over.  A turn that has put nothing to the   *)
(* runtime may hand its messages back; nothing else ever goes back         *)
(* (AgentRunner.ts, #turnFailed).                                          *)
(***************************************************************************)
CONSTANT Msgs
VARIABLE life

Stages == {"unsent", "waiting", "held", "shown", "over"}

\* Where a message may go in one step of the loop.  A message that is sent
\* may be held, or refused, by the drain of the same step.
Onward(from) ==
  CASE from = "unsent"  -> {"waiting", "held", "over"}
    [] from = "waiting" -> {"held", "over"}
    [] from = "held"    -> {"waiting", "shown", "over"}
    [] from = "shown"   -> {"over"}
    [] from = "over"    -> {}

Init == life = [m \in Msgs |-> "unsent"]

\* One handler moves the messages of a turn and of a queue, or of them all.
Next == /\ life' \in [Msgs -> Stages]
        /\ \A m \in Msgs : life'[m] \in {life[m]} \cup Onward(life[m])

Spec == Init /\ [][Next]_life
=============================================================================
