------------------------------- MODULE Consent -------------------------------
(***************************************************************************)
(* What a tool approval promises, whatever carries it: a question is       *)
(* answered once, and with a yes only if the owner gave that question a    *)
(* yes.  No sockets, no cards, no clocks, no replay: `#settleApproval' and *)
(* the owner's `!approve' or click are all that is left                    *)
(* (AgentRunner.ts, approval-pick.ts).                                     *)
(***************************************************************************)
CONSTANT Questions

VARIABLES
  told,   \* per question: unasked, open, or what the runtime was told
  given   \* the answers the owner gave, each to a question

Init == told = [q \in Questions |-> "unasked"] /\ given = {}

Asks(q) ==
  /\ told[q] = "unasked"
  /\ told' = [told EXCEPT ![q] = "open"]
  /\ UNCHANGED given

\* The owner answers; the harness has not heard it yet, or never will.
Gives(q, a) == given' = given \cup {<<q, a>>} /\ UNCHANGED told

\* The one answer of a question: a yes is the owner's, a no is anybody's.
Answered(q, a) ==
  /\ told[q] = "open"
  /\ given' \in {given, given \cup {<<q, a>>}}
  /\ a = "allow" => <<q, a>> \in given'
  /\ told' = [told EXCEPT ![q] = a]

Next == \E q \in Questions :
          Asks(q) \/ \E a \in {"allow", "deny"} : Gives(q, a) \/ Answered(q, a)

Spec == Init /\ [][Next]_<<told, given>>
=============================================================================
