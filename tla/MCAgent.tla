------------------------------ MODULE MCAgent ------------------------------
(* What an agent asks its owner and the voices of the people around it, in  *)
(* one run.  They share no state, so a behaviour is of one of them, which   *)
(* `of' says, and the run explores their sum and not their product.         *)
EXTENDS Approvals, Voice

VARIABLE of

agentVars == <<vars, voiceVars, of>>

AgentInit == of \in {"questions", "voices"} /\ Init /\ VoiceInit

AgentNext ==
  \/ of = "questions" /\ Next /\ UNCHANGED <<voiceVars, of>>
  \/ of = "voices" /\ VoiceNext /\ UNCHANGED <<vars, of>>

AgentSpec == AgentInit /\ [][AgentNext]_agentVars
=============================================================================
