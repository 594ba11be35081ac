------------------------ MODULE ApprovalsVoiceProofs ------------------------
(***************************************************************************)
(* Proofs about Approvals, for any questions, sockets and limits, and      *)
(* about Voice, for any people, pairs, bytes and sockets.                  *)
(*                                                                         *)
(* A frame finds its sender because the wire from the relay to the page is *)
(* a list of tables: the page's own comes first, each message makes the    *)
(* next, a frame is under its sender's byte in the table it meets, and the *)
(* last is the relay's (Follows).  The page may be any number of messages  *)
(* behind, and the bytes used again any number of times.  Who hears whom   *)
(* the office and the relay each keep: one graph, which the tables follow. *)
(***************************************************************************)
EXTENDS Approvals, Voice, FiniteSetTheorems, TLAPS

\* What the office says to the agent: an answer to a named question.
Words == [kind : {"decision", "refusal"}, q : Questions, how : Answers]

States == {"unasked", "open"} \cup Answers

\* What the proof needs of types: the harness's questions, the wire to it.
WireTyped ==
  /\ told \in [Questions -> States]
  /\ toAgent \in [Sessions -> Seq(Words)]
  /\ link \in 0..MaxSessions /\ joined \in Sessions

\* An allow under way to the agent is one the owner gave to that question.
CarriesOwnersWord ==
  \A s \in Sessions : \A i \in 1..Len(toAgent[s]) :
    toAgent[s][i].how = "allow" => <<toAgent[s][i].q, "allow">> \in given

IInv == WireTyped /\ CarriesOwnersWord /\ AllowedByTheOwner

-----------------------------------------------------------------------------
\* One more word on a wire keeps the wire in order if the word itself does.
LEMMA SpeakingKeepsOrder ==
  ASSUME WireTyped, CarriesOwnersWord, NEW s, NEW msg \in Words,
         toAgent' = SentTo(s, msg), given \subseteq given',
         msg.how = "allow" => <<msg.q, "allow">> \in given'
  PROVE  toAgent' \in [Sessions -> Seq(Words)] /\ CarriesOwnersWord'
<1>1. CASE s # link
  BY <1>1 DEF WireTyped, CarriesOwnersWord, SentTo
<1>2. CASE s = link
  <2>1. toAgent' = [toAgent EXCEPT ![s] = Append(@, msg)]
    BY <1>2 DEF SentTo
  <2>2. \A r \in Sessions : toAgent[r] \in Seq(Words)
    BY DEF WireTyped
  <2>3. toAgent' \in [Sessions -> Seq(Words)]
    <3>1. CASE s \in Sessions
      <4>1. Append(toAgent[s], msg) \in Seq(Words)
        BY <2>2, <3>1
      <4>2. QED
        BY <2>1, <3>1, <4>1 DEF WireTyped
    <3>2. CASE s \notin Sessions
      BY <2>1, <3>2 DEF WireTyped
    <3>3. QED
      BY <3>1, <3>2
  <2>4. ASSUME NEW r \in Sessions, NEW i \in 1..Len(toAgent'[r]), toAgent'[r][i].how = "allow"
        PROVE  <<toAgent'[r][i].q, "allow">> \in given'
    <3>1. CASE r # s
      BY <2>1, <2>4, <3>1 DEF WireTyped, CarriesOwnersWord
    <3>2. CASE r = s
      <4>1. toAgent'[r] = Append(toAgent[r], msg)
        BY <2>1, <3>2 DEF WireTyped
      <4>2. toAgent[r] \in Seq(Words)
        BY <2>2
      <4>3. CASE i = Len(toAgent[r]) + 1
        <5>1. toAgent'[r][i] = msg
          BY <4>1, <4>2, <4>3
        <5>2. QED
          BY <5>1, <2>4
      <4>4. CASE i \in 1..Len(toAgent[r])
        <5>1. toAgent'[r][i] = toAgent[r][i]
          BY <4>1, <4>2, <4>4
        <5>2. QED
          BY <5>1, <4>4, <2>4 DEF CarriesOwnersWord
      <4>5. i \in 1..(Len(toAgent[r]) + 1)
        BY <4>1, <4>2, <2>4
      <4>6. Len(toAgent[r]) \in Nat
        BY <4>2
      <4>7. QED
        BY <4>3, <4>4, <4>5, <4>6
    <3>3. QED
      BY <3>1, <3>2
  <2>5. QED
    BY <2>3, <2>4 DEF CarriesOwnersWord
<1>3. QED
  BY <1>1, <1>2

\* A question settled with an answer that is a denial, or that the owner gave
\* to it, keeps every allowed question one its owner allowed.
LEMMA SettlingKeepsConsent ==
  ASSUME WireTyped, AllowedByTheOwner, NEW q \in Questions, NEW a \in Answers, NEW how,
         Settle(q, a, how), given \subseteq given',
         a = "allow" => <<q, "allow">> \in given'
  PROVE  told' \in [Questions -> States] /\ AllowedByTheOwner'
BY DEF WireTyped, AllowedByTheOwner, Settle, States

LEMMA InitInv == Init => IInv
<1> SUFFICES ASSUME Init PROVE IInv
  OBVIOUS
<1>2. [s \in Sessions |-> <<>>] \in [Sessions -> Seq(Words)]
  OBVIOUS
<1>3. 1 \in 1..MaxSessions /\ 1 \in 0..MaxSessions
  BY BoundsAssumption
<1>4. WireTyped
  BY <1>2, <1>3 DEF Init, WireTyped, Sessions, States
<1>5. CarriesOwnersWord /\ AllowedByTheOwner
  BY DEF Init, CarriesOwnersWord, AllowedByTheOwner
<1>6. QED
  BY <1>4, <1>5 DEF IInv

LEMMA StepInv == IInv /\ [Next]_vars => IInv'
<1> SUFFICES ASSUME IInv, [Next]_vars PROVE IInv'
  OBVIOUS
<1> USE DEF IInv
<1>1. ASSUME NEW q \in Questions, Asks(q) PROVE IInv'
  BY <1>1 DEF Asks, WireTyped, CarriesOwnersWord, AllowedByTheOwner, States
<1>2. ASSUME NEW q \in Questions, NEW how, Settle(q, "deny", how),
             UNCHANGED <<link, joined, toAgent, given>>
      PROVE IInv'
  <2>1. told' \in [Questions -> States] /\ AllowedByTheOwner'
    BY <1>2, SettlingKeepsConsent DEF Answers
  <2>2. WireTyped' /\ CarriesOwnersWord'
    BY <1>2, <2>1 DEF WireTyped, CarriesOwnersWord
  <2>3. QED
    BY <2>1, <2>2
<1>3. ASSUME NEW q \in Questions, Timeout(q) PROVE IInv'
  BY <1>2, <1>3 DEF Timeout
<1>4. ASSUME NEW q \in Questions, NEW how, Swept(q, how) PROVE IInv'
  BY <1>2, <1>4 DEF Swept
<1>5. ASSUME NEW q \in Questions, NEW a \in Answers, Typed(q, a) PROVE IInv'
  <2>1. PICK how : Settle(q, a, how)
    BY <1>5 DEF Typed
  <2>2. given \subseteq given' /\ <<q, a>> \in given'
    BY <1>5 DEF Typed
  <2>3. told' \in [Questions -> States] /\ AllowedByTheOwner'
    BY <2>1, <2>2, SettlingKeepsConsent
  <2>4. WireTyped' /\ CarriesOwnersWord'
    BY <1>5, <2>2, <2>3 DEF Typed, WireTyped, CarriesOwnersWord
  <2>5. QED
    BY <2>3, <2>4
<1>6. ASSUME Hears PROVE IInv'
  <2> DEFINE msg == Head(toAgent[link])
  <2>1. link \in Sessions /\ toAgent[link] \in Seq(Words) /\ toAgent[link] # <<>>
    BY <1>6, BoundsAssumption DEF Hears, WireTyped, Sessions
  <2>2. /\ msg \in Words /\ msg = toAgent[link][1] /\ 1 \in 1..Len(toAgent[link])
        /\ Tail(toAgent[link]) \in Seq(Words)
        /\ Len(Tail(toAgent[link])) = Len(toAgent[link]) - 1
        /\ \A i \in 1..Len(Tail(toAgent[link])) :
             /\ i + 1 \in 1..Len(toAgent[link])
             /\ Tail(toAgent[link])[i] = toAgent[link][i + 1]
    BY <2>1
  <2>3. msg.how = "allow" => <<msg.q, "allow">> \in given
    BY <2>1, <2>2 DEF CarriesOwnersWord
  <2>4. toAgent' = [toAgent EXCEPT ![link] = Tail(@)] /\ UNCHANGED <<link, joined, given>>
    BY <1>6 DEF Hears
  <2>5. toAgent' \in [Sessions -> Seq(Words)]
    BY <2>1, <2>2, <2>4 DEF WireTyped
  <2>6. CarriesOwnersWord'
    <3>1. ASSUME NEW s \in Sessions, NEW i \in 1..Len(toAgent'[s]),
                 toAgent'[s][i].how = "allow"
          PROVE  <<toAgent'[s][i].q, "allow">> \in given'
      <4>1. CASE s # link
        BY <2>4, <3>1, <4>1 DEF WireTyped, CarriesOwnersWord
      <4>2. CASE s = link
        <5>1. toAgent'[s] = Tail(toAgent[link])
          BY <2>1, <2>4, <4>2 DEF WireTyped
        <5>2. QED
          BY <2>1, <2>2, <2>4, <3>1, <5>1 DEF CarriesOwnersWord
      <4>3. QED
        BY <4>1, <4>2
    <3>2. QED
      BY <3>1 DEF CarriesOwnersWord
  <2>7. told' \in [Questions -> States] /\ AllowedByTheOwner'
    <3>1. CASE UNCHANGED told
      BY <2>4, <3>1 DEF WireTyped, AllowedByTheOwner
    <3> DEFINE how == IF msg.how = "allow" THEN "allowed" ELSE "denied"
    <3>2. CASE \E q \in Questions : DecisionNames(msg.q, q) /\ Settle(q, msg.how, how)
      <4>1. PICK q \in Questions : DecisionNames(msg.q, q) /\ Settle(q, msg.how, how)
        BY <3>2
      <4>2. msg.how \in Answers /\ msg.q = q
        BY <2>2, <4>1 DEF Words, DecisionNames
      <4>3. QED
        BY <2>3, <2>4, <4>1, <4>2, SettlingKeepsConsent
    <3>3. QED
      BY <1>6, <3>1, <3>2 DEF Hears
  <2>8. QED
    BY <2>4, <2>5, <2>6, <2>7 DEF WireTyped
<1>7. ASSUME Drop PROVE IInv'
  <2>1. link \in Sessions
    BY <1>7, BoundsAssumption DEF Drop, WireTyped, Sessions
  <2>2. toAgent' \in [Sessions -> Seq(Words)]
    BY <1>7, <2>1 DEF Drop, WireTyped
  <2>3. WireTyped'
    BY <1>7, <2>2, BoundsAssumption DEF Drop, WireTyped, harness
  <2>4. \A s \in Sessions : toAgent'[s] = toAgent[s] \/ toAgent'[s] = <<>>
    BY <1>7 DEF Drop, WireTyped
  <2>5. UNCHANGED <<told, given>>
    BY <1>7 DEF Drop, harness
  <2>6. AllowedByTheOwner'
    BY <2>5 DEF AllowedByTheOwner
  <2>7. CarriesOwnersWord'
    <3> SUFFICES ASSUME NEW s \in Sessions, NEW i \in 1..Len(toAgent'[s]),
                        toAgent'[s][i].how = "allow"
                 PROVE  <<toAgent'[s][i].q, "allow">> \in given'
      BY DEF CarriesOwnersWord
    <3>1. toAgent'[s] = toAgent[s]
      BY <2>4
    <3>2. QED
      BY <2>5, <3>1 DEF CarriesOwnersWord
  <2>8. QED
    BY <2>3, <2>6, <2>7
<1>8. ASSUME Rejoin PROVE IInv'
  <2>1. joined + 1 \in Sessions
    BY <1>8, BoundsAssumption DEF Rejoin, WireTyped, Sessions
  <2>2. /\ UNCHANGED <<told, toAgent, given>>
        /\ joined' = joined + 1 /\ link' = joined + 1 /\ joined + 1 \in 0..MaxSessions
    BY <1>8, <2>1, BoundsAssumption DEF Rejoin, harness, Sessions
  <2>3. WireTyped'
    BY <2>1, <2>2 DEF WireTyped
  <2>4. CarriesOwnersWord' /\ AllowedByTheOwner'
    BY <2>2 DEF CarriesOwnersWord, AllowedByTheOwner
  <2>5. QED
    BY <2>3, <2>4
<1>9. ASSUME Restart PROVE IInv'
  <2>1. [s \in Sessions |-> <<>>] \in [Sessions -> Seq(Words)]
    OBVIOUS
  <2>2. QED
    BY <1>9, <2>1, BoundsAssumption
       DEF Restart, harness, WireTyped, CarriesOwnersWord, AllowedByTheOwner
<1>10. ASSUME NEW q \in Questions, NEW s \in Sessions, Keeps(q, s),
              UNCHANGED <<told, link, joined, given>>
       PROVE IInv'
  <2>1. toAgent' = toAgent \/ toAgent' = SentTo(s, Refusal(q))
    BY <1>10 DEF Keeps
  <2>2. Refusal(q) \in Words /\ Refusal(q).how = "deny"
    BY DEF Refusal, Words, Answers
  <2>3. toAgent' \in [Sessions -> Seq(Words)] /\ CarriesOwnersWord'
    <3>1. CASE toAgent' = toAgent
      BY <1>10, <3>1 DEF WireTyped, CarriesOwnersWord
    <3>2. CASE toAgent' = SentTo(s, Refusal(q))
      BY <1>10, <2>2, <3>2, SpeakingKeepsOrder
    <3>3. QED
      BY <2>1, <3>1, <3>2
  <2>4. QED
    BY <1>10, <2>3 DEF WireTyped, AllowedByTheOwner
<1>11. ASSUME UNCHANGED <<told, toAgent, link, joined, given>> PROVE IInv'
  BY <1>11 DEF WireTyped, CarriesOwnersWord, AllowedByTheOwner
<1>12. ASSUME NEW s \in Sessions, TakesRequest(s) PROVE IInv'
  <2>1. CASE \E q \in Questions : Keeps(q, s)
    BY <1>10, <1>12, <2>1 DEF TakesRequest, harness
  <2>2. CASE UNCHANGED <<cards, toAgent>>
    BY <1>11, <1>12, <2>2 DEF TakesRequest, harness
  <2>3. QED
    BY <1>12, <2>1, <2>2 DEF TakesRequest
<1>13. ASSUME NEW q \in Questions, NEW s \in Sessions, ZoneRead(q, s) PROVE IInv'
  BY <1>10, <1>13 DEF ZoneRead, harness
<1>14. ASSUME NEW q \in Questions, NEW a \in Answers, Click(q, a) PROVE IInv'
  <2>1. UNCHANGED <<told, link, joined>>
    BY <1>14 DEF Click, harness
  <2>2. CASE toAgent' = toAgent /\ given \subseteq given'
    BY <2>1, <2>2 DEF WireTyped, CarriesOwnersWord, AllowedByTheOwner
  <2>3. CASE /\ given' = given \cup {<<q, a>>}
             /\ toAgent' = SentTo(cards[q].owner, Decision(q, a))
    <3>1. Decision(q, a) \in Words /\ Decision(q, a).how = a /\ Decision(q, a).q = q
      BY DEF Decision, Words
    <3>2. toAgent' \in [Sessions -> Seq(Words)] /\ CarriesOwnersWord'
      BY <2>3, <3>1, SpeakingKeepsOrder
    <3>3. QED
      BY <2>1, <2>3, <3>2 DEF WireTyped, AllowedByTheOwner
  <2>4. QED
    BY <1>14, <2>2, <2>3 DEF Click
<1>15. ASSUME NEW s \in Sessions, TakesResolved(s) \/ Leaves(s) PROVE IInv'
  BY <1>11, <1>15 DEF TakesResolved, Leaves, harness
<1>16. ASSUME NEW q \in Questions, Late(q) \/ Expires(q) \/ Forgets(q) PROVE IInv'
  BY <1>11, <1>16 DEF Late, Expires, Forgets, harness
<1>17. CASE UNCHANGED vars
  BY <1>11, <1>17 DEF vars
<1>18. QED
  BY <1>1, <1>3, <1>4, <1>5, <1>6, <1>7, <1>8, <1>9, <1>12, <1>13, <1>14, <1>15, <1>16,
     <1>17 DEF Next

\* A tool runs only if the owner allowed that very call, through any losses,
\* reconnects, restarts and races of the ways a question can end.
THEOREM ToolsRunWithConsent == Spec => []AllowedByTheOwner
<1>1. IInv => AllowedByTheOwner
  BY DEF IInv
<1>2. QED
  BY <1>1, InitInv, StepInv, PTL DEF Spec

-----------------------------------------------------------------------------
\* Whatever races to answer a question, the first answer stands.
THEOREM FirstAnswerStands == Spec => AnsweredOnce
<1>1. IInv /\ [Next]_vars =>
        [\A q \in Questions : told[q] \in Answers => told'[q] = told[q]]_vars
  <2> SUFFICES ASSUME IInv, Next, NEW q \in Questions, told[q] \in Answers
               PROVE  told'[q] = told[q]
    BY DEF vars
  <2>1. told[q] # "open" /\ told[q] # "unasked"
    BY DEF Answers
  <2>2. ASSUME NEW r \in Questions, NEW a, NEW how, Settle(r, a, how) PROVE told'[q] = told[q]
    BY <2>1, <2>2 DEF Settle, IInv, WireTyped
  <2>3. ASSUME NEW r \in Questions, Asks(r) PROVE told'[q] = told[q]
    BY <2>1, <2>3 DEF Asks, IInv, WireTyped
  <2>4. ASSUME UNCHANGED told PROVE told'[q] = told[q]
    BY <2>4
  <2>5. ASSUME Hears PROVE told'[q] = told[q]
    BY <2>2, <2>5 DEF Hears
  <2>6. ASSUME NEW r \in Questions, \/ Timeout(r) \/ \E how : Swept(r, how)
                                    \/ \E a \in Answers : Typed(r, a)
        PROVE told'[q] = told[q]
    BY <2>2, <2>6 DEF Timeout, Swept, Typed
  <2>7. ASSUME NEW r \in Questions, \/ Late(r) \/ Expires(r) \/ Forgets(r)
                                    \/ \E a \in Answers : Click(r, a)
                                    \/ \E s \in Sessions : ZoneRead(r, s)
        PROVE told'[q] = told[q]
    BY <2>7 DEF Late, Expires, Forgets, Click, ZoneRead, harness
  <2>8. ASSUME \/ \E s \in Sessions : TakesRequest(s) \/ TakesResolved(s) \/ Leaves(s)
               \/ Drop \/ Rejoin \/ Restart
        PROVE told'[q] = told[q]
    BY <2>8 DEF TakesRequest, TakesResolved, Leaves, Drop, Rejoin, Restart, harness
  <2>9. QED
    BY <2>3, <2>5, <2>6, <2>7, <2>8 DEF Next
<1>2. QED
  BY <1>1, InitInv, StepInv, PTL DEF Spec, AnsweredOnce

-----------------------------------------------------------------------------
\* An answer that settles a question in a step of the approvals is an answer
\* of the abstract question, if a yes is the owner's.
LEMMA SettlingIsAnswering ==
  ASSUME NEW q \in Questions, NEW a \in Answers, NEW how, Settle(q, a, how),
         given' \in {given, given \cup {<<q, a>>}},
         a = "allow" => <<q, a>> \in given'
  PROVE  C!Next
<1>1. C!Answered(q, a)
  BY DEF Settle, C!Answered
<1> QED
  BY <1>1 DEF C!Next, Answers

\* The owner's word, given to a question that may not hear it.
LEMMA GivingIsGiving ==
  ASSUME NEW q \in Questions, NEW a \in Answers, UNCHANGED told,
         given' = given \cup {<<q, a>>}
  PROVE  C!Next
BY DEF C!Next, C!Gives, Answers

\* One step of the sockets, cards and clocks is one of consent, or none.
LEMMA StepIsConsent == IInv /\ [Next]_vars => [C!Next]_<<told, given>>
<1> SUFFICES ASSUME IInv, Next PROVE C!Next \/ UNCHANGED <<told, given>>
  BY DEF vars
<1>1. ASSUME NEW q \in Questions, Asks(q) PROVE C!Next
  BY <1>1 DEF Asks, C!Next, C!Asks
<1>2. ASSUME NEW q \in Questions, NEW how, Settle(q, "deny", how), UNCHANGED given
      PROVE  C!Next
  BY <1>2, SettlingIsAnswering DEF Answers
<1>3. ASSUME NEW q \in Questions, Timeout(q) \/ \E how : Swept(q, how) PROVE C!Next
  BY <1>2, <1>3 DEF Timeout, Swept
<1>4. ASSUME NEW q \in Questions, NEW a \in Answers, Typed(q, a) PROVE C!Next
  BY <1>4, SettlingIsAnswering DEF Typed
<1>5. ASSUME NEW q \in Questions, NEW a \in Answers, Click(q, a)
      PROVE  C!Next \/ UNCHANGED <<told, given>>
  BY <1>5, GivingIsGiving DEF Click, harness
<1>6. ASSUME Hears PROVE C!Next \/ UNCHANGED <<told, given>>
  <2> DEFINE msg == Head(toAgent[link])
             how == IF msg.how = "allow" THEN "allowed" ELSE "denied"
  <2>1. CASE UNCHANGED told
    BY <1>6, <2>1 DEF Hears
  <2>2. CASE \E q \in Questions : DecisionNames(msg.q, q) /\ Settle(q, msg.how, how)
    <3>1. PICK q \in Questions : msg.q = q /\ Settle(q, msg.how, how)
      BY <2>2 DEF DecisionNames
    <3>2. link \in Sessions /\ toAgent[link] \in Seq(Words) /\ toAgent[link] # <<>>
      BY <1>6, BoundsAssumption DEF Hears, IInv, WireTyped, Sessions
    <3>3. msg \in Words /\ msg = toAgent[link][1] /\ 1 \in 1..Len(toAgent[link])
      BY <3>2
    <3>4. msg.how \in Answers
      BY <3>3 DEF Words
    <3>5. msg.how = "allow" => <<q, "allow">> \in given
      BY <3>1, <3>2, <3>3 DEF IInv, CarriesOwnersWord
    <3>6. given' = given
      BY <1>6 DEF Hears
    <3> QED
      BY <3>1, <3>4, <3>5, <3>6, SettlingIsAnswering
  <2> QED
    BY <1>6, <2>1, <2>2 DEF Hears
<1>7. ASSUME NEW q \in Questions, \/ Late(q) \/ Expires(q) \/ Forgets(q)
                                  \/ \E s \in Sessions : ZoneRead(q, s)
      PROVE  UNCHANGED <<told, given>>
  BY <1>7 DEF Late, Expires, Forgets, ZoneRead, harness
<1>8. ASSUME \/ \E s \in Sessions : TakesRequest(s) \/ TakesResolved(s) \/ Leaves(s)
             \/ Drop \/ Rejoin \/ Restart
      PROVE  UNCHANGED <<told, given>>
  BY <1>8 DEF TakesRequest, TakesResolved, Leaves, Drop, Rejoin, Restart, harness
<1> QED
  BY <1>1, <1>3, <1>4, <1>5, <1>6, <1>7, <1>8 DEF Next

\* The whole of the approvals -- sockets that drop, replays, the outbox, the
\* cards and their clocks -- implements consent: a question is answered once,
\* with a yes only if its owner gave it one.
THEOREM ApprovalsImplementConsent == Spec => ImplementsConsent
<1>1. Init => C!Init
  BY DEF Init, C!Init
<1>2. QED
  BY <1>1, InitInv, StepInv, StepIsConsent, PTL DEF Spec, ImplementsConsent, C!Spec

-----------------------------------------------------------------------------
(* The office's side: what it was told, and the cards it made of it.        *)

Ended == [kind : {"resolved"}, q : Questions, how : Endings]
News == {m \in [kind : {"request", "resolved"}, q : Questions, how : {"open"} \cup Endings] :
           m.kind = "request" <=> m.how = "open"}
Made == [end : {"open"} \cup Endings, owner : Sessions, decided : BOOLEAN]

\* What the proof needs of types: the news under way and the cards.
OfficeTyped ==
  /\ outbox \in Seq(Ended)
  /\ toOffice \in [Sessions -> Seq(News)]
  /\ link \in {0, joined}
  /\ \A s \in Sessions : s > joined => toOffice[s] = <<>>
  /\ cards \in [Questions -> Made \cup {NoCard}]
  /\ \A q \in Cards : cards[q].owner <= joined
  /\ reading \subseteq ZoneQuestions \X (1..joined)
  /\ here \subseteq 1..joined
  /\ link # 0 => link \in here

\* Once the office has made a card of a session's request, it has read all
\* that older sessions said.
ReadInOrder ==
  /\ \A q \in Cards, r \in Sessions :
       r < cards[q].owner => toOffice[r] = <<>> /\ <<q, r>> \notin reading
  /\ \A e \in reading, r \in Sessions : r < e[2] => toOffice[r] = <<>>

\* What says that a question is over is said of one that is.
OverIsOver ==
  /\ \A i \in 1..Len(outbox) : told[outbox[i].q] \in Answers
  /\ \A s \in Sessions : \A i \in 1..Len(toOffice[s]) :
       toOffice[s][i].kind = "resolved" => told[toOffice[s][i].q] \in Answers
  /\ \A q \in Cards :
       told[q] = "open" /\ q \notin late => cards[q].end \in {"open", "interrupted"}

\* Nothing is said of a question before it is asked.
AskedFirst ==
  /\ \A q \in Cards : told[q] # "unasked"
  /\ \A e \in reading : told[e[1]] # "unasked"
  /\ \A s \in Sessions : \A i \in 1..Len(toOffice[s]) : told[toOffice[s][i].q] # "unasked"

\* On the socket in use: a request, a refusal, and the end of a question said
\* after the i-th message.
Requested(q) == \E i \in 1..Len(toOffice[link]) :
                  toOffice[link][i].kind = "request" /\ toOffice[link][i].q = q
Refused(q) == \E i \in 1..Len(toAgent[link]) :
                toAgent[link][i].kind = "refusal" /\ toAgent[link][i].q = q
EndedAfter(q, i) == \E j \in 1..Len(toOffice[link]) :
                      /\ j > i /\ toOffice[link][j].kind = "resolved"
                      /\ toOffice[link][j].q = q

\* The card of an open question is up, or its request or the refusal of it is
\* on its way.
ShownOrOnItsWay ==
  link # 0 =>
    \A q \in Questions : told[q] = "open" /\ q \notin late \cup away =>
      \/ Requested(q) \/ <<q, link>> \in reading \/ Refused(q)
      \/ q \in Cards /\ Waiting(q) /\ cards[q].owner = link

\* A card that waits is held by a session the office has.
HolderIsHere == \A q \in Cards \ ZoneQuestions : Waiting(q) => cards[q].owner \in here

\* What waits, or will, in the name of the session in use is still open, or
\* its end is on its way.
EndIsOnItsWay ==
  link # 0 =>
    /\ \A q \in Cards \ ZoneQuestions :
         Waiting(q) /\ cards[q].owner = link => told[q] = "open" \/ EndedAfter(q, 0)
    /\ \A q \in Questions : \A i \in 1..Len(toOffice[link]) :
         toOffice[link][i].kind = "request" /\ toOffice[link][i].q = q =>
           told[q] = "open" \/ EndedAfter(q, i)

OInv == /\ OfficeTyped /\ ReadInOrder /\ OverIsOver /\ AskedFirst
        /\ ShownOrOnItsWay /\ HolderIsHere /\ EndIsOnItsWay

-----------------------------------------------------------------------------
LEMMA NewsIsOfAQuestion ==
  ASSUME OfficeTyped
  PROVE  /\ \A s \in Sessions : \A i \in 1..Len(toOffice[s]) :
              toOffice[s][i] \in News /\ toOffice[s][i].q \in Questions
         /\ \A i \in 1..Len(outbox) : outbox[i] \in Ended /\ outbox[i].q \in Questions
<1>1. ASSUME NEW s \in Sessions, NEW i \in 1..Len(toOffice[s])
      PROVE  toOffice[s][i] \in News /\ toOffice[s][i].q \in Questions
  <2>1. toOffice[s] \in Seq(News)
    BY DEF OfficeTyped
  <2>2. toOffice[s][i] \in News
    BY <2>1, <1>1
  <2> QED
    BY <2>2 DEF News
<1>2. ASSUME NEW i \in 1..Len(outbox)
      PROVE  outbox[i] \in Ended /\ outbox[i].q \in Questions
  <2>1. outbox[i] \in Ended
    BY <1>2 DEF OfficeTyped
  <2> QED
    BY <2>1 DEF Ended
<1> QED
  BY <1>1, <1>2

LEMMA LinkIsASession == ASSUME IInv, OfficeTyped, link # 0 PROVE link \in Sessions /\ link = joined
BY DEF IInv, WireTyped, OfficeTyped

\* One more piece of news, on the socket in use if there is one.
LEMMA SayingIsAppending ==
  ASSUME IInv, OfficeTyped, NEW msg \in News, toOffice' = Sent(msg)
  PROVE  /\ toOffice' \in [Sessions -> Seq(News)]
         /\ \A s \in Sessions : s # link => toOffice'[s] = toOffice[s]
         /\ link # 0 => /\ Len(toOffice[link]) \in Nat
                        /\ Len(toOffice'[link]) = Len(toOffice[link]) + 1
                        /\ toOffice'[link][Len(toOffice[link]) + 1] = msg
                        /\ \A i \in 1..Len(toOffice[link]) :
                             toOffice'[link][i] = toOffice[link][i]
         /\ \A s \in Sessions : \A i \in 1..Len(toOffice'[s]) :
              \/ i \in 1..Len(toOffice[s]) /\ toOffice'[s][i] = toOffice[s][i]
              \/ s = link /\ i = Len(toOffice[s]) + 1 /\ toOffice'[s][i] = msg
<1>1. CASE link = 0
  BY <1>1 DEF OfficeTyped, Sent, Sessions
<1>2. CASE link # 0
  <2>1. link \in Sessions
    BY <1>2, LinkIsASession
  <2>2. toOffice' = [toOffice EXCEPT ![link] = Append(toOffice[link], msg)]
    BY <1>2 DEF Sent
  <2>3. toOffice[link] \in Seq(News)
    BY <2>1 DEF OfficeTyped
  <2>4. Append(toOffice[link], msg) \in Seq(News)
    BY <2>3
  <2>5. /\ Len(toOffice[link]) \in Nat
        /\ Len(Append(toOffice[link], msg)) = Len(toOffice[link]) + 1
        /\ Append(toOffice[link], msg)[Len(toOffice[link]) + 1] = msg
        /\ \A i \in 1..Len(toOffice[link]) : Append(toOffice[link], msg)[i] = toOffice[link][i]
    BY <2>3
  <2>6. toOffice'[link] = Append(toOffice[link], msg)
    BY <2>1, <2>2 DEF OfficeTyped
  <2>7. toOffice' \in [Sessions -> Seq(News)] /\ \A s \in Sessions : s # link => toOffice'[s] = toOffice[s]
    BY <2>1, <2>2, <2>4 DEF OfficeTyped
  <2>8. ASSUME NEW s \in Sessions, NEW i \in 1..Len(toOffice'[s])
        PROVE  \/ i \in 1..Len(toOffice[s]) /\ toOffice'[s][i] = toOffice[s][i]
               \/ s = link /\ i = Len(toOffice[s]) + 1 /\ toOffice'[s][i] = msg
    <3>1. CASE s # link
      BY <2>7, <2>8, <3>1
    <3>2. CASE s = link
      BY <2>5, <2>6, <2>8, <3>2
    <3> QED
      BY <3>1, <3>2
  <2> QED
    BY <1>2, <2>5, <2>6, <2>7, <2>8
<1> QED
  BY <1>1, <1>2

\* The office takes the first message off a socket.
LEMMA ReadingIsTaking ==
  ASSUME OfficeTyped, NEW s \in Sessions, NEW kind, Reads(s, kind)
  PROVE  /\ toOffice' \in [Sessions -> Seq(News)]
         /\ \A r \in Sessions : r # s => toOffice'[r] = toOffice[r]
         /\ Len(toOffice[s]) \in Nat /\ 1 \in 1..Len(toOffice[s])
         /\ Head(toOffice[s]) = toOffice[s][1] /\ toOffice[s][1] \in News
         /\ Len(toOffice'[s]) = Len(toOffice[s]) - 1
         /\ \A i \in 1..Len(toOffice'[s]) : toOffice'[s][i] = toOffice[s][i + 1]
         /\ \A r \in Sessions : \A i \in 1..Len(toOffice'[r]) :
              \E j \in 1..Len(toOffice[r]) : toOffice'[r][i] = toOffice[r][j]
<1>1. toOffice[s] \in Seq(News) /\ toOffice[s] # <<>>
  BY DEF OfficeTyped, Reads
<1>2. /\ Len(toOffice[s]) \in Nat /\ 1 \in 1..Len(toOffice[s])
      /\ Head(toOffice[s]) = toOffice[s][1] /\ toOffice[s][1] \in News
      /\ Tail(toOffice[s]) \in Seq(News)
      /\ Len(Tail(toOffice[s])) = Len(toOffice[s]) - 1
      /\ \A i \in 1..Len(Tail(toOffice[s])) : Tail(toOffice[s])[i] = toOffice[s][i + 1]
  BY <1>1
<1>3. toOffice' = [toOffice EXCEPT ![s] = Tail(toOffice[s])]
  BY DEF Reads
<1>4. /\ toOffice'[s] = Tail(toOffice[s])
      /\ toOffice' \in [Sessions -> Seq(News)]
      /\ \A r \in Sessions : r # s => toOffice'[r] = toOffice[r]
  BY <1>2, <1>3 DEF OfficeTyped
<1>5. ASSUME NEW r \in Sessions, NEW i \in 1..Len(toOffice'[r])
      PROVE  \E j \in 1..Len(toOffice[r]) : toOffice'[r][i] = toOffice[r][j]
  <2>1. CASE r # s
    BY <1>4, <1>5, <2>1
  <2>2. CASE r = s
    <3>1. i + 1 \in 1..Len(toOffice[s]) /\ toOffice'[s][i] = toOffice[s][i + 1]
      BY <1>2, <1>4, <1>5, <2>2
    <3> QED
      BY <2>2, <3>1
  <2> QED
    BY <2>1, <2>2
<1> QED
  BY <1>2, <1>4, <1>5

\* The questions of a set, each once, in some order.
LEMMA EveryQuestionIsListed ==
  ASSUME NEW S, IsFiniteSet(S)
  PROVE  /\ SetToSeq(S) \in Seq(S)
         /\ \A q \in S : \E i \in 1..Len(SetToSeq(S)) : SetToSeq(S)[i] = q
<1> DEFINE n == Cardinality(S)
           f == SetToSeq(S)
<1>1. n \in Nat /\ ExistsBijection(1..n, S)
  BY FS_CardinalityType
<1>2. \E g \in [1..n -> S] : IsInjective(g)
  BY <1>1 DEF ExistsBijection, Bijection, Injection, IsInjective
<1>3. f \in [1..n -> S] /\ IsInjective(f)
  BY <1>2 DEF SetToSeq
<1>4. f \in Injection(1..n, S)
  BY <1>3 DEF Injection
<1>5. IsFiniteSet(1..n) /\ Cardinality(1..n) = n
  BY <1>1, FS_Interval
<1>6. f \in Surjection(1..n, S)
  BY <1>4, <1>5, FS_Injection
<1>7. f \in Seq(S) /\ Len(f) = n
  BY <1>1, <1>3
<1>8. \A q \in S : \E i \in 1..n : f[i] = q
  BY <1>6 DEF Surjection
<1> QED
  BY <1>7, <1>8

\* Saying something leaves what older sessions said as it was.
LEMMA SayingKeepsTheOrder ==
  ASSUME IInv, OInv, NEW msg \in News, toOffice' = Sent(msg), outbox' \in Seq(Ended),
         UNCHANGED <<link, joined, here, cards, reading>>
  PROVE  OfficeTyped' /\ ReadInOrder'
<1>1. /\ toOffice' \in [Sessions -> Seq(News)]
      /\ \A s \in Sessions : s # link => toOffice'[s] = toOffice[s]
  BY SayingIsAppending DEF OInv
<1>2. \A s \in Sessions : s > joined => toOffice'[s] = <<>>
  BY <1>1, LinkIsASession DEF OInv, OfficeTyped, IInv, WireTyped, Sessions
<1>3. OfficeTyped'
  BY <1>1, <1>2 DEF OInv, OfficeTyped, Cards
<1>4. \A s \in Sessions : s < joined => toOffice'[s] = toOffice[s]
  BY <1>1, LinkIsASession DEF OInv, IInv, WireTyped, Sessions
<1>5. \A q \in Cards, r \in Sessions : r < cards[q].owner => r < joined
  <2> SUFFICES ASSUME NEW q \in Cards, NEW r \in Sessions, r < cards[q].owner PROVE r < joined
    OBVIOUS
  <2>1. cards[q] \in Made /\ cards[q].owner <= joined
    BY DEF OInv, OfficeTyped, Cards
  <2>2. cards[q].owner \in Int /\ joined \in Int /\ r \in Int
    BY <2>1 DEF Made, Sessions, IInv, WireTyped
  <2> QED
    BY <2>1, <2>2
<1>6. \A e \in reading, r \in Sessions : r < e[2] => r < joined
  <2> SUFFICES ASSUME NEW e \in reading, NEW r \in Sessions, r < e[2] PROVE r < joined
    OBVIOUS
  <2>1. e[2] \in 1..joined /\ joined \in Int /\ r \in Int
    BY DEF OInv, OfficeTyped, Sessions, IInv, WireTyped
  <2> QED
    BY <2>1
<1>7. ReadInOrder'
  BY <1>4, <1>5, <1>6 DEF OInv, ReadInOrder, Cards
<1> QED
  BY <1>3, <1>7

\* The outbox holds the last ends, of questions that are over.
LEMMA OutboxIsOver ==
  ASSUME IInv, OInv, NEW q \in Questions, NEW a \in Answers, NEW how \in Endings,
         Settle(q, a, how)
  PROVE  /\ outbox' \in Seq(Ended)
         /\ \A i \in 1..Len(outbox') : told'[outbox'[i].q] \in Answers
<1> DEFINE longer == Append(outbox, Resolved(q, how))
<1>1. /\ outbox \in Seq(Ended) /\ Resolved(q, how) \in Ended /\ Resolved(q, how).q = q
      /\ \A i \in 1..Len(outbox) : told[outbox[i].q] \in Answers
  BY DEF OInv, OfficeTyped, OverIsOver, Resolved, Ended
<1>2. told' = [told EXCEPT ![q] = a] /\ told \in [Questions -> States]
  BY DEF Settle, IInv, WireTyped
<1>3. /\ longer \in Seq(Ended) /\ longer # <<>>
      /\ Len(longer) = Len(outbox) + 1 /\ Len(outbox) \in Nat
      /\ longer[Len(outbox) + 1] = Resolved(q, how)
      /\ \A i \in 1..Len(outbox) : longer[i] = outbox[i]
  BY <1>1
<1>4. \A i \in 1..Len(longer) : told'[longer[i].q] \in Answers
  <2> SUFFICES ASSUME NEW i \in 1..Len(longer) PROVE told'[longer[i].q] \in Answers
    OBVIOUS
  <2>1. CASE i = Len(outbox) + 1
    BY <1>1, <1>2, <1>3, <2>1
  <2>2. CASE i \in 1..Len(outbox)
    <3>1. outbox[i] \in Ended /\ longer[i] = outbox[i]
      BY <1>1, <1>3, <2>2
    <3>2. outbox[i].q \in Questions /\ told[outbox[i].q] \in Answers
      BY <1>1, <2>2, <3>1 DEF Ended
    <3> QED
      BY <1>2, <3>1, <3>2
  <2> QED
    BY <1>3, <2>1, <2>2
<1>5. /\ Tail(longer) \in Seq(Ended) /\ Len(Tail(longer)) = Len(longer) - 1
      /\ \A i \in 1..Len(Tail(longer)) : Tail(longer)[i] = longer[i + 1]
  BY <1>3
<1>6. \A i \in 1..Len(Tail(longer)) : told'[Tail(longer)[i].q] \in Answers
  BY <1>3, <1>4, <1>5
<1>7. outbox' = longer \/ outbox' = Tail(longer)
  BY DEF Settle, Trimmed
<1> HIDE DEF longer
<1> QED
  BY <1>3, <1>4, <1>5, <1>6, <1>7

\* What is said of a question, and what is known of it, is about an asked one
\* and true, one more piece of news on.
LEMMA SayingStaysTrue ==
  ASSUME IInv, OInv, NEW q \in Questions, NEW msg \in News, toOffice' = Sent(msg), msg.q = q,
         NEW to \in {"open"} \cup Answers, told' = [told EXCEPT ![q] = to],
         told[q] \in {"unasked", "open"}, to = "open" => told[q] = "unasked",
         msg.kind = "resolved" <=> to \in Answers,
         \A i \in 1..Len(outbox') : told'[outbox'[i].q] \in Answers,
         UNCHANGED <<link, late, cards, reading>>
  PROVE  OverIsOver' /\ AskedFirst'
<1>1. told \in [Questions -> States]
  BY DEF IInv, WireTyped
<1>2. \A p \in Questions : /\ told[p] \in Answers => told'[p] \in Answers
                           /\ told[p] # "unasked" => told'[p] # "unasked"
  BY <1>1 DEF Answers, States
<1>3. told'[q] = to
  BY <1>1
<1>4. \A s \in Sessions : \A i \in 1..Len(toOffice'[s]) :
        \/ i \in 1..Len(toOffice[s]) /\ toOffice'[s][i] = toOffice[s][i]
        \/ toOffice'[s][i] = msg
  BY SayingIsAppending DEF OInv
<1>5. ASSUME NEW s \in Sessions, NEW i \in 1..Len(toOffice'[s])
      PROVE  /\ told'[toOffice'[s][i].q] # "unasked"
             /\ toOffice'[s][i].kind = "resolved" => told'[toOffice'[s][i].q] \in Answers
  <2>1. CASE i \in 1..Len(toOffice[s]) /\ toOffice'[s][i] = toOffice[s][i]
    BY <1>2, <2>1, NewsIsOfAQuestion DEF OInv, OverIsOver, AskedFirst
  <2>2. CASE toOffice'[s][i] = msg
    BY <1>3, <2>2 DEF Answers
  <2> QED
    BY <1>4, <1>5, <2>1, <2>2
<1>6. ASSUME NEW p \in Cards PROVE told'[p] # "unasked"
  BY <1>2, <1>6 DEF OInv, AskedFirst, Cards
<1>7. ASSUME NEW e \in reading PROVE told'[e[1]] # "unasked"
  BY <1>2, <1>7, QuestionsAssumption DEF OInv, AskedFirst, OfficeTyped
<1>8. ASSUME NEW p \in Cards, told'[p] = "open" PROVE told[p] = "open"
  BY <1>1, <1>3, <1>8 DEF Cards, OInv, AskedFirst, Answers
<1>9. AskedFirst'
  BY <1>5, <1>6, <1>7 DEF AskedFirst, Cards
<1>10. OverIsOver'
  BY <1>5, <1>8 DEF OverIsOver, Cards, OInv
<1> QED
  BY <1>9, <1>10

LEMMA AsksOInv == ASSUME IInv, OInv, NEW q \in Questions, Asks(q) PROVE OInv'
<1>1. /\ told[q] = "unasked" /\ told' = [told EXCEPT ![q] = "open"] /\ toOffice' = Sent(Ask(q))
      /\ UNCHANGED <<outbox, link, joined, toAgent, late, away, here, cards, reading>>
      /\ told \in [Questions -> States]
  BY DEF Asks, office, IInv, WireTyped
<1>2. Ask(q) \in News /\ Ask(q).kind = "request" /\ Ask(q).q = q /\ Ask(q).kind # "resolved"
  BY DEF Ask, News
<1>3. OfficeTyped' /\ ReadInOrder'
  BY <1>1, <1>2, SayingKeepsTheOrder DEF OInv, OfficeTyped
<1>4. /\ \A i \in 1..Len(outbox') : told'[outbox'[i].q] \in Answers
      /\ "open" \notin Answers
  BY <1>1, NewsIsOfAQuestion DEF OInv, OverIsOver, Answers
<1>5. OverIsOver' /\ AskedFirst'
  BY <1>1, <1>2, <1>4, SayingStaysTrue
<1>6. link # 0 => /\ Len(toOffice[link]) \in Nat
                  /\ Len(toOffice'[link]) = Len(toOffice[link]) + 1
                  /\ toOffice'[link][Len(toOffice[link]) + 1] = Ask(q)
                  /\ \A i \in 1..Len(toOffice[link]) : toOffice'[link][i] = toOffice[link][i]
  BY <1>1, <1>2, SayingIsAppending DEF OInv
<1>7. HolderIsHere'
  BY <1>1 DEF OInv, HolderIsHere, Cards, Waiting
<1>8. ShownOrOnItsWay'
  <2> SUFFICES ASSUME link # 0, NEW p \in Questions, told'[p] = "open", p \notin late \cup away
               PROVE  \/ Requested(p)' \/ <<p, link>> \in reading \/ Refused(p)
                      \/ p \in Cards /\ Waiting(p) /\ cards[p].owner = link
    BY <1>1 DEF ShownOrOnItsWay, Refused, Cards, Waiting
  <2>1. CASE p = q
    <3>1. Len(toOffice[link]) + 1 \in 1..Len(toOffice'[link])
      BY <1>6
    <3>2. Requested(q)'
      BY <1>1, <1>2, <1>6, <3>1 DEF Requested
    <3> QED
      BY <2>1, <3>2
  <2>2. CASE p # q
    <3>1. told[p] = "open"
      BY <1>1, <2>2
    <3>2. Requested(p) => Requested(p)'
      BY <1>1, <1>6 DEF Requested
    <3> QED
      BY <3>1, <3>2 DEF OInv, ShownOrOnItsWay
  <2> QED
    BY <2>1, <2>2
<1>9. EndIsOnItsWay'
  <2> SUFFICES ASSUME link # 0 PROVE EndIsOnItsWay'
    BY <1>1 DEF EndIsOnItsWay
  <2>1. link \in Sessions /\ link' = link
    BY <1>1, LinkIsASession DEF OInv
  <2>2. \A p \in Questions : told[p] = "open" => told'[p] = "open"
    BY <1>1
  <2>3. \A p \in Questions, i \in 0..Len(toOffice[link]) : EndedAfter(p, i) => EndedAfter(p, i)'
    BY <1>1, <1>6 DEF EndedAfter
  <2>4. ASSUME NEW p \in Cards \ ZoneQuestions, Waiting(p), cards[p].owner = link
        PROVE  told'[p] = "open" \/ EndedAfter(p, 0)'
    <3>1. told[p] = "open" \/ EndedAfter(p, 0)
      BY <2>4 DEF OInv, EndIsOnItsWay
    <3>2. p \in Questions /\ 0 \in 0..Len(toOffice[link])
      BY <1>6 DEF Cards
    <3> QED
      BY <2>2, <2>3, <3>1, <3>2
  <2>5. ASSUME NEW p \in Questions, NEW i \in 1..Len(toOffice'[link]),
               toOffice'[link][i].kind = "request", toOffice'[link][i].q = p
        PROVE  told'[p] = "open" \/ EndedAfter(p, i)'
    <3>1. CASE i = Len(toOffice[link]) + 1
      BY <1>1, <1>2, <1>6, <2>5, <3>1
    <3>2. CASE i \in 1..Len(toOffice[link])
      <4>1. toOffice'[link][i] = toOffice[link][i] /\ i \in 0..Len(toOffice[link])
        BY <1>6, <3>2
      <4>2. told[p] = "open" \/ EndedAfter(p, i)
        BY <2>5, <3>2, <4>1 DEF OInv, EndIsOnItsWay
      <4> QED
        BY <2>2, <2>3, <4>1, <4>2
    <3> QED
      BY <1>6, <2>5, <3>1, <3>2
  <2>6. UNCHANGED <<cards, link>>
    BY <1>1
  <2> QED
    BY <2>4, <2>5, <2>6 DEF EndIsOnItsWay, Cards, Waiting
<1> QED
  BY <1>3, <1>5, <1>7, <1>8, <1>9 DEF OInv

\* A question stops waiting.  Its end is on its way to the office, and the
\* other questions are where they were.  What was on its way to the harness
\* may have been heard, if it was of this question.
LEMMA SettleOInv ==
  ASSUME IInv, OInv, NEW q \in Questions, NEW a \in Answers, NEW how \in Endings,
         Settle(q, a, how), UNCHANGED <<link, joined, here, cards, reading, late, away>>,
         \A p \in Questions : p # q /\ Refused(p) => Refused(p)'
  PROVE  OInv'
<1>1. /\ told[q] = "open" /\ told' = [told EXCEPT ![q] = a]
      /\ toOffice' = Sent(Resolved(q, how)) /\ told \in [Questions -> States]
  BY DEF Settle, IInv, WireTyped
<1>2. /\ Resolved(q, how) \in News /\ Resolved(q, how).kind = "resolved"
      /\ Resolved(q, how).q = q /\ Resolved(q, how).kind # "request"
  BY DEF Resolved, News, Endings
<1>3. outbox' \in Seq(Ended) /\ \A i \in 1..Len(outbox') : told'[outbox'[i].q] \in Answers
  BY OutboxIsOver
<1>4. OfficeTyped' /\ ReadInOrder'
  BY <1>1, <1>2, <1>3, SayingKeepsTheOrder
<1>5. OverIsOver' /\ AskedFirst'
  <2>1. a # "open"
    BY DEF Answers
  <2> QED
    BY <1>1, <1>2, <1>3, <2>1, SayingStaysTrue
<1>6. link # 0 => /\ Len(toOffice[link]) \in Nat
                  /\ Len(toOffice'[link]) = Len(toOffice[link]) + 1
                  /\ toOffice'[link][Len(toOffice[link]) + 1] = Resolved(q, how)
                  /\ \A i \in 1..Len(toOffice[link]) : toOffice'[link][i] = toOffice[link][i]
  BY <1>1, <1>2, SayingIsAppending DEF OInv
<1>7. HolderIsHere'
  BY DEF OInv, HolderIsHere, Cards, Waiting
<1>8. ShownOrOnItsWay'
  <2> SUFFICES ASSUME link # 0, NEW p \in Questions, told'[p] = "open", p \notin late \cup away
               PROVE  \/ Requested(p)' \/ <<p, link>> \in reading \/ Refused(p)'
                      \/ p \in Cards /\ Waiting(p) /\ cards[p].owner = link
    BY DEF ShownOrOnItsWay, Cards, Waiting
  <2>1. p # q /\ told[p] = "open"
    BY <1>1 DEF Answers
  <2>2. Requested(p) => Requested(p)'
    BY <1>6 DEF Requested
  <2> QED
    BY <2>1, <2>2 DEF OInv, ShownOrOnItsWay
<1>9. EndIsOnItsWay'
  <2> SUFFICES ASSUME link # 0 PROVE EndIsOnItsWay'
    BY DEF EndIsOnItsWay
  <2>1. \A p \in Questions, i \in 0..Len(toOffice[link]) : EndedAfter(p, i) => EndedAfter(p, i)'
    BY <1>6 DEF EndedAfter
  <2>2. \A i \in 0..Len(toOffice[link]) : EndedAfter(q, i)'
    <3>1. Len(toOffice[link]) + 1 \in 1..Len(toOffice'[link])
      BY <1>6
    <3> QED
      BY <1>2, <1>6, <3>1 DEF EndedAfter
  <2>3. \A p \in Questions : p # q => told'[p] = told[p]
    BY <1>1
  <2>4. ASSUME NEW p \in Cards \ ZoneQuestions, Waiting(p), cards[p].owner = link
        PROVE  told'[p] = "open" \/ EndedAfter(p, 0)'
    <3>1. told[p] = "open" \/ EndedAfter(p, 0)
      BY <2>4 DEF OInv, EndIsOnItsWay
    <3>2. p \in Questions /\ 0 \in 0..Len(toOffice[link])
      BY <1>6 DEF Cards
    <3> QED
      BY <2>1, <2>2, <2>3, <3>1, <3>2
  <2>5. ASSUME NEW p \in Questions, NEW i \in 1..Len(toOffice'[link]),
               toOffice'[link][i].kind = "request", toOffice'[link][i].q = p
        PROVE  told'[p] = "open" \/ EndedAfter(p, i)'
    <3>1. i # Len(toOffice[link]) + 1
      BY <1>2, <1>6, <2>5
    <3>2. i \in 1..Len(toOffice[link])
      BY <1>6, <2>5, <3>1
    <3>3. toOffice'[link][i] = toOffice[link][i] /\ i \in 0..Len(toOffice[link])
      BY <1>6, <3>2
    <3>4. told[p] = "open" \/ EndedAfter(p, i)
      BY <2>5, <3>2, <3>3 DEF OInv, EndIsOnItsWay
    <3> QED
      BY <2>1, <2>2, <2>3, <3>3, <3>4
  <2> QED
    BY <2>4, <2>5 DEF EndIsOnItsWay, Cards, Waiting
<1> QED
  BY <1>4, <1>5, <1>7, <1>8, <1>9 DEF OInv

LEMMA TimeoutSweptTypedOInv ==
  ASSUME IInv, OInv, NEW q \in Questions,
         \/ Timeout(q)
         \/ \E how \in {"lapsed", "interrupted"} : Swept(q, how)
         \/ \E a \in Answers : Typed(q, a)
  PROVE  OInv'
<1>1. \E a \in Answers, how \in Endings : Settle(q, a, how)
  BY DEF Timeout, Swept, Typed, Answers, Endings
<1>2. UNCHANGED <<link, joined, here, cards, reading, late, away, toAgent>>
  BY DEF Timeout, Swept, Typed, office
<1>3. \A p \in Questions : Refused(p) => Refused(p)'
  BY <1>2 DEF Refused
<1> QED
  BY <1>1, <1>2, <1>3, SettleOInv

LEMMA HearsOInv == ASSUME IInv, OInv, Hears PROVE OInv'
<1> DEFINE msg == Head(toAgent[link])
           how == IF msg.how = "allow" THEN "allowed" ELSE "denied"
<1>1. link \in Sessions /\ toAgent[link] \in Seq(Words) /\ toAgent[link] # <<>>
  BY LinkIsASession DEF Hears, IInv, WireTyped, OInv
<1>2. /\ msg \in Words /\ msg = toAgent[link][1] /\ Len(toAgent[link]) \in Nat
      /\ Len(Tail(toAgent[link])) = Len(toAgent[link]) - 1
      /\ \A i \in 1..Len(Tail(toAgent[link])) : Tail(toAgent[link])[i] = toAgent[link][i + 1]
  BY <1>1
<1>3. msg.q \in Questions /\ msg.how \in Answers
  BY <1>2 DEF Words
<1>4. /\ toAgent' = [toAgent EXCEPT ![link] = Tail(@)]
      /\ UNCHANGED <<link, joined, here, cards, reading, late, away>>
  BY DEF Hears, office
<1>5. toAgent'[link] = Tail(toAgent[link])
  BY <1>1, <1>4 DEF IInv, WireTyped
<1>6. ASSUME NEW p \in Questions, p # msg.q, Refused(p) PROVE Refused(p)'
  <2>1. PICK i \in 1..Len(toAgent[link]) : toAgent[link][i].kind = "refusal" /\ toAgent[link][i].q = p
    BY <1>6 DEF Refused
  <2>2. i # 1
    BY <1>2, <1>6, <2>1
  <2>3. i - 1 \in 1..Len(Tail(toAgent[link])) /\ Tail(toAgent[link])[i - 1] = toAgent[link][i]
    BY <1>2, <2>2
  <2> QED
    BY <1>4, <1>5, <2>1, <2>3 DEF Refused
<1>7. CASE \E p \in Questions : DecisionNames(msg.q, p) /\ Settle(p, msg.how, how)
  <2>1. Settle(msg.q, msg.how, how) /\ how \in Endings
    BY <1>7 DEF DecisionNames, Endings
  <2> QED
    BY <1>3, <1>4, <1>6, <2>1, SettleOInv
<1>8. CASE told[msg.q] # "open" /\ UNCHANGED <<told, outbox, toOffice>>
  <2>1. ShownOrOnItsWay'
    <3> SUFFICES ASSUME link # 0, NEW p \in Questions, told[p] = "open", p \notin late \cup away
                 PROVE  \/ Requested(p) \/ <<p, link>> \in reading \/ Refused(p)'
                        \/ p \in Cards /\ Waiting(p) /\ cards[p].owner = link
      BY <1>4, <1>8 DEF ShownOrOnItsWay, Cards, Waiting, Requested
    <3>1. p # msg.q
      BY <1>8
    <3> QED
      BY <1>6, <3>1 DEF OInv, ShownOrOnItsWay
  <2>2. OfficeTyped' /\ ReadInOrder' /\ OverIsOver' /\ AskedFirst'
    BY <1>4, <1>8 DEF OInv, OfficeTyped, ReadInOrder, OverIsOver, AskedFirst, Cards
  <2>3. HolderIsHere' /\ EndIsOnItsWay'
    BY <1>4, <1>8 DEF OInv, HolderIsHere, EndIsOnItsWay, Cards, Waiting, EndedAfter
  <2> QED
    BY <2>1, <2>2, <2>3 DEF OInv
<1> HIDE DEF msg, how
<1> QED
  BY <1>7, <1>8 DEF Hears, msg, how

\* The office starts over: nothing is left to be shown.
LEMMA RestartOInv == ASSUME IInv, OInv, Restart PROVE OInv'
<1>1. /\ link' = 0 /\ here' = {} /\ reading' = {} /\ cards' = [q \in Questions |-> NoCard]
      /\ toOffice' = [s \in Sessions |-> <<>>]
      /\ UNCHANGED <<told, outbox, joined, late, away>>
  BY DEF Restart, harness
<1>2. Cards' = {} /\ \A s \in Sessions : toOffice'[s] = <<>> /\ Len(toOffice'[s]) = 0
  BY <1>1 DEF Cards
<1>3. OfficeTyped'
  <2>1. toOffice' \in [Sessions -> Seq(News)]
    BY <1>1
  <2>2. cards' \in [Questions -> Made \cup {NoCard}]
    BY <1>1
  <2> QED
    BY <1>1, <1>2, <2>1, <2>2 DEF OfficeTyped, OInv
<1>4. ReadInOrder' /\ AskedFirst'
  BY <1>1, <1>2 DEF ReadInOrder, AskedFirst
<1>5. OverIsOver'
  BY <1>1, <1>2 DEF OverIsOver, OInv
<1>6. ShownOrOnItsWay' /\ EndIsOnItsWay'
  BY <1>1 DEF ShownOrOnItsWay, EndIsOnItsWay
<1>7. HolderIsHere'
  BY <1>2 DEF HolderIsHere
<1> QED
  BY <1>3, <1>4, <1>5, <1>6, <1>7 DEF OInv

\* A socket dies: some of what it carried is lost, all behind what is not.
LEMMA DropOInv == ASSUME IInv, OInv, Drop PROVE OInv'
<1>1. /\ link # 0 /\ link' = 0 /\ link \in Sessions /\ link = joined
      /\ UNCHANGED <<told, outbox, joined, here, cards, reading, late, away>>
  BY LinkIsASession DEF Drop, harness, office, OInv
<1>2. PICK n \in 0..Len(toOffice[link]) :
        toOffice' = [toOffice EXCEPT ![link] = SubSeq(toOffice[link], 1, n)]
  BY DEF Drop
<1>3. /\ toOffice \in [Sessions -> Seq(News)] /\ toOffice[link] \in Seq(News)
      /\ Len(toOffice[link]) \in Nat
  BY <1>1 DEF OInv, OfficeTyped
<1>4. /\ SubSeq(toOffice[link], 1, n) \in Seq(News)
      /\ Len(SubSeq(toOffice[link], 1, n)) = n
      /\ \A i \in 1..n : SubSeq(toOffice[link], 1, n)[i] = toOffice[link][i]
  BY <1>3
<1>5. /\ toOffice' \in [Sessions -> Seq(News)]
      /\ toOffice'[link] = SubSeq(toOffice[link], 1, n)
      /\ \A s \in Sessions : s # link => toOffice'[s] = toOffice[s]
  BY <1>1, <1>2, <1>3, <1>4
<1>6. ASSUME NEW s \in Sessions
      PROVE  /\ toOffice[s] = <<>> => toOffice'[s] = <<>>
             /\ \A i \in 1..Len(toOffice'[s]) :
                  i \in 1..Len(toOffice[s]) /\ toOffice'[s][i] = toOffice[s][i]
  <2>1. CASE s # link
    BY <1>5, <2>1
  <2>2. CASE s = link
    <3>1. \A i \in 1..Len(toOffice'[s]) :
            i \in 1..Len(toOffice[s]) /\ toOffice'[s][i] = toOffice[s][i]
      BY <1>3, <1>4, <1>5, <2>2
    <3>2. ASSUME toOffice[s] = <<>> PROVE toOffice'[s] = <<>>
      <4>1. n = 0
        BY <1>3, <2>2, <3>2
      <4>2. toOffice'[s] \in Seq(News) /\ Len(toOffice'[s]) = 0
        BY <1>4, <1>5, <2>2, <4>1
      <4> QED
        BY <4>2
    <3> QED
      BY <3>1, <3>2
  <2> QED
    BY <2>1, <2>2
<1>7. OfficeTyped'
  BY <1>1, <1>5, <1>6 DEF OInv, OfficeTyped, Cards
<1>8. ReadInOrder'
  BY <1>1, <1>6 DEF OInv, ReadInOrder, Cards
<1>9. OverIsOver' /\ AskedFirst'
  <2>1. \A s \in Sessions : \A i \in 1..Len(toOffice'[s]) :
          /\ told[toOffice'[s][i].q] # "unasked"
          /\ toOffice'[s][i].kind = "resolved" => told[toOffice'[s][i].q] \in Answers
    BY <1>6 DEF OInv, OverIsOver, AskedFirst
  <2> QED
    BY <1>1, <2>1 DEF OInv, OverIsOver, AskedFirst, Cards
<1>10. HolderIsHere' /\ ShownOrOnItsWay' /\ EndIsOnItsWay'
  BY <1>1 DEF OInv, HolderIsHere, ShownOrOnItsWay, EndIsOnItsWay, Cards, Waiting
<1> QED
  BY <1>7, <1>8, <1>9, <1>10 DEF OInv

LEMMA ElementsOfASeq ==
  ASSUME NEW T, NEW seq \in Seq(T)
  PROVE  Len(seq) \in Nat /\ \A i \in 1..Len(seq) : seq[i] \in T
OBVIOUS

LEMMA OneAfterTheOther ==
  ASSUME NEW T, NEW a \in Seq(T), NEW b \in Seq(T)
  PROVE  /\ a \o b \in Seq(T) /\ Len(a \o b) = Len(a) + Len(b)
         /\ \A i \in 1..Len(a) : (a \o b)[i] = a[i]
         /\ \A i \in 1..Len(b) : (a \o b)[Len(a) + i] = b[i]
OBVIOUS

\* The open questions, in the order #reconnect asks them again.
OpenOnes == SetToSeq({q \in Questions : told[q] = "open"})

\* What a new session is told: the open questions, each of them, and the last
\* that ended.
LEMMA ReplayTellsAll ==
  ASSUME IInv, OInv
  PROVE  /\ Replay(OpenOnes) \in Seq(News)
         /\ \A i \in 1..Len(Replay(OpenOnes)) :
              \/ /\ Replay(OpenOnes)[i].kind = "request"
                 /\ told[Replay(OpenOnes)[i].q] = "open"
              \/ /\ Replay(OpenOnes)[i].kind = "resolved"
                 /\ told[Replay(OpenOnes)[i].q] \in Answers
         /\ \A q \in Questions : told[q] = "open" =>
              \E i \in 1..Len(Replay(OpenOnes)) :
                Replay(OpenOnes)[i].kind = "request" /\ Replay(OpenOnes)[i].q = q
<1> DEFINE open == OpenOnes
           asks == [i \in 1..Len(open) |-> Ask(open[i])]
           S == {q \in Questions : told[q] = "open"}
<1>1. IsFiniteSet(S)
  <2>1. S \in SUBSET Questions
    OBVIOUS
  <2> QED
    BY <2>1, QuestionsAssumption, FS_Subset
<1>2. open \in Seq(S) /\ \A q \in S : \E i \in 1..Len(open) : open[i] = q
  BY <1>1, EveryQuestionIsListed DEF OpenOnes
<1> HIDE DEF open
<1>3. Len(open) \in Nat /\ \A i \in 1..Len(open) : open[i] \in S
  <2> HIDE DEF S
  <2> QED
    BY <1>2, ElementsOfASeq
<1>4. \A i \in 1..Len(open) :
        /\ Ask(open[i]) \in News /\ Ask(open[i]).kind = "request"
        /\ Ask(open[i]).q = open[i]
  BY <1>3 DEF Ask, News
<1>5. asks \in Seq(News) /\ Len(asks) = Len(open) /\ \A i \in 1..Len(open) : asks[i] = Ask(open[i])
  BY <1>3, <1>4
<1>6. outbox \in Seq(Ended) /\ Len(outbox) \in Nat /\ outbox \in Seq(News)
  <2>1. Ended \subseteq News
    BY DEF Ended, News, Endings
  <2>2. outbox \in Seq(Ended)
    BY DEF OInv, OfficeTyped
  <2> QED
    BY <2>1, <2>2
<1>7. Replay(OpenOnes) = asks \o outbox
  BY DEF Replay, open
<1> HIDE DEF asks
<1>8. /\ asks \o outbox \in Seq(News)
      /\ Len(asks \o outbox) = Len(asks) + Len(outbox)
      /\ \A i \in 1..Len(asks) : (asks \o outbox)[i] = asks[i]
      /\ \A i \in 1..Len(outbox) : (asks \o outbox)[Len(asks) + i] = outbox[i]
  <2>1. asks \in Seq(News)
    BY <1>5
  <2>2. outbox \in Seq(News)
    BY <1>6
  <2>3. asks \o outbox \in Seq(News)
    BY <2>1, <2>2
  <2>4. Len(asks \o outbox) = Len(asks) + Len(outbox)
    BY <2>1, <2>2
  <2>5. \A i \in 1..Len(asks) : (asks \o outbox)[i] = asks[i]
    BY <2>1, <2>2
  <2>6. \A i \in 1..Len(outbox) : (asks \o outbox)[Len(asks) + i] = outbox[i]
    BY <2>1, <2>2, OneAfterTheOther
  <2> QED
    BY <2>3, <2>4, <2>5, <2>6
<1>9. ASSUME NEW i \in 1..Len(asks \o outbox)
      PROVE  \/ (asks \o outbox)[i].kind = "request" /\ told[(asks \o outbox)[i].q] = "open"
             \/ (asks \o outbox)[i].kind = "resolved" /\ told[(asks \o outbox)[i].q] \in Answers
  <2>1. CASE i \in 1..Len(asks)
    BY <1>3, <1>4, <1>5, <1>8, <2>1
  <2>2. CASE i \notin 1..Len(asks)
    <3>1. i - Len(asks) \in 1..Len(outbox) /\ i = Len(asks) + (i - Len(asks))
      BY <1>3, <1>5, <1>6, <1>8, <1>9, <2>2
    <3>2. (asks \o outbox)[i] = outbox[i - Len(asks)]
      BY <1>8, <3>1
    <3>3. outbox[i - Len(asks)] \in Ended /\ told[outbox[i - Len(asks)].q] \in Answers
      BY <3>1, NewsIsOfAQuestion DEF OInv, OverIsOver
    <3> QED
      BY <3>2, <3>3 DEF Ended
  <2> QED
    BY <2>1, <2>2
<1>10. ASSUME NEW q \in Questions, told[q] = "open"
       PROVE  \E i \in 1..Len(asks \o outbox) :
                (asks \o outbox)[i].kind = "request" /\ (asks \o outbox)[i].q = q
  <2>1. PICK i \in 1..Len(open) : open[i] = q
    BY <1>2, <1>10
  <2>2. i \in 1..Len(asks) /\ i \in 1..Len(asks \o outbox)
    BY <1>3, <1>5, <1>6, <1>8
  <2> QED
    BY <1>4, <1>5, <1>8, <2>1, <2>2
<1>11. ASSUME NEW all, all = asks \o outbox
       PROVE  /\ all \in Seq(News)
              /\ \A i \in 1..Len(all) :
                   \/ all[i].kind = "request" /\ told[all[i].q] = "open"
                   \/ all[i].kind = "resolved" /\ told[all[i].q] \in Answers
              /\ \A q \in Questions : told[q] = "open" =>
                   \E i \in 1..Len(all) : all[i].kind = "request" /\ all[i].q = q
  <2>1. all \in Seq(News)
    BY <1>8, <1>11
  <2>2. \A i \in 1..Len(all) :
          \/ all[i].kind = "request" /\ told[all[i].q] = "open"
          \/ all[i].kind = "resolved" /\ told[all[i].q] \in Answers
    BY <1>9, <1>11
  <2>3. \A q \in Questions : told[q] = "open" =>
          \E i \in 1..Len(all) : all[i].kind = "request" /\ all[i].q = q
    BY <1>10, <1>11
  <2> QED
    BY <2>1, <2>2, <2>3
<1> QED
  BY <1>7, <1>11

LEMMA RejoinOInv == ASSUME IInv, OInv, Rejoin PROVE OInv'
<1> DEFINE s == joined + 1
<1>1. /\ link = 0 /\ joined < MaxSessions /\ joined' = s /\ link' = s /\ here' = here \cup {s}
      /\ toOffice' = [toOffice EXCEPT ![s] = Replay(OpenOnes)]
      /\ UNCHANGED <<told, outbox, cards, reading, late, toAgent>>
  BY DEF Rejoin, harness, OpenOnes
<1>2. joined \in Sessions /\ s \in Sessions /\ joined \in Int
  BY <1>1, BoundsAssumption DEF IInv, WireTyped, Sessions
<1>3. /\ toOffice' \in [Sessions -> Seq(News)]
      /\ toOffice'[s] = Replay(OpenOnes)
      /\ \A r \in Sessions : r # s => toOffice'[r] = toOffice[r]
  BY <1>1, <1>2, ReplayTellsAll DEF OInv, OfficeTyped
<1>4. \A q \in Cards : cards[q].owner \in Int /\ cards[q].owner <= joined
  BY DEF OInv, OfficeTyped, Cards, Made, Sessions
<1>5. OfficeTyped'
  <2>1. \A r \in Sessions : r > s => toOffice'[r] = <<>>
    BY <1>2, <1>3 DEF OInv, OfficeTyped, Sessions
  <2>2. here' \subseteq 1..s /\ reading \subseteq ZoneQuestions \X (1..s)
    BY <1>1, <1>2 DEF OInv, OfficeTyped, Sessions
  <2>3. \A q \in Cards : cards[q].owner <= s
    BY <1>2, <1>4
  <2> QED
    BY <1>1, <1>3, <2>1, <2>2, <2>3 DEF OInv, OfficeTyped, Cards
<1>6. ReadInOrder'
  <2>1. ASSUME NEW q \in Cards, NEW r \in Sessions, r < cards[q].owner
        PROVE  toOffice'[r] = <<>> /\ <<q, r>> \notin reading
    <3>1. r # s
      BY <1>2, <1>4, <2>1 DEF Sessions
    <3> QED
      BY <1>3, <2>1, <3>1 DEF OInv, ReadInOrder
  <2>2. ASSUME NEW e \in reading, NEW r \in Sessions, r < e[2] PROVE toOffice'[r] = <<>>
    <3>1. e[2] \in 1..joined
      BY DEF OInv, OfficeTyped
    <3>2. r # s
      BY <1>2, <2>2, <3>1 DEF Sessions
    <3> QED
      BY <1>3, <2>2, <3>2 DEF OInv, ReadInOrder
  <2> QED
    BY <1>1, <2>1, <2>2 DEF ReadInOrder, Cards
<1>7. OverIsOver' /\ AskedFirst'
  <2>1. ASSUME NEW r \in Sessions, NEW i \in 1..Len(toOffice'[r])
        PROVE  /\ told[toOffice'[r][i].q] # "unasked"
               /\ toOffice'[r][i].kind = "resolved" => told[toOffice'[r][i].q] \in Answers
    <3>1. CASE r # s
      BY <1>3, <2>1, <3>1 DEF OInv, OverIsOver, AskedFirst
    <3>2. CASE r = s
      BY <1>3, <2>1, <3>2, ReplayTellsAll DEF Answers
    <3> QED
      BY <3>1, <3>2
  <2> QED
    BY <1>1, <2>1 DEF OInv, OverIsOver, AskedFirst, Cards
<1>8. ShownOrOnItsWay'
  <2> SUFFICES ASSUME NEW q \in Questions, told[q] = "open" PROVE Requested(q)'
    BY <1>1 DEF ShownOrOnItsWay
  <2> QED
    BY <1>1, <1>3, ReplayTellsAll DEF Requested
<1>9. HolderIsHere'
  BY <1>1 DEF OInv, HolderIsHere, Cards, Waiting
<1>10. EndIsOnItsWay'
  <2>1. \A q \in Cards : cards[q].owner # s
    BY <1>2, <1>4
  <2>2. ASSUME NEW q \in Questions, NEW i \in 1..Len(toOffice'[s]),
               toOffice'[s][i].kind = "request", toOffice'[s][i].q = q
        PROVE  told[q] = "open"
    BY <1>3, <2>2, ReplayTellsAll
  <2> QED
    BY <1>1, <2>1, <2>2 DEF EndIsOnItsWay, Cards, Waiting
<1> QED
  BY <1>5, <1>6, <1>7, <1>8, <1>9, <1>10 DEF OInv

\* A word to the harness comes behind those on their way.
LEMMA WordsStay ==
  ASSUME IInv, OInv, NEW s, NEW msg \in Words, toAgent' = SentTo(s, msg), link' = link, link # 0
  PROVE  /\ \A p \in Questions : Refused(p) => Refused(p)'
         /\ s = link /\ msg.kind = "refusal" => \A p \in Questions : msg.q = p => Refused(p)'
<1>1. link \in Sessions /\ toAgent[link] \in Seq(Words) /\ toAgent \in [Sessions -> Seq(Words)]
  BY LinkIsASession DEF IInv, WireTyped, OInv
<1>2. CASE s # link
  BY <1>2 DEF SentTo, Refused
<1>3. CASE s = link
  <2>1. toAgent'[link] = Append(toAgent[link], msg)
    BY <1>1, <1>3 DEF SentTo
  <2>2. /\ Len(toAgent[link]) \in Nat
        /\ Len(Append(toAgent[link], msg)) = Len(toAgent[link]) + 1
        /\ Append(toAgent[link], msg)[Len(toAgent[link]) + 1] = msg
        /\ \A i \in 1..Len(toAgent[link]) : Append(toAgent[link], msg)[i] = toAgent[link][i]
    BY <1>1
  <2>3. Len(toAgent[link]) + 1 \in 1..Len(toAgent'[link])
    BY <2>1, <2>2
  <2>4. \A p \in Questions : Refused(p) => Refused(p)'
    BY <2>1, <2>2 DEF Refused
  <2> QED
    BY <2>1, <2>2, <2>3, <2>4 DEF Refused
<1> QED
  BY <1>2, <1>3

\* What keeping a request does to the cards.
LEMMA KeepingACard ==
  ASSUME IInv, OInv, NEW q \in Questions, NEW s \in 1..joined, Keeps(q, s)
  PROVE  /\ cards' \in [Questions -> Made \cup {NoCard}]
         /\ \A p \in Questions : p # q => cards'[p] = cards[p]
         /\ \/ cards'[q] = cards[q]
            \/ cards'[q] \in Made /\ cards'[q].end = "open" /\ cards'[q].owner = s
         /\ toAgent' \in {toAgent, SentTo(s, Refusal(q))}
         /\ told[q] = "open" /\ q \notin late =>
              \/ cards'[q] \in Made /\ cards'[q].end = "open" /\ cards'[q].owner = s
              \/ toAgent' = SentTo(s, Refusal(q))
<1>1. /\ s \in Sessions /\ cards \in [Questions -> Made \cup {NoCard}]
      /\ NoCard \notin Made
  BY BoundsAssumption DEF IInv, WireTyped, OInv, OfficeTyped, Sessions, Made, NoCard, Endings
<1>2. CASE q \in Cards
  <2>1. cards[q] \in Made
    BY <1>1, <1>2 DEF Cards
  <2> DEFINE again == [cards[q] EXCEPT !.end = "open", !.owner = s]
  <2>2. again \in Made /\ again.end = "open" /\ again.owner = s
    BY <1>1, <2>1 DEF Made
  <2> HIDE DEF again
  <2>3. UNCHANGED toAgent
    BY <1>2 DEF Keeps
  <2>4. CASE Revives(q)
    <3>1. cards' = [cards EXCEPT ![q] = again]
      BY <1>2, <2>4 DEF Keeps, again
    <3>2. cards'[q] = again /\ cards' \in [Questions -> Made \cup {NoCard}]
      BY <1>1, <2>2, <3>1
    <3> QED
      BY <1>1, <2>2, <2>3, <3>1, <3>2
  <2>5. CASE ~Revives(q)
    <3>1. cards' = cards
      BY <1>2, <2>5 DEF Keeps
    <3>2. ~(told[q] = "open" /\ q \notin late)
      BY <1>2, <2>5 DEF OInv, OverIsOver, Revives, Waiting
    <3> QED
      BY <1>1, <2>3, <3>1, <3>2
  <2> QED
    BY <2>4, <2>5
<1>3. CASE q \notin Cards
  <2>1. Card(s) \in Made /\ Card(s).end = "open" /\ Card(s).owner = s
    BY <1>1 DEF Card, Made
  <2>2. CASE cards' = [cards EXCEPT ![q] = Card(s)] /\ UNCHANGED toAgent
    <3>1. cards'[q] = Card(s) /\ cards' \in [Questions -> Made \cup {NoCard}]
      BY <1>1, <2>1, <2>2
    <3> QED
      BY <1>1, <2>1, <2>2, <3>1
  <2>3. CASE toAgent' = SentTo(s, Refusal(q)) /\ UNCHANGED cards
    BY <1>1, <2>3
  <2> QED
    BY <1>3, <2>2, <2>3 DEF Keeps
<1> QED
  BY <1>2, <1>3

\* What is still to be read was said of questions that were asked, and that
\* ended if it says so.
LEMMA SaidStaysTrue ==
  ASSUME OverIsOver, AskedFirst, told' = told,
         \A r \in Sessions : \A i \in 1..Len(toOffice'[r]) :
           \E j \in 1..Len(toOffice[r]) : toOffice'[r][i] = toOffice[r][j]
  PROVE  \A r \in Sessions : \A i \in 1..Len(toOffice'[r]) :
           /\ told'[toOffice'[r][i].q] # "unasked"
           /\ toOffice'[r][i].kind = "resolved" => told'[toOffice'[r][i].q] \in Answers
<1> SUFFICES ASSUME NEW r \in Sessions, NEW i \in 1..Len(toOffice'[r])
             PROVE  /\ told'[toOffice'[r][i].q] # "unasked"
                    /\ toOffice'[r][i].kind = "resolved" => told'[toOffice'[r][i].q] \in Answers
  OBVIOUS
<1>1. PICK j \in 1..Len(toOffice[r]) : toOffice'[r][i] = toOffice[r][j]
  OBVIOUS
<1> QED
  BY <1>1 DEF OverIsOver, AskedFirst

\* The card of q is made, comes back or stays as it was, and no other card
\* changes: what the proof says of cards still holds, if what q's card may now
\* say of s does.
LEMMA KeptCardsInv ==
  ASSUME IInv, OInv, NEW q \in Questions, NEW s \in 1..joined, Keeps(q, s),
         told[q] # "unasked",
         UNCHANGED <<told, outbox, link, joined, here, late>>,
         reading' \subseteq reading,
         toOffice' \in [Sessions -> Seq(News)],
         \A r \in Sessions : toOffice[r] = <<>> => toOffice'[r] = <<>>,
         \A r \in Sessions : \A i \in 1..Len(toOffice'[r]) :
           \E j \in 1..Len(toOffice[r]) : toOffice'[r][i] = toOffice[r][j],
         \A r \in Sessions : r < s => toOffice'[r] = <<>> /\ <<q, r>> \notin reading'
  PROVE  OfficeTyped' /\ ReadInOrder' /\ OverIsOver' /\ AskedFirst'
<1>1. /\ cards' \in [Questions -> Made \cup {NoCard}]
      /\ \A p \in Questions : p # q => cards'[p] = cards[p]
      /\ \/ cards'[q] = cards[q]
         \/ cards'[q] \in Made /\ cards'[q].end = "open" /\ cards'[q].owner = s
  BY KeepingACard
<1>2. \A p \in Cards' : p \in Questions /\ (p \in Cards \/ p = q)
  BY <1>1 DEF Cards
<1>3. \A p \in Cards' : \/ p \in Cards /\ cards'[p] = cards[p]
                        \/ p = q /\ cards'[p].end = "open" /\ cards'[p].owner = s
  BY <1>1 DEF Cards
<1>4. OfficeTyped'
  <2>1. \A p \in Cards' : cards'[p].owner <= joined
    <3>1. s <= joined
      BY DEF IInv, WireTyped, Sessions
    <3> QED
      BY <1>3, <3>1 DEF OInv, OfficeTyped
  <2> QED
    BY <1>1, <2>1 DEF OInv, OfficeTyped
<1>5. ReadInOrder'
  BY <1>3 DEF OInv, ReadInOrder
<1>6. OverIsOver' /\ AskedFirst'
  <2>1. \A r \in Sessions : \A i \in 1..Len(toOffice'[r]) :
          /\ told[toOffice'[r][i].q] # "unasked"
          /\ toOffice'[r][i].kind = "resolved" => told[toOffice'[r][i].q] \in Answers
    BY SaidStaysTrue DEF OInv
  <2>2. \A p \in Cards' :
          told[p] = "open" /\ p \notin late => cards'[p].end \in {"open", "interrupted"}
    BY <1>3 DEF OInv, OverIsOver
  <2>3. \A p \in Cards' : told[p] # "unasked"
    BY <1>3 DEF OInv, AskedFirst
  <2> QED
    BY <2>1, <2>2, <2>3 DEF OInv, OverIsOver, AskedFirst
<1> QED
  BY <1>4, <1>5, <1>6

\* What keeping a request of the socket in use does to the question's showing.
LEMMA KeptIsShown ==
  ASSUME IInv, OInv, NEW q \in Questions, NEW s \in 1..joined, Keeps(q, s), link # 0,
         UNCHANGED <<told, link, late>>
  PROVE  /\ \A p \in Questions : Refused(p) => Refused(p)'
         /\ s = link /\ told[q] = "open" /\ q \notin late =>
              \/ Refused(q)'
              \/ q \in Cards' /\ cards'[q].end = "open" /\ cards'[q].owner = link
<1>1. Refusal(q) \in Words /\ Refusal(q).kind = "refusal" /\ Refusal(q).q = q
  BY DEF Refusal, Words, Answers
<1>2. toAgent' \in {toAgent, SentTo(s, Refusal(q))}
  BY KeepingACard
<1>3. \A p \in Questions : Refused(p) => Refused(p)'
  <2>1. CASE toAgent' = toAgent
    BY <2>1 DEF Refused
  <2>2. CASE toAgent' = SentTo(s, Refusal(q))
    BY <1>1, <2>2, WordsStay
  <2> QED
    BY <1>2, <2>1, <2>2
<1>4. ASSUME s = link, told[q] = "open", q \notin late
      PROVE  \/ Refused(q)'
             \/ q \in Cards' /\ cards'[q].end = "open" /\ cards'[q].owner = link
  <2>1. CASE toAgent' = SentTo(s, Refusal(q))
    BY <1>1, <1>4, <2>1, WordsStay
  <2>2. CASE cards'[q] \in Made /\ cards'[q].end = "open" /\ cards'[q].owner = s
    <3>1. NoCard \notin Made
      BY DEF Made, NoCard, Endings
    <3> QED
      BY <1>4, <2>2, <3>1 DEF Cards
  <2> QED
    BY <1>4, <2>1, <2>2, KeepingACard
<1> QED
  BY <1>3, <1>4

LEMMA ZoneReadOInv ==
  ASSUME IInv, OInv, NEW q \in Questions, NEW s \in Sessions, ZoneRead(q, s) PROVE OInv'
<1>1. /\ <<q, s>> \in reading /\ \A e \in reading : e[2] >= s
      /\ reading' = reading \ {<<q, s>>} /\ Keeps(q, s)
      /\ UNCHANGED <<told, outbox, link, joined, toOffice, here, late, away>>
  BY DEF ZoneRead, harness
<1>2. s \in 1..joined /\ q \in ZoneQuestions /\ told[q] # "unasked"
  BY <1>1 DEF OInv, OfficeTyped, AskedFirst
<1>3. \A r \in Sessions : r < s => toOffice[r] = <<>> /\ <<q, r>> \notin reading
  BY <1>1 DEF OInv, ReadInOrder, Sessions
<1>4. OfficeTyped' /\ ReadInOrder' /\ OverIsOver' /\ AskedFirst'
  BY <1>1, <1>2, <1>3, KeptCardsInv DEF OInv, OfficeTyped
<1>5. \A p \in Questions : p # q => cards'[p] = cards[p]
  BY <1>1, <1>2, KeepingACard
<1>6. HolderIsHere'
  BY <1>1, <1>2, <1>5 DEF OInv, HolderIsHere, Cards, Waiting
<1>7. EndIsOnItsWay'
  BY <1>1, <1>2, <1>5 DEF OInv, EndIsOnItsWay, Cards, Waiting, EndedAfter
<1>8. ShownOrOnItsWay'
  <2> SUFFICES ASSUME link # 0, NEW p \in Questions, told[p] = "open", p \notin late \cup away
               PROVE  \/ Requested(p) \/ <<p, link>> \in reading' \/ Refused(p)'
                      \/ p \in Cards' /\ cards'[p].end = "open" /\ cards'[p].owner = link
    BY <1>1 DEF ShownOrOnItsWay, Waiting, Requested
  <2>1. /\ Refused(p) => Refused(p)'
        /\ s = link /\ p = q =>
             \/ Refused(p)'
             \/ p \in Cards' /\ cards'[p].end = "open" /\ cards'[p].owner = link
    BY <1>1, <1>2, KeptIsShown
  <2>2. CASE p # q
    BY <1>1, <1>5, <2>1, <2>2 DEF OInv, ShownOrOnItsWay, Cards, Waiting
  <2>3. CASE p = q /\ s = link
    BY <2>1, <2>3
  <2>4. CASE p = q /\ s # link
    <3>1. s < link
      <4>1. link = joined /\ link \in Sessions
        BY LinkIsASession DEF OInv
      <4> QED
        BY <1>2, <2>4, <4>1 DEF Sessions
    <3>2. ~(p \in Cards /\ cards[p].owner = link)
      BY <1>1, <2>4, <3>1 DEF OInv, ReadInOrder
    <3>3. Requested(p) \/ <<p, link>> \in reading \/ Refused(p)
      BY <3>2 DEF OInv, ShownOrOnItsWay
    <3> QED
      BY <1>1, <2>1, <2>4, <3>3
  <2> QED
    BY <2>2, <2>3, <2>4
<1> QED
  BY <1>4, <1>6, <1>7, <1>8 DEF OInv

\* What is still on its way once the office has read the next message.
LEMMA ReadingOn ==
  ASSUME IInv, OInv, NEW s \in Sessions, NEW kind, Reads(s, kind), link # 0,
         UNCHANGED <<told, link>>
  PROVE  /\ \A p \in Questions : Requested(p) =>
              Requested(p)' \/ (s = link /\ kind = "request" /\ toOffice[s][1].q = p)
         /\ \A p \in Questions : EndedAfter(p, 0) =>
              EndedAfter(p, 0)' \/ (s = link /\ kind = "resolved" /\ toOffice[s][1].q = p)
         /\ s = link => \A p \in Questions : EndedAfter(p, 1) => EndedAfter(p, 0)'
         /\ \A p \in Questions : \A i \in 1..Len(toOffice'[link]) :
              toOffice'[link][i].kind = "request" /\ toOffice'[link][i].q = p =>
                told[p] = "open" \/ EndedAfter(p, i)'
<1>1. /\ \A r \in Sessions : r # s => toOffice'[r] = toOffice[r]
      /\ Len(toOffice[s]) \in Nat /\ 1 \in 1..Len(toOffice[s])
      /\ toOffice[s][1].kind = kind
      /\ Len(toOffice'[s]) = Len(toOffice[s]) - 1
      /\ \A i \in 1..Len(toOffice'[s]) : toOffice'[s][i] = toOffice[s][i + 1]
  BY ReadingIsTaking DEF OInv, Reads
<1>2. link \in Sessions
  BY LinkIsASession DEF OInv
<1>3. CASE s # link
  <2>1. toOffice'[link] = toOffice[link]
    BY <1>1, <1>2, <1>3
  <2>2. \A p \in Questions : Requested(p) => Requested(p)'
    BY <2>1 DEF Requested
  <2>3. \A p \in Questions, i \in 0..Len(toOffice[link]) : EndedAfter(p, i) => EndedAfter(p, i)'
    BY <2>1 DEF EndedAfter
  <2>4. Len(toOffice[link]) \in Nat
    BY <1>2 DEF OInv, OfficeTyped
  <2>5. ASSUME NEW p \in Questions, NEW i \in 1..Len(toOffice'[link]),
               toOffice'[link][i].kind = "request", toOffice'[link][i].q = p
        PROVE  told[p] = "open" \/ EndedAfter(p, i)'
    <3>1. i \in 0..Len(toOffice[link]) /\ i \in 1..Len(toOffice[link])
      BY <2>1, <2>4
    <3>2. told[p] = "open" \/ EndedAfter(p, i)
      BY <2>1, <2>5, <3>1 DEF OInv, EndIsOnItsWay
    <3> QED
      BY <2>3, <3>1, <3>2
  <2> QED
    BY <1>3, <2>2, <2>3, <2>4, <2>5
<1>4. CASE s = link
  <2>1. ASSUME NEW j \in 1..Len(toOffice[link]), j # 1
        PROVE  j - 1 \in 1..Len(toOffice'[link]) /\ toOffice'[link][j - 1] = toOffice[link][j]
    BY <1>1, <1>4, <2>1
  <2>2. ASSUME NEW p \in Questions, Requested(p), ~(kind = "request" /\ toOffice[s][1].q = p)
        PROVE  Requested(p)'
    <3>1. PICK j \in 1..Len(toOffice[link]) :
            toOffice[link][j].kind = "request" /\ toOffice[link][j].q = p
      BY <2>2 DEF Requested
    <3>2. j # 1
      BY <1>1, <1>4, <2>2, <3>1
    <3> QED
      BY <2>1, <3>1, <3>2 DEF Requested
  <2>3. ASSUME NEW p \in Questions, NEW i \in 0..Len(toOffice[link]), EndedAfter(p, i),
               i = 0 => ~(kind = "resolved" /\ toOffice[s][1].q = p)
        PROVE  EndedAfter(p, IF i = 0 THEN 0 ELSE i - 1)'
    <3>1. PICK j \in 1..Len(toOffice[link]) :
            j > i /\ toOffice[link][j].kind = "resolved" /\ toOffice[link][j].q = p
      BY <2>3 DEF EndedAfter
    <3>2. j # 1
      BY <1>1, <1>4, <2>3, <3>1
    <3>3. j - 1 > (IF i = 0 THEN 0 ELSE i - 1)
      BY <3>1, <3>2
    <3> QED
      BY <2>1, <3>1, <3>2, <3>3 DEF EndedAfter
  <2>4. ASSUME NEW p \in Questions, NEW i \in 1..Len(toOffice'[link]),
               toOffice'[link][i].kind = "request", toOffice'[link][i].q = p
        PROVE  told[p] = "open" \/ EndedAfter(p, i)'
    <3>1. i + 1 \in 1..Len(toOffice[link]) /\ toOffice'[link][i] = toOffice[link][i + 1]
      BY <1>1, <1>4, <2>4
    <3>2. told[p] = "open" \/ EndedAfter(p, i + 1)
      BY <2>4, <3>1 DEF OInv, EndIsOnItsWay
    <3>3. EndedAfter(p, i + 1) => EndedAfter(p, IF i + 1 = 0 THEN 0 ELSE i + 1 - 1)'
      BY <1>1, <1>4, <2>3, <3>1
    <3>4. (IF i + 1 = 0 THEN 0 ELSE i + 1 - 1) = i
      OBVIOUS
    <3> QED
      BY <3>2, <3>3, <3>4
  <2>5. \A p \in Questions : EndedAfter(p, 1) => EndedAfter(p, 0)'
    BY <1>1, <1>4, <2>3
  <2>6. ASSUME NEW p \in Questions, EndedAfter(p, 0),
               ~(kind = "resolved" /\ toOffice[s][1].q = p)
        PROVE  EndedAfter(p, 0)'
    BY <1>1, <1>4, <2>3, <2>6
  <2> QED
    BY <1>4, <2>2, <2>4, <2>5, <2>6
<1> QED
  BY <1>3, <1>4

LEMMA TakesRequestOInv ==
  ASSUME IInv, OInv, NEW s \in Sessions, TakesRequest(s) PROVE OInv'
<1>1. /\ Reads(s, "request") /\ s \in here
      /\ UNCHANGED <<told, outbox, link, joined, here, late>>
      /\ away \subseteq away'
      /\ \A r \in 1..(s - 1) : toOffice[r] = <<>>
  BY DEF TakesRequest, Reads, harness, OutOfPlace
<1>2. /\ toOffice' \in [Sessions -> Seq(News)]
      /\ \A r \in Sessions : r # s => toOffice'[r] = toOffice[r]
      /\ 1 \in 1..Len(toOffice[s]) /\ Head(toOffice[s]) = toOffice[s][1]
      /\ \A r \in Sessions : \A i \in 1..Len(toOffice'[r]) :
           \E j \in 1..Len(toOffice[r]) : toOffice'[r][i] = toOffice[r][j]
  BY <1>1, ReadingIsTaking DEF OInv
<1>3. s \in 1..joined /\ toOffice[s] # <<>> /\ toOffice[s][1].kind = "request"
  BY <1>1, <1>2 DEF OInv, OfficeTyped, Reads
<1>4. /\ \A r \in Sessions : toOffice[r] = <<>> => toOffice'[r] = <<>>
      /\ \A r \in Sessions : r < s => toOffice[r] = <<>> /\ toOffice'[r] = <<>>
  <2>1. \A r \in Sessions : r < s => r \in 1..(s - 1) /\ r # s
    BY DEF Sessions
  <2> QED
    BY <1>1, <1>2, <1>3, <2>1
<1>5. PICK q \in Questions :
        /\ toOffice[s][1].q = q
        /\ \/ q \notin ZoneQuestions /\ Keeps(q, s) /\ UNCHANGED reading
           \/ /\ q \in ZoneQuestions
              /\ reading' = reading \cup {<<q, s>>}
              /\ UNCHANGED <<cards, toAgent>>
           \/ q \in away' /\ UNCHANGED <<cards, toAgent, reading>>
  BY <1>2 DEF TakesRequest, OutOfPlace
<1>6. told[q] # "unasked"
  BY <1>2, <1>5 DEF OInv, AskedFirst
<1>7. link # 0 =>
        /\ \A p \in Questions : Requested(p) =>
             Requested(p)' \/ (s = link /\ p = q)
        /\ \A p \in Questions : EndedAfter(p, 0) => EndedAfter(p, 0)'
        /\ s = link => \A p \in Questions : EndedAfter(p, 1) => EndedAfter(p, 0)'
        /\ \A p \in Questions : \A i \in 1..Len(toOffice'[link]) :
             toOffice'[link][i].kind = "request" /\ toOffice'[link][i].q = p =>
               told[p] = "open" \/ EndedAfter(p, i)'
  BY <1>1, <1>5, ReadingOn
<1>8. CASE q \in ZoneQuestions /\ reading' = reading \cup {<<q, s>>} /\ UNCHANGED <<cards, toAgent>>
  <2>1. OfficeTyped'
    <3>1. reading' \subseteq ZoneQuestions \X (1..joined)
      BY <1>3, <1>8 DEF OInv, OfficeTyped
    <3> QED
      BY <1>1, <1>2, <1>4, <1>8, <3>1 DEF OInv, OfficeTyped, Cards
  <2>2. ReadInOrder'
    <3>1. ASSUME NEW p \in Cards, NEW r \in Sessions, r < cards[p].owner
          PROVE  toOffice'[r] = <<>> /\ <<p, r>> \notin reading'
      BY <1>3, <1>4, <1>8, <3>1 DEF OInv, ReadInOrder
    <3>2. ASSUME NEW e \in reading', NEW r \in Sessions, r < e[2] PROVE toOffice'[r] = <<>>
      BY <1>4, <1>8, <3>2 DEF OInv, ReadInOrder
    <3> QED
      BY <1>8, <3>1, <3>2 DEF ReadInOrder, Cards
  <2>3. OverIsOver' /\ AskedFirst'
    <3>1. \A r \in Sessions : \A i \in 1..Len(toOffice'[r]) :
            /\ told[toOffice'[r][i].q] # "unasked"
            /\ toOffice'[r][i].kind = "resolved" => told[toOffice'[r][i].q] \in Answers
      BY <1>1, <1>2, SaidStaysTrue DEF OInv
    <3>2. \A e \in reading' : told[e[1]] # "unasked"
      BY <1>6, <1>8 DEF OInv, AskedFirst
    <3> QED
      BY <1>1, <1>8, <3>1, <3>2 DEF OInv, OverIsOver, AskedFirst, Cards
  <2>4. HolderIsHere' /\ EndIsOnItsWay'
    BY <1>1, <1>7, <1>8 DEF OInv, HolderIsHere, EndIsOnItsWay, Cards, Waiting
  <2>5. ShownOrOnItsWay'
    <3> SUFFICES ASSUME link # 0, NEW p \in Questions, told[p] = "open", p \notin late \cup away
                 PROVE  \/ Requested(p)' \/ <<p, link>> \in reading' \/ Refused(p)'
                        \/ p \in Cards /\ Waiting(p) /\ cards[p].owner = link
      BY <1>1, <1>8 DEF ShownOrOnItsWay, Cards, Waiting
    <3>1. Refused(p) => Refused(p)'
      BY <1>1, <1>8 DEF Refused
    <3> QED
      BY <1>7, <1>8, <3>1 DEF OInv, ShownOrOnItsWay
  <2> QED
    BY <2>1, <2>2, <2>3, <2>4, <2>5 DEF OInv
<1>9. CASE q \notin ZoneQuestions /\ Keeps(q, s) /\ UNCHANGED reading
  <2>1. OfficeTyped' /\ ReadInOrder' /\ OverIsOver' /\ AskedFirst'
    <3>1. \A r \in Sessions : <<q, r>> \notin reading
      BY <1>9 DEF OInv, OfficeTyped
    <3> QED
      BY <1>1, <1>2, <1>3, <1>4, <1>6, <1>9, <3>1, KeptCardsInv
  <2>2. \A p \in Cards' : \/ p \in Cards /\ cards'[p] = cards[p]
                          \/ p = q /\ cards'[p].end = "open" /\ cards'[p].owner = s
    BY <1>3, <1>9, KeepingACard DEF Cards
  <2>3. HolderIsHere'
    BY <1>1, <2>2 DEF OInv, HolderIsHere, Waiting
  <2>4. EndIsOnItsWay'
    <3> SUFFICES ASSUME link # 0 PROVE EndIsOnItsWay'
      BY <1>1 DEF EndIsOnItsWay
    <3>1. ASSUME NEW p \in Cards' \ ZoneQuestions, cards'[p].end = "open", cards'[p].owner = link
          PROVE  told[p] = "open" \/ EndedAfter(p, 0)'
      <4>1. CASE p \in Cards /\ cards'[p] = cards[p]
        <5>1. told[p] = "open" \/ EndedAfter(p, 0)
          BY <3>1, <4>1 DEF OInv, EndIsOnItsWay, Waiting
        <5> QED
          BY <1>7, <4>1, <5>1 DEF Cards
      <4>2. CASE p = q /\ cards'[p].owner = s
        <5>1. told[q] = "open" \/ EndedAfter(q, 1)
          BY <1>2, <1>3, <1>5, <3>1, <4>2 DEF OInv, EndIsOnItsWay
        <5> QED
          BY <1>7, <3>1, <4>2, <5>1
      <4> QED
        BY <2>2, <4>1, <4>2
    <3> QED
      BY <1>1, <1>7, <3>1 DEF EndIsOnItsWay, Waiting
  <2>5. ShownOrOnItsWay'
    <3> SUFFICES ASSUME link # 0, NEW p \in Questions, told[p] = "open", p \notin late \cup away
                 PROVE  \/ Requested(p)' \/ <<p, link>> \in reading \/ Refused(p)'
                        \/ p \in Cards' /\ cards'[p].end = "open" /\ cards'[p].owner = link
      BY <1>1, <1>9 DEF ShownOrOnItsWay, Waiting
    <3>1. /\ Refused(p) => Refused(p)'
          /\ s = link /\ p = q =>
               \/ Refused(p)'
               \/ p \in Cards' /\ cards'[p].end = "open" /\ cards'[p].owner = link
      BY <1>1, <1>3, <1>9, KeptIsShown
    <3>2. CASE s = link /\ p = q
      BY <3>1, <3>2
    <3>3. CASE ~(s = link /\ p = q) /\ ~(p \in Cards /\ Waiting(p) /\ cards[p].owner = link)
      BY <1>7, <3>1, <3>3 DEF OInv, ShownOrOnItsWay
    <3>4. CASE p # q /\ p \in Cards /\ Waiting(p) /\ cards[p].owner = link
      <4>1. cards'[p] = cards[p]
        BY <1>3, <1>9, <3>4, KeepingACard
      <4> QED
        BY <3>4, <4>1 DEF Cards, Waiting
    <3>5. CASE s # link /\ p = q /\ p \in Cards /\ Waiting(p) /\ cards[p].owner = link
      <4>1. s < link
        <5>1. link = joined /\ link \in Sessions
          BY LinkIsASession DEF OInv
        <5> QED
          BY <1>3, <3>5, <5>1 DEF Sessions
      <4>2. FALSE
        BY <1>3, <3>5, <4>1 DEF OInv, ReadInOrder
      <4> QED
        BY <4>2
    <3> QED
      BY <3>2, <3>3, <3>4, <3>5
  <2> QED
    BY <2>1, <2>3, <2>4, <2>5 DEF OInv
<1>10. CASE q \in away' /\ UNCHANGED <<cards, toAgent, reading>>
  <2>1. OfficeTyped'
    BY <1>1, <1>2, <1>4, <1>10 DEF OInv, OfficeTyped, Cards
  <2>2. ReadInOrder'
    BY <1>4, <1>10 DEF OInv, ReadInOrder, Cards
  <2>3. OverIsOver' /\ AskedFirst'
    <3>1. \A r \in Sessions : \A i \in 1..Len(toOffice'[r]) :
            /\ told[toOffice'[r][i].q] # "unasked"
            /\ toOffice'[r][i].kind = "resolved" => told[toOffice'[r][i].q] \in Answers
      BY <1>1, <1>2, SaidStaysTrue DEF OInv
    <3> QED
      BY <1>1, <1>10, <3>1 DEF OInv, OverIsOver, AskedFirst, Cards
  <2>4. HolderIsHere' /\ EndIsOnItsWay'
    BY <1>1, <1>7, <1>10 DEF OInv, HolderIsHere, EndIsOnItsWay, Cards, Waiting
  <2>5. ShownOrOnItsWay'
    <3> SUFFICES ASSUME link # 0, NEW p \in Questions, told[p] = "open",
                        p \notin late \cup away'
                 PROVE  \/ Requested(p)' \/ <<p, link>> \in reading \/ Refused(p)'
                        \/ p \in Cards /\ Waiting(p) /\ cards[p].owner = link
      BY <1>1, <1>10 DEF ShownOrOnItsWay, Cards, Waiting
    <3>1. Refused(p) => Refused(p)'
      BY <1>1, <1>10 DEF Refused
    <3>2. p # q /\ p \notin late \cup away
      BY <1>1, <1>10
    <3> QED
      BY <1>7, <3>1, <3>2 DEF OInv, ShownOrOnItsWay
  <2> QED
    BY <2>1, <2>2, <2>3, <2>4, <2>5 DEF OInv
<1> QED
  BY <1>5, <1>8, <1>9, <1>10

LEMMA TakesResolvedOInv ==
  ASSUME IInv, OInv, NEW s \in Sessions, TakesResolved(s) PROVE OInv'
<1> DEFINE msg == toOffice[s][1]
<1>1. /\ Reads(s, "resolved")
      /\ UNCHANGED <<told, outbox, link, joined, toAgent, here, reading, late, away>>
  BY DEF TakesResolved, harness
<1>2. /\ toOffice' \in [Sessions -> Seq(News)]
      /\ \A r \in Sessions : r # s => toOffice'[r] = toOffice[r]
      /\ 1 \in 1..Len(toOffice[s]) /\ Head(toOffice[s]) = msg /\ msg \in News
      /\ \A r \in Sessions : \A i \in 1..Len(toOffice'[r]) :
           \E j \in 1..Len(toOffice[r]) : toOffice'[r][i] = toOffice[r][j]
  BY <1>1, ReadingIsTaking DEF OInv
<1>3. toOffice[s] # <<>> /\ msg.kind = "resolved" /\ msg.q \in Questions /\ msg.how \in Endings
  BY <1>1, <1>2 DEF Reads, News
<1>4. \A r \in Sessions : toOffice[r] = <<>> => toOffice'[r] = <<>>
  BY <1>2, <1>3
<1>5. told[msg.q] \in Answers /\ told[msg.q] # "open"
  BY <1>2, <1>3 DEF OInv, OverIsOver, Answers
<1>6. cards' = IF ClosedBy(msg.q, s) THEN [cards EXCEPT ![msg.q].end = msg.how] ELSE cards
  BY <1>2 DEF TakesResolved
<1> HIDE DEF msg
<1>7. /\ cards' \in [Questions -> Made \cup {NoCard}] /\ Cards' = Cards
      /\ \A p \in Questions : p # msg.q => cards'[p] = cards[p]
      /\ \A p \in Cards : cards'[p].owner = cards[p].owner
      /\ msg.q \in Cards => cards'[msg.q] = cards[msg.q] \/ cards'[msg.q].end \in Endings
      /\ msg.q \in Cards /\ Waiting(msg.q) /\ cards[msg.q].owner = s => cards'[msg.q].end \in Endings
  <2>1. CASE ~ClosedBy(msg.q, s)
    <3>1. cards' = cards
      BY <1>6, <2>1
    <3> QED
      BY <2>1, <3>1 DEF OInv, OfficeTyped, Cards, ClosedBy
  <2>2. CASE ClosedBy(msg.q, s)
    <3> DEFINE down == [cards[msg.q] EXCEPT !.end = msg.how]
    <3>1. msg.q \in Cards /\ cards[msg.q] \in Made
      BY <2>2 DEF ClosedBy, OInv, OfficeTyped, Cards
    <3>2. /\ down \in Made /\ down.owner = cards[msg.q].owner /\ down.end \in Endings
          /\ NoCard \notin Made
      BY <1>3, <3>1 DEF Made, NoCard, Endings
    <3>3. cards' = [cards EXCEPT ![msg.q] = down]
      BY <1>6, <2>2
    <3> HIDE DEF down
    <3>4. cards'[msg.q] = down /\ cards' \in [Questions -> Made \cup {NoCard}]
      BY <1>3, <3>2, <3>3 DEF OInv, OfficeTyped
    <3>5. \A p \in Questions : p # msg.q => cards'[p] = cards[p]
      BY <3>3 DEF OInv, OfficeTyped
    <3> QED
      BY <3>1, <3>2, <3>4, <3>5 DEF Cards
  <2> QED
    BY <2>1, <2>2
<1>8. \A p \in Cards : cards'[p].end = "open" => cards'[p] = cards[p]
  BY <1>7 DEF Cards, Endings
<1>9. OfficeTyped'
  BY <1>1, <1>2, <1>4, <1>7 DEF OInv, OfficeTyped
<1>10. ReadInOrder'
  BY <1>1, <1>4, <1>7 DEF OInv, ReadInOrder
<1>11. OverIsOver' /\ AskedFirst'
  <2>1. \A r \in Sessions : \A i \in 1..Len(toOffice'[r]) :
          /\ told[toOffice'[r][i].q] # "unasked"
          /\ toOffice'[r][i].kind = "resolved" => told[toOffice'[r][i].q] \in Answers
    <3> SUFFICES ASSUME NEW r \in Sessions, NEW i \in 1..Len(toOffice'[r])
                 PROVE  /\ told[toOffice'[r][i].q] # "unasked"
                        /\ toOffice'[r][i].kind = "resolved" => told[toOffice'[r][i].q] \in Answers
      OBVIOUS
    <3>1. PICK j \in 1..Len(toOffice[r]) : toOffice'[r][i] = toOffice[r][j]
      BY <1>2
    <3>2. /\ told[toOffice[r][j].q] # "unasked"
          /\ toOffice[r][j].kind = "resolved" => told[toOffice[r][j].q] \in Answers
      BY <3>1 DEF OInv, OverIsOver, AskedFirst
    <3> QED BY <3>1, <3>2
  <2>2. \A p \in Cards :
          told[p] = "open" /\ p \notin late => cards'[p].end \in {"open", "interrupted"}
    BY <1>5, <1>7 DEF OInv, OverIsOver, Cards
  <2> QED
    BY <1>1, <1>7, <2>1, <2>2 DEF OInv, OverIsOver, AskedFirst
<1>12. HolderIsHere'
  BY <1>1, <1>7, <1>8 DEF OInv, HolderIsHere, Waiting
<1>13. ShownOrOnItsWay'
  <2> SUFFICES ASSUME link # 0, NEW p \in Questions, told[p] = "open", p \notin late \cup away
               PROVE  \/ Requested(p)' \/ <<p, link>> \in reading \/ Refused(p)'
                      \/ p \in Cards /\ cards'[p].end = "open" /\ cards'[p].owner = link
    BY <1>1, <1>7 DEF ShownOrOnItsWay, Waiting
  <2>1. Requested(p) => Requested(p)'
    BY <1>1, ReadingOn
  <2>2. Refused(p) => Refused(p)'
    BY <1>1 DEF Refused
  <2>3. cards'[p] = cards[p]
    BY <1>5, <1>7
  <2> QED
    BY <2>1, <2>2, <2>3 DEF OInv, ShownOrOnItsWay, Waiting
<1>14. EndIsOnItsWay'
  <2> SUFFICES ASSUME link # 0 PROVE EndIsOnItsWay'
    BY <1>1 DEF EndIsOnItsWay
  <2>1. /\ \A p \in Questions : EndedAfter(p, 0) => EndedAfter(p, 0)' \/ (s = link /\ msg.q = p)
        /\ \A p \in Questions : \A i \in 1..Len(toOffice'[link]) :
             toOffice'[link][i].kind = "request" /\ toOffice'[link][i].q = p =>
               told[p] = "open" \/ EndedAfter(p, i)'
    BY <1>1, ReadingOn DEF msg
  <2>2. ASSUME NEW p \in Cards \ ZoneQuestions, cards'[p].end = "open", cards'[p].owner = link
        PROVE  told[p] = "open" \/ EndedAfter(p, 0)'
    <3>1. Waiting(p) /\ cards[p].owner = link
      BY <1>8, <2>2 DEF Waiting
    <3>2. told[p] = "open" \/ EndedAfter(p, 0)
      BY <2>2, <3>1 DEF OInv, EndIsOnItsWay
    <3>3. ~(s = link /\ msg.q = p)
      BY <1>7, <2>2, <3>1 DEF Endings
    <3> QED
      BY <2>1, <3>2, <3>3 DEF Cards
  <2> QED
    BY <1>1, <1>7, <2>1, <2>2 DEF EndIsOnItsWay, Waiting
<1> QED
  BY <1>9, <1>10, <1>11, <1>12, <1>13, <1>14 DEF OInv

\* Cards that end as "interrupted" or "lapsed", are forgotten, or are handed
\* an answer, keep their holder; of the others nothing changes.  A card of an
\* open question of the session in use that is not late stays up.
LEMMA EndingCardsOInv ==
  ASSUME IInv, OInv,
         UNCHANGED <<told, outbox, link, joined, toOffice, reading>>,
         here' \subseteq here, link # 0 => link \in here', late \subseteq late', away \subseteq away',
         link # 0 => \A p \in Questions : Refused(p) => Refused(p)',
         cards' \in [Questions -> Made \cup {NoCard}],
         \A p \in Questions :
           \/ cards'[p] = cards[p]
           \/ cards'[p] = NoCard
           \/ p \in Cards /\ cards'[p].owner = cards[p].owner
              /\ cards'[p].end \in {cards[p].end, "interrupted"}
           \/ p \in Cards /\ cards'[p].owner = cards[p].owner
              /\ cards'[p].end = "lapsed" /\ p \in late,
         \A p \in Cards : Waiting(p) /\ cards[p].owner \in here /\ p \notin late =>
           \/ p \in Cards' /\ cards'[p].end = "open"
           \/ cards[p].owner \notin here' /\ cards[p].owner # link,
         \A p \in Cards : Waiting(p) /\ cards[p].owner \in here \ here' => cards'[p].end # "open"
  PROVE  OInv'
<1>1. \A p \in Cards' : p \in Cards /\ cards'[p].owner = cards[p].owner
  BY DEF OInv, OfficeTyped, Cards
<1>2. OfficeTyped'
  BY <1>1 DEF OInv, OfficeTyped
<1>3. ReadInOrder'
  BY <1>1 DEF OInv, ReadInOrder
<1>4. OverIsOver' /\ AskedFirst'
  <2>1. ASSUME NEW p \in Cards', told[p] = "open", p \notin late'
        PROVE  cards'[p].end \in {"open", "interrupted"}
    <3>1. p \in Cards /\ p \notin late /\ cards[p].end \in {"open", "interrupted"}
      BY <1>1, <2>1 DEF OInv, OverIsOver
    <3>2. cards'[p] # NoCard
      BY <2>1 DEF Cards
    <3> QED
      BY <3>1, <3>2 DEF Cards
  <2> QED
    BY <1>1, <2>1 DEF OInv, OverIsOver, AskedFirst
<1>5. \A p \in Cards' : cards'[p].end = "open" => Waiting(p)
  BY <1>1 DEF Waiting, Cards
<1>6. HolderIsHere'
  BY <1>1, <1>5 DEF OInv, HolderIsHere, Waiting
<1>7. EndIsOnItsWay'
  BY <1>1, <1>5 DEF OInv, EndIsOnItsWay, Waiting, EndedAfter
<1>8. ShownOrOnItsWay'
  <2> SUFFICES ASSUME link # 0, NEW p \in Questions, told[p] = "open", p \notin late \cup away
               PROVE  \/ Requested(p) \/ <<p, link>> \in reading \/ Refused(p)'
                      \/ p \in Cards' /\ cards'[p].end = "open" /\ cards'[p].owner = link
    BY DEF ShownOrOnItsWay, Requested, Waiting
  <2>1. link \in here
    BY DEF OInv, OfficeTyped
  <2> QED
    BY <1>1, <2>1 DEF OInv, ShownOrOnItsWay
<1> QED
  BY <1>2, <1>3, <1>4, <1>6, <1>7, <1>8 DEF OInv

\* A card with another end, or one that was handed an answer, is a card.
LEMMA CardsStayCards ==
  ASSUME OfficeTyped, NEW q \in Cards
  PROVE  /\ cards[q] \in Made /\ NoCard \notin Made
         /\ \A how \in Endings : LET c == [cards[q] EXCEPT !.end = how] IN
              c \in Made /\ c.end = how /\ c.owner = cards[q].owner
         /\ LET c == [cards[q] EXCEPT !.decided = TRUE] IN
              c \in Made /\ c.end = cards[q].end /\ c.owner = cards[q].owner
<1>1. cards[q] \in Made /\ NoCard \notin Made
  BY DEF OfficeTyped, Cards, Made, NoCard, Endings
<1> QED
  BY <1>1 DEF Made

LEMMA InterruptedCards ==
  ASSUME OfficeTyped, NEW qs \in SUBSET Cards, Interrupted(qs)
  PROVE  /\ cards' \in [Questions -> Made \cup {NoCard}] /\ Cards' = Cards
         /\ \A p \in Questions : p \notin qs => cards'[p] = cards[p]
         /\ \A p \in qs : cards'[p].end = "interrupted" /\ cards'[p].owner = cards[p].owner
<1>1. \A p \in Questions :
        cards'[p] = IF p \in qs THEN [cards[p] EXCEPT !.end = "interrupted"] ELSE cards[p]
  BY DEF Interrupted
<1>2. ASSUME NEW p \in qs
      PROVE  /\ cards'[p] \in Made /\ NoCard \notin Made
             /\ cards'[p].end = "interrupted" /\ cards'[p].owner = cards[p].owner
  <2>1. p \in Cards /\ p \in Questions /\ "interrupted" \in Endings
    BY DEF Cards, Endings
  <2>2. cards'[p] = [cards[p] EXCEPT !.end = "interrupted"]
    BY <1>1, <2>1
  <2> DEFINE c == [cards[p] EXCEPT !.end = "interrupted"]
  <2>3. c \in Made /\ NoCard \notin Made /\ c.end = "interrupted" /\ c.owner = cards[p].owner
    BY <2>1, CardsStayCards
  <2> HIDE DEF c
  <2> QED
    BY <2>2, <2>3 DEF c
<1>3. \A p \in Questions : cards'[p] \in Made \cup {NoCard}
  BY <1>1, <1>2 DEF OfficeTyped
<1>4. cards' \in [Questions -> Made \cup {NoCard}]
  BY <1>3 DEF Interrupted
<1> QED
  BY <1>1, <1>2, <1>4 DEF Cards

LEMMA LeavesOInv == ASSUME IInv, OInv, NEW s \in Sessions, Leaves(s) PROVE OInv'
<1>1. /\ s \in here /\ s # link /\ here' = here \ {s} /\ Interrupted(Mine(s))
      /\ UNCHANGED <<told, outbox, link, joined, toOffice, toAgent, reading, late, away>>
  BY DEF Leaves, TakesDown, harness
<1>2. Mine(s) \in SUBSET Cards
  BY DEF Mine
<1>3. /\ cards' \in [Questions -> Made \cup {NoCard}] /\ Cards' = Cards
      /\ \A p \in Questions : p \notin Mine(s) => cards'[p] = cards[p]
      /\ \A p \in Mine(s) : cards'[p].end = "interrupted" /\ cards'[p].owner = cards[p].owner
  BY <1>1, <1>2, InterruptedCards DEF OInv
<1>4. \A p \in Questions : \/ cards'[p] = cards[p]
                           \/ /\ p \in Cards /\ cards'[p].owner = cards[p].owner
                              /\ cards'[p].end = "interrupted"
  BY <1>2, <1>3
<1>5. ASSUME NEW p \in Cards, Waiting(p)
      PROVE  /\ cards[p].owner = s => cards'[p].end = "interrupted"
             /\ cards[p].owner # s => p \in Cards' /\ cards'[p].end = "open"
  BY <1>3, <1>5 DEF Mine, Cards, Waiting
<1>6. \A p \in Questions : Refused(p) => Refused(p)'
  BY <1>1 DEF Refused
<1>7. link # 0 => link \in here'
  BY <1>1 DEF OInv, OfficeTyped
<1> QED
  BY <1>1, <1>3, <1>4, <1>5, <1>6, <1>7, EndingCardsOInv

LEMMA ClickOInv ==
  ASSUME IInv, OInv, NEW q \in Questions, NEW a \in Answers, Click(q, a) PROVE OInv'
<1> DEFINE s == cards[q].owner
<1>1. /\ q \in Cards /\ Waiting(q)
      /\ UNCHANGED <<told, outbox, link, joined, toOffice, here, reading, late, away>>
  BY DEF Click, harness
<1>2. link # 0 => link \in here
  BY DEF OInv, OfficeTyped
<1>3. CASE /\ s \in here
           /\ cards' = [cards EXCEPT ![q].decided = TRUE]
           /\ toAgent' = SentTo(s, Decision(q, a))
  <2> DEFINE c == [cards[q] EXCEPT !.decided = TRUE]
  <2>1. c \in Made /\ c.end = cards[q].end /\ c.owner = cards[q].owner /\ NoCard \notin Made
    BY <1>1, CardsStayCards DEF OInv
  <2>2. cards' = [cards EXCEPT ![q] = c]
    BY <1>3
  <2> HIDE DEF c
  <2>3. /\ cards' \in [Questions -> Made \cup {NoCard}] /\ cards'[q] = c
        /\ \A p \in Questions : p # q => cards'[p] = cards[p]
    BY <2>1, <2>2 DEF OInv, OfficeTyped
  <2>4. Decision(q, a) \in Words
    BY DEF Decision, Words
  <2>5. link # 0 => \A p \in Questions : Refused(p) => Refused(p)'
    BY <1>1, <1>3, <2>4, WordsStay
  <2>6. \A p \in Questions : \/ cards'[p] = cards[p]
                             \/ /\ p \in Cards /\ cards'[p].owner = cards[p].owner
                                /\ cards'[p].end = cards[p].end
    BY <1>1, <2>1, <2>3
  <2>7. \A p \in Cards : Waiting(p) => p \in Cards' /\ cards'[p].end = "open"
    BY <2>1, <2>3 DEF Cards, Waiting
  <2> QED
    BY <1>1, <1>2, <2>3, <2>5, <2>6, <2>7, EndingCardsOInv
<1>4. CASE s \notin here /\ Interrupted({q}) /\ UNCHANGED toAgent
  <2>1. /\ cards' \in [Questions -> Made \cup {NoCard}] /\ Cards' = Cards
        /\ \A p \in Questions : p # q => cards'[p] = cards[p]
        /\ cards'[q].end = "interrupted" /\ cards'[q].owner = cards[q].owner
    BY <1>1, <1>4, InterruptedCards DEF OInv
  <2>2. \A p \in Questions : Refused(p) => Refused(p)'
    BY <1>1, <1>4 DEF Refused
  <2>3. \A p \in Questions : \/ cards'[p] = cards[p]
                             \/ /\ p \in Cards /\ cards'[p].owner = cards[p].owner
                                /\ cards'[p].end = "interrupted"
    BY <1>1, <2>1
  <2>4. \A p \in Cards : Waiting(p) /\ cards[p].owner \in here =>
          p \in Cards' /\ cards'[p].end = "open"
    BY <1>4, <2>1 DEF Cards, Waiting
  <2> QED
    BY <1>1, <1>2, <2>1, <2>2, <2>3, <2>4, EndingCardsOInv
<1> QED
  BY <1>3, <1>4 DEF Click

LEMMA ClocksOInv ==
  ASSUME IInv, OInv, NEW q \in Questions, Late(q) \/ Expires(q) \/ Forgets(q) PROVE OInv'
<1>1. /\ UNCHANGED <<told, outbox, link, joined, toOffice, toAgent, here, reading, away>>
      /\ late \subseteq late'
  BY DEF Late, Expires, Forgets, harness, office
<1>2. \A p \in Questions : Refused(p) => Refused(p)'
  BY <1>1 DEF Refused
<1>3. link # 0 => link \in here
  BY DEF OInv, OfficeTyped
<1>4. CASE Late(q)
  <2>1. UNCHANGED cards
    BY <1>4 DEF Late, office
  <2>2. cards' \in [Questions -> Made \cup {NoCard}] /\ Cards' = Cards
    BY <2>1 DEF OInv, OfficeTyped, Cards
  <2> QED
    BY <1>1, <1>2, <1>3, <2>1, <2>2, EndingCardsOInv DEF Waiting
<1>5. CASE Expires(q)
  <2> DEFINE c == [cards[q] EXCEPT !.end = "lapsed"]
  <2>1. q \in Cards /\ Waiting(q) /\ q \in late /\ cards' = [cards EXCEPT ![q] = c]
    BY <1>5 DEF Expires, Stale
  <2>2. "lapsed" \in Endings
    BY DEF Endings
  <2>3. c \in Made /\ c.end = "lapsed" /\ c.owner = cards[q].owner
    BY <2>1, <2>2, CardsStayCards DEF OInv
  <2> HIDE DEF c
  <2>4. /\ cards' \in [Questions -> Made \cup {NoCard}] /\ cards'[q] = c
        /\ \A p \in Questions : p # q => cards'[p] = cards[p]
    BY <2>1, <2>3 DEF OInv, OfficeTyped
  <2>5. \A p \in Questions :
          \/ cards'[p] = cards[p]
          \/ /\ p \in Cards /\ cards'[p].owner = cards[p].owner
             /\ cards'[p].end = "lapsed" /\ p \in late
    BY <2>1, <2>3, <2>4
  <2>6. \A p \in Cards : Waiting(p) /\ p \notin late => p \in Cards' /\ cards'[p].end = "open"
    BY <2>1, <2>4 DEF Cards, Waiting
  <2> QED
    BY <1>1, <1>2, <1>3, <2>4, <2>5, <2>6, EndingCardsOInv
<1>6. CASE Forgets(q)
  <2>1. q \in Cards /\ ~Waiting(q) /\ cards' = [cards EXCEPT ![q] = NoCard]
    BY <1>6 DEF Forgets
  <2>2. /\ cards' \in [Questions -> Made \cup {NoCard}] /\ cards'[q] = NoCard
        /\ \A p \in Questions : p # q => cards'[p] = cards[p]
    BY <2>1 DEF OInv, OfficeTyped
  <2>3. \A p \in Questions : cards'[p] = cards[p] \/ cards'[p] = NoCard
    BY <2>2
  <2>4. \A p \in Cards : Waiting(p) => p \in Cards' /\ cards'[p].end = "open"
    BY <2>1, <2>2 DEF Cards, Waiting
  <2> QED
    BY <1>1, <1>2, <1>3, <2>2, <2>3, <2>4, EndingCardsOInv
<1> QED
  BY <1>4, <1>5, <1>6

LEMMA InitOInv == Init => OInv
<1> SUFFICES ASSUME Init PROVE OInv
  OBVIOUS
<1>1. /\ told = [q \in Questions |-> "unasked"] /\ outbox = <<>>
      /\ link = 1 /\ joined = 1 /\ here = {1} /\ reading = {} /\ late = {}
      /\ toOffice = [s \in Sessions |-> <<>>] /\ cards = [q \in Questions |-> NoCard]
  BY DEF Init
<1>2. Cards = {} /\ \A s \in Sessions : toOffice[s] = <<>> /\ Len(toOffice[s]) = 0
  BY <1>1 DEF Cards
<1>3. 1 \in Sessions /\ toOffice[1] = <<>> /\ toAgent[1] = <<>>
  BY <1>1, BoundsAssumption DEF Init, Sessions
<1>4. OfficeTyped
  <2>1. toOffice \in [Sessions -> Seq(News)] /\ outbox \in Seq(Ended)
    BY <1>1
  <2>2. cards \in [Questions -> Made \cup {NoCard}]
    BY <1>1
  <2> QED
    BY <1>1, <1>2, <2>1, <2>2 DEF OfficeTyped
<1>5. ReadInOrder /\ OverIsOver /\ AskedFirst
  BY <1>1, <1>2 DEF ReadInOrder, OverIsOver, AskedFirst
<1>6. ShownOrOnItsWay /\ HolderIsHere
  BY <1>1, <1>2 DEF ShownOrOnItsWay, HolderIsHere
<1>7. EndIsOnItsWay
  BY <1>1, <1>2, <1>3 DEF EndIsOnItsWay
<1> QED
  BY <1>4, <1>5, <1>6, <1>7 DEF OInv

LEMMA StepOInv == IInv /\ OInv /\ [Next]_vars => OInv'
<1> SUFFICES ASSUME IInv, OInv, [Next]_vars PROVE OInv'
  OBVIOUS
<1>1. CASE UNCHANGED vars
  <2>1. OfficeTyped' /\ ReadInOrder' /\ OverIsOver' /\ AskedFirst'
    BY <1>1 DEF OInv, vars, OfficeTyped, ReadInOrder, OverIsOver, AskedFirst, Cards
  <2>2. ShownOrOnItsWay' /\ HolderIsHere' /\ EndIsOnItsWay'
    BY <1>1 DEF OInv, vars, ShownOrOnItsWay, HolderIsHere, EndIsOnItsWay, Cards, Waiting,
                Requested, Refused, EndedAfter
  <2> QED
    BY <2>1, <2>2 DEF OInv
<1>2. CASE Next
  BY <1>2, AsksOInv, TimeoutSweptTypedOInv, ClocksOInv, ClickOInv, ZoneReadOInv,
     TakesRequestOInv, TakesResolvedOInv, LeavesOInv, HearsOInv, DropOInv, RejoinOInv,
     RestartOInv DEF Next
<1> QED
  BY <1>1, <1>2

\* A question still open has a card once all that was said is heard, whatever
\* happened to the sockets and the office meanwhile, until its deadline -- if
\* the agent is where it asked it (#onApprovalRequest, the replay).
THEOREM OpenQuestionsHaveCards == Spec => []OpenQuestionsAreShown
<1>1. IInv /\ OInv => OpenQuestionsAreShown
  <2> SUFFICES ASSUME IInv, OInv, Quiet, NEW q \in Questions, told[q] = "open", q \notin late \cup away
               PROVE  q \in Cards /\ Waiting(q)
    BY DEF OpenQuestionsAreShown
  <2>1. link # 0 /\ reading = {} /\ toOffice[link] = <<>> /\ toAgent[link] = <<>>
    BY DEF Quiet
  <2>2. ~Requested(q) /\ ~Refused(q)
    BY <2>1 DEF Requested, Refused
  <2> QED
    BY <2>1, <2>2 DEF OInv, ShownOrOnItsWay
<1>2. QED
  BY <1>1, InitInv, StepInv, InitOInv, StepOInv, PTL DEF Spec

\* A card that waits, of a question not asked in a zone, is one whose answer
\* reaches the runtime that asked.
THEOREM NoButtonLandsNowhere == Spec => []ButtonsReachTheRuntime
<1>1. IInv /\ OInv => ButtonsReachTheRuntime
  <2> SUFFICES ASSUME IInv, OInv, Quiet, NEW q \in Cards \ ZoneQuestions, Waiting(q)
               PROVE  told[q] = "open" /\ cards[q].owner = link
    BY DEF ButtonsReachTheRuntime, ReachesTheRuntime
  <2>1. link # 0 /\ here = {link} /\ toOffice[link] = <<>>
    BY DEF Quiet
  <2>2. cards[q].owner = link
    BY <2>1 DEF OInv, HolderIsHere
  <2>3. ~EndedAfter(q, 0)
    BY <2>1 DEF EndedAfter
  <2> QED
    BY <2>1, <2>2, <2>3 DEF OInv, EndIsOnItsWay
<1>2. QED
  BY <1>1, InitInv, StepInv, InitOInv, StepOInv, PTL DEF Spec

-----------------------------------------------------------------------------
(* The voices: what every reachable state satisfies.                       *)

Table == [Bytes -> People \cup {Nobody}]

Message == [is : {"peers"}, joined : SUBSET (Bytes \X People), gone : SUBSET People]
           \cup [is : {"frame"}, byte : Bytes, from : People] \cup [is : {"close"}]

Socket == [at : {"none", "hello", "checking", "bound", "shut"}, cut : BOOLEAN,
           knows : Table, wire : Seq(Message)]

\* What a page's table is after a message.
Applied(t, message) == IF message.is = "peers" THEN Told(t, message.joined, message.gone) ELSE t

\* The tables a page comes to have as the wire is read, from the one it has now:
\* each frame finds its sender, and the last is the relay's.
Follows(x, t) ==
  \E T \in Seq(Table) :
    /\ Len(T) = Len(x.wire) + 1 /\ T[1] = t
    /\ \A i \in 1..Len(x.wire) :
         /\ T[i + 1] = Applied(T[i], x.wire[i])
         /\ x.wire[i].is = "frame" => T[i][x.wire[i].byte] = x.wire[i].from
    /\ x.at # "shut" => T[Len(x.wire) + 1] = x.knows

\* Socket k of a session and its page.
SocketOK(x, pg, k) ==
  /\ x \in Socket
  /\ x.at = "none" => x = Unused
  /\ x.at \in {"hello", "checking"} => x.knows = NoTable /\ x.wire = <<>>
  /\ x.cut => x.wire = <<>>
  /\ pg.ws = k /\ ~x.cut => Follows(x, pg.peers)

Page == [want : BOOLEAN, ws : Sockets \cup {None}, peers : Table]

PagesOK == page \in [People -> Page] /\ \A p \in People : Holds(p, None) => page[p].peers = NoTable

SocketsOK ==
  /\ sock \in [People -> [Sockets -> Socket]]
  /\ \A p \in People, k \in Sockets : SocketOK(sock[p][k], page[p], k)

\* Only a socket let in is the session's.
ConnsOK ==
  /\ conns \in [People -> Sockets \cup {None}]
  /\ \A p \in People : conns[p] # None => sock[p][conns[p]].at = "bound"

GraphOK == pairs \subseteq Meet /\ hearers \in [People -> SUBSET People]

VoiceInv == PagesOK /\ SocketsOK /\ ConnsOK /\ GraphOK

-----------------------------------------------------------------------------
(* What one socket goes through.                                           *)

LEMMA UnusedIsTyped ==
  /\ Unused.at = "none" /\ ~Unused.cut /\ Unused.knows = NoTable /\ Unused.wire = <<>>
  /\ Unused \in Socket /\ NoTable \in Table
<1>1. NoTable \in Table
  BY DEF NoTable, Table
<1> QED BY <1>1 DEF Unused, Socket

LEMMA UnusedIsOK ==
  ASSUME NEW pg \in Page, NEW k \in Sockets, pg.ws = k => pg.peers = NoTable
  PROVE  SocketOK(Unused, pg, k) /\ Unused \in Socket
<1>1. NoTable \in Table
  BY UnusedIsTyped
<1>2. /\ Unused.at = "none" /\ ~Unused.cut /\ Unused.knows = NoTable /\ Unused.wire = <<>>
      /\ Unused \in Socket
  BY UnusedIsTyped
<1>3. ASSUME pg.ws = k PROVE Follows(Unused, pg.peers)
  <2> DEFINE T == <<NoTable>>
  <2>1. T \in Seq(Table) /\ Len(T) = 1 /\ T[1] = NoTable
    BY <1>1
  <2>2. Len(Unused.wire) = 0 /\ pg.peers = NoTable
    BY <1>2, <1>3
  <2>3. 1..Len(Unused.wire) = {} /\ Len(Unused.wire) + 1 = 1
    BY <2>2
  <2> HIDE DEF T
  <2> QED BY <1>2, <2>1, <2>2, <2>3 DEF Follows
<1> QED BY <1>2, <1>3 DEF SocketOK

\* A page that does not hold a socket asks nothing of it.
LEMMA LetGo ==
  ASSUME NEW x, NEW pg, NEW qg, NEW k, SocketOK(x, pg, k), qg.ws # k
  PROVE  SocketOK(x, qg, k)
BY DEF SocketOK

\* One more message, that leaves the page where the relay is.
LEMMA OneMore ==
  ASSUME NEW x \in Socket, NEW t \in Table, NEW y \in Socket, NEW message \in Message,
         Follows(x, t), x.at # "shut", y.wire = Append(x.wire, message),
         message.is = "frame" => x.knows[message.byte] = message.from,
         y.at # "shut" => y.knows = Applied(x.knows, message),
         Applied(x.knows, message) \in Table
  PROVE  Follows(y, t)
<1> DEFINE n == Len(x.wire)
           u == Applied(x.knows, message)
<1>1. PICK T \in Seq(Table) :
        /\ Len(T) = n + 1 /\ T[1] = t
        /\ \A i \in 1..n : /\ T[i + 1] = Applied(T[i], x.wire[i])
                           /\ x.wire[i].is = "frame" => T[i][x.wire[i].byte] = x.wire[i].from
        /\ T[n + 1] = x.knows
  BY DEF Follows
<1>2. /\ x.wire \in Seq(Message) /\ n \in Nat /\ Len(y.wire) = n + 1
      /\ y.wire[n + 1] = message /\ \A i \in 1..n : y.wire[i] = x.wire[i]
  BY DEF Socket
<1> DEFINE W == Append(T, u)
<1>3. /\ W \in Seq(Table) /\ Len(W) = n + 2 /\ W[n + 2] = u
      /\ \A i \in 1..n + 1 : W[i] = T[i]
  BY <1>1, <1>2
<1> HIDE DEF W, u, n
<1>4. ASSUME NEW i \in 1..n + 1
      PROVE  /\ W[i + 1] = Applied(W[i], y.wire[i])
             /\ y.wire[i].is = "frame" => W[i][y.wire[i].byte] = y.wire[i].from
  <2>1. CASE i = n + 1
    <3>1. W[i + 1] = u /\ W[i] = x.knows /\ y.wire[i] = message
      BY <1>1, <1>2, <1>3, <2>1
    <3> QED BY <3>1 DEF u
  <2>2. CASE i \in 1..n
    <3>1. i \in 1..n + 1 /\ i + 1 \in 1..n + 1
      BY <1>2, <2>2
    <3>2. W[i + 1] = T[i + 1] /\ W[i] = T[i]
      BY <1>3, <3>1
    <3>3. y.wire[i] = x.wire[i]
      BY <1>2, <2>2
    <3> QED BY <1>1, <2>2, <3>2, <3>3
  <2> QED BY <1>2, <2>1, <2>2
<1>5. Len(W) = Len(y.wire) + 1 /\ W[1] = t
  BY <1>1, <1>2, <1>3
<1>6. y.at # "shut" => W[Len(y.wire) + 1] = y.knows
  BY <1>2, <1>3 DEF u
<1>7. \A i \in 1..Len(y.wire) :
        /\ W[i + 1] = Applied(W[i], y.wire[i])
        /\ y.wire[i].is = "frame" => W[i][y.wire[i].byte] = y.wire[i].from
  BY <1>2, <1>4
<1> QED BY <1>3, <1>5, <1>6, <1>7 DEF Follows

\* A table the relay makes is what a page that is told of it makes.
LEMMA TellsTheTable ==
  ASSUME NEW t \in Table, NEW gone \in SUBSET People, NEW come \in SUBSET People,
         gone \cap come = {}, NEW u \in TableOf(t, gone, come)
  PROVE  LET message == Peers(u, gone \cap Range(t), come) IN
         message \in Message /\ u \in Table /\ Applied(t, message) = u
<1> DEFINE departed == gone \cap Range(t)
           fresh == {<<i, u[i]>> : i \in {j \in Bytes : u[j] \in come}}
<1>1. u \in Table
  BY DEF TableOf, Table
<1>2. fresh \subseteq Bytes \X People /\ departed \subseteq People
  OBVIOUS
<1>3. Peers(u, departed, come) = [is |-> "peers", joined |-> fresh, gone |-> departed]
  BY DEF Peers
<1>4. Peers(u, departed, come) \in Message
  <2> HIDE DEF fresh, departed
  <2>1. [is |-> "peers", joined |-> fresh, gone |-> departed]
          \in [is : {"peers"}, joined : SUBSET (Bytes \X People), gone : SUBSET People]
    BY <1>2
  <2> QED BY <1>3, <2>1 DEF Message
<1>5. \A i \in Bytes, q \in People : <<i, q>> \in fresh <=> u[i] = q /\ q \in come
  OBVIOUS
<1> HIDE DEF fresh, departed
<1> DEFINE first == [i \in Bytes |-> IF \E q \in People : <<i, q>> \in fresh
                                     THEN CHOOSE q \in People : <<i, q>> \in fresh ELSE t[i]]
<1>6. ASSUME NEW i \in Bytes
      PROVE  first[i] = IF u[i] \in come THEN u[i] ELSE t[i]
  <2>1. CASE u[i] \in come
    <3>1. u[i] \in People /\ <<i, u[i]>> \in fresh
      BY <1>5, <2>1
    <3>2. (CHOOSE q \in People : <<i, q>> \in fresh) = u[i]
      <4> DEFINE v == CHOOSE q \in People : <<i, q>> \in fresh
      <4>1. v \in People /\ <<i, v>> \in fresh
        BY <3>1
      <4> QED BY <1>5, <4>1
    <3> QED BY <2>1, <3>1, <3>2
  <2>2. CASE u[i] \notin come
    BY <1>5, <2>2
  <2> QED BY <2>1, <2>2
<1>7. Told(t, fresh, departed) = [i \in Bytes |-> IF first[i] \in departed THEN Nobody ELSE first[i]]
  BY DEF Told
<1> HIDE DEF first
<1>8. ASSUME NEW i \in Bytes PROVE (IF first[i] \in departed THEN Nobody ELSE first[i]) = u[i]
  <2>1. CASE u[i] \in come
    BY <1>6, <2>1 DEF departed
  <2>2. CASE u[i] \notin come /\ t[i] \in People \ gone
    BY <1>6, <2>2 DEF TableOf, departed
  <2>3. CASE u[i] \notin come /\ t[i] \notin People \ gone
    <3>1. u[i] = Nobody
      BY <2>3 DEF TableOf
    <3>2. t[i] = Nobody \/ t[i] \in departed
      BY <2>3 DEF Table, departed, Range
    <3>3. Nobody \notin People
      BY NobodyAssumption DEF Nobody
    <3> QED BY <1>6, <2>3, <3>1, <3>2, <3>3 DEF departed
  <2> QED BY <2>1, <2>2, <2>3
<1>9. Told(t, fresh, departed) = u
  <2>1. u = [i \in Bytes |-> u[i]]
    BY <1>1 DEF Table
  <2> QED BY <1>7, <1>8, <2>1
<1>10. Applied(t, Peers(u, departed, come)) = u
  BY <1>3, <1>9 DEF Applied
<1> QED BY <1>1, <1>4, <1>10 DEF departed

\* People who part and people who meet.
Distinct(gone, come) == gone \subseteq People /\ come \subseteq People /\ gone \cap come = {}

\* A socket that is told of a new table.
LEMMA RetabledIsOK ==
  ASSUME NEW x, NEW pg \in Page, NEW k \in Sockets, SocketOK(x, pg, k), x.at = "bound",
         NEW gone, NEW come, Distinct(gone, come),
         NEW u \in TableOf(x.knows, gone, come)
  PROVE  LET y == Retabled(x, u, gone \cap Range(x.knows), come) IN
         SocketOK(y, pg, k) /\ y \in Socket /\ y.at = "bound"
<1> DEFINE message == Peers(u, gone \cap Range(x.knows), come)
           y == Retabled(x, u, gone \cap Range(x.knows), come)
<1>1. x \in Socket /\ x.knows \in Table /\ x.wire \in Seq(Message) /\ x.cut \in BOOLEAN
  BY DEF SocketOK, Socket
<1>2. message \in Message /\ u \in Table /\ Applied(x.knows, message) = u
  BY <1>1, TellsTheTable DEF Distinct
<1> HIDE DEF message
<1>3. /\ y \in Socket /\ y.at = "bound" /\ y.knows = u /\ y.cut = x.cut
      /\ y.wire = IF x.cut THEN x.wire ELSE Append(x.wire, message)
  <2>1. y = OnTheWire([x EXCEPT !.knows = u], message)
    BY DEF Retabled, message
  <2>2. CASE x.cut
    <3>1. y = [x EXCEPT !.knows = u]
      BY <1>1, <2>1, <2>2 DEF OnTheWire, Socket
    <3> QED BY <1>1, <1>2, <2>2, <3>1 DEF Socket
  <2>3. CASE ~x.cut
    <3>1. y = [x EXCEPT !.knows = u, !.wire = Append(x.wire, message)]
      BY <1>1, <2>1, <2>3 DEF OnTheWire, Socket
    <3>2. Append(x.wire, message) \in Seq(Message)
      BY <1>1, <1>2
    <3> QED BY <1>1, <1>2, <2>3, <3>1, <3>2 DEF Socket
  <2> QED BY <1>1, <2>2, <2>3
<1>4. message.is = "peers"
  BY DEF message, Peers
<1> HIDE DEF y
<1>5. ASSUME pg.ws = k, ~x.cut PROVE Follows(y, pg.peers)
  <2>1. Follows(x, pg.peers) /\ pg.peers \in Table
    BY <1>5 DEF SocketOK, Page
  <2> QED BY <1>1, <1>2, <1>3, <1>4, <1>5, <2>1, OneMore
<1>6. SocketOK(y, pg, k)
  BY <1>3, <1>5 DEF SocketOK
<1> QED BY <1>3, <1>6 DEF y

\* A socket the relay closes: what the page did not hold is no more.
LEMMA ShutIsOK ==
  ASSUME NEW x, NEW pg \in Page, NEW k \in Sockets, SocketOK(x, pg, k),
         NEW held \in BOOLEAN, pg.ws = k => held /\ x.at # "shut"
  PROVE  SocketOK(Shut(x, held), pg, k) /\ Shut(x, held) \in Socket
<1> DEFINE message == [is |-> "close"]
           y == OnTheWire([x EXCEPT !.at = "shut"], message)
<1>1. CASE ~held
  <2>1. Shut(x, held) = Unused
    BY <1>1 DEF Shut
  <2> QED BY <1>1, <2>1, UnusedIsOK
<1>2. CASE held
  <2>1. /\ x \in Socket /\ x.knows \in Table /\ x.wire \in Seq(Message) /\ x.cut \in BOOLEAN
        /\ message \in Message
    BY DEF SocketOK, Socket, Message
  <2>2. /\ y \in Socket /\ y.at = "shut" /\ y.knows = x.knows /\ y.cut = x.cut
        /\ y.wire = IF x.cut THEN x.wire ELSE Append(x.wire, message)
    <3>1. CASE x.cut
      <4>1. y = [x EXCEPT !.at = "shut"]
        BY <2>1, <3>1 DEF OnTheWire, Socket
      <4> QED BY <2>1, <3>1, <4>1 DEF Socket
    <3>2. CASE ~x.cut
      <4>1. y = [x EXCEPT !.at = "shut", !.wire = Append(x.wire, message)]
        BY <2>1, <3>2 DEF OnTheWire, Socket
      <4>2. Append(x.wire, message) \in Seq(Message)
        BY <2>1
      <4> QED BY <2>1, <3>2, <4>1, <4>2 DEF Socket
    <3> QED BY <2>1, <3>1, <3>2
  <2>3. message.is = "close" /\ Applied(x.knows, message) = x.knows
    BY DEF Applied
  <2>4. Shut(x, held) = y
    BY <1>2 DEF Shut
  <2> HIDE DEF y, message
  <2>5. ASSUME pg.ws = k, ~x.cut PROVE Follows(y, pg.peers)
    <3>1. Follows(x, pg.peers) /\ pg.peers \in Table /\ x.at # "shut"
      BY <2>5 DEF SocketOK, Page
    <3> QED BY <2>1, <2>2, <2>3, <2>5, <3>1, OneMore
  <2>6. SocketOK(y, pg, k)
    BY <2>2, <2>5 DEF SocketOK
  <2> QED BY <2>2, <2>4, <2>6
<1> QED BY <1>1, <1>2

\* A frame goes to a page that will know its sender.
LEMMA FrameIsOK ==
  ASSUME NEW x, NEW pg \in Page, NEW k \in Sockets, SocketOK(x, pg, k), x.at = "bound",
         NEW i \in Bytes, NEW q \in People, x.knows[i] = q
  PROVE  LET y == OnTheWire(x, [is |-> "frame", byte |-> i, from |-> q]) IN
         SocketOK(y, pg, k) /\ y \in Socket /\ y.at = "bound"
<1> DEFINE message == [is |-> "frame", byte |-> i, from |-> q]
           y == OnTheWire(x, message)
<1>1. /\ x \in Socket /\ x.knows \in Table /\ x.wire \in Seq(Message) /\ x.cut \in BOOLEAN
      /\ message \in Message
  BY DEF SocketOK, Socket, Message
<1>2. CASE x.cut
  BY <1>1, <1>2 DEF OnTheWire
<1>3. CASE ~x.cut
  <2>1. /\ y \in Socket /\ y.at = "bound" /\ y.knows = x.knows /\ y.cut = x.cut
        /\ y.wire = Append(x.wire, message)
    <3>1. y = [x EXCEPT !.wire = Append(x.wire, message)]
      BY <1>1, <1>3 DEF OnTheWire, Socket
    <3>2. Append(x.wire, message) \in Seq(Message)
      BY <1>1
    <3> QED BY <1>1, <3>1, <3>2 DEF Socket
  <2>2. /\ message.is = "frame" /\ message.byte = i /\ message.from = q
        /\ Applied(x.knows, message) = x.knows
    BY DEF Applied
  <2> HIDE DEF y, message
  <2>3. ASSUME pg.ws = k PROVE Follows(y, pg.peers)
    <3>1. Follows(x, pg.peers) /\ pg.peers \in Table
      BY <1>3, <2>3 DEF SocketOK, Page
    <3> QED BY <1>1, <2>1, <2>2, <3>1, OneMore
  <2>4. SocketOK(y, pg, k)
    BY <1>3, <2>1, <2>3 DEF SocketOK
  <2> QED BY <2>1, <2>4 DEF y, message
<1> QED BY <1>2, <1>3

\* What came first is taken in.
LEMMA HeardIsOK ==
  ASSUME NEW x, NEW pg \in Page, NEW qg, NEW k \in Sockets, SocketOK(x, pg, k), pg.ws = k,
         x.wire # <<>>, qg.ws = k, qg.peers = Applied(pg.peers, Head(x.wire)),
         NEW y, y = [x EXCEPT !.wire = Tail(x.wire)]
  PROVE  SocketOK(y, qg, k) /\ y \in Socket /\ y.at = x.at /\ qg.peers \in Table
<1>1. /\ x \in Socket /\ x.wire \in Seq(Message) /\ ~x.cut /\ Len(x.wire) \in Nat \ {0}
      /\ x.at \notin {"none", "hello", "checking"} /\ Head(x.wire) = x.wire[1]
  BY DEF SocketOK, Socket, Unused
<1>2. /\ y \in Socket /\ y.at = x.at /\ y.cut = x.cut /\ y.knows = x.knows
      /\ y.wire = Tail(x.wire)
  <2>1. Tail(x.wire) \in Seq(Message)
    BY <1>1
  <2> QED BY <1>1, <2>1 DEF Socket
<1>3. PICK T \in Seq(Table) :
        /\ Len(T) = Len(x.wire) + 1 /\ T[1] = pg.peers
        /\ \A i \in 1..Len(x.wire) :
             /\ T[i + 1] = Applied(T[i], x.wire[i])
             /\ x.wire[i].is = "frame" => T[i][x.wire[i].byte] = x.wire[i].from
        /\ x.at # "shut" => T[Len(x.wire) + 1] = x.knows
  BY <1>1 DEF SocketOK, Follows
<1> DEFINE W == Tail(T)
<1>4. /\ W \in Seq(Table) /\ Len(W) = Len(x.wire) /\ Len(y.wire) = Len(x.wire) - 1
      /\ \A i \in 1..Len(x.wire) : W[i] = T[i + 1]
      /\ \A i \in 1..Len(y.wire) : y.wire[i] = x.wire[i + 1]
  BY <1>1, <1>2, <1>3
<1> HIDE DEF W
<1>5. T[2] = Applied(T[1], x.wire[1]) /\ W[1] = T[2] /\ T[2] \in Table
  <2>1. 1 \in 1..Len(x.wire) /\ 2 \in 1..Len(T)
    BY <1>1, <1>3
  <2> QED BY <1>3, <1>4, <2>1
<1>6. W[1] = qg.peers /\ qg.peers \in Table /\ Len(W) = Len(y.wire) + 1
  BY <1>1, <1>3, <1>4, <1>5
<1>7. ASSUME NEW i \in 1..Len(y.wire)
      PROVE  /\ W[i + 1] = Applied(W[i], y.wire[i])
             /\ y.wire[i].is = "frame" => W[i][y.wire[i].byte] = y.wire[i].from
  <2>1. i \in 1..Len(x.wire) /\ i + 1 \in 1..Len(x.wire)
    BY <1>1, <1>4
  <2>2. W[i] = T[i + 1] /\ W[i + 1] = T[i + 2] /\ y.wire[i] = x.wire[i + 1] /\ (i + 1) + 1 = i + 2
    BY <1>4, <2>1
  <2> QED BY <1>3, <2>1, <2>2
<1>8. y.at # "shut" => W[Len(y.wire) + 1] = y.knows
  <2>1. Len(y.wire) + 1 = Len(x.wire) /\ Len(x.wire) \in 1..Len(x.wire)
    BY <1>1, <1>4
  <2> QED BY <1>2, <1>3, <1>4, <2>1
<1>9. Follows(y, qg.peers)
  BY <1>4, <1>6, <1>7, <1>8 DEF Follows
<1> QED BY <1>1, <1>2, <1>6, <1>9 DEF SocketOK

-----------------------------------------------------------------------------
(* The steps.                                                              *)

LEMMA VoiceInitInv == VoiceInit => VoiceInv
<1> SUFFICES ASSUME VoiceInit PROVE VoiceInv
  OBVIOUS
<1>1. NoTable \in Table /\ QuietPage \in Page /\ QuietPage.peers = NoTable /\ QuietPage.ws = None
  BY DEF NoTable, Table, QuietPage, Page
<1>2. PagesOK /\ \A p \in People : page[p] = QuietPage
  BY <1>1 DEF VoiceInit, PagesOK
<1>3. ASSUME NEW p \in People, NEW k \in Sockets
      PROVE  sock[p][k] = Unused /\ SocketOK(Unused, page[p], k) /\ Unused \in Socket
  BY <1>1, <1>2, UnusedIsOK DEF VoiceInit
<1>4. SocketsOK
  <2>1. sock = [p \in People |-> [k \in Sockets |-> Unused]]
    BY DEF VoiceInit
  <2>2. sock \in [People -> [Sockets -> Socket]]
    BY <1>3, <2>1
  <2> QED BY <1>3, <2>2 DEF SocketsOK
<1>5. ConnsOK /\ GraphOK
  BY DEF VoiceInit, ConnsOK, GraphOK
<1> QED BY <1>2, <1>4, <1>5 DEF VoiceInv

\* Parts a step leaves as they are.
LEMMA SameGraph ==
  ASSUME VoiceInv, UNCHANGED <<pairs, hearers>> PROVE GraphOK'
BY DEF VoiceInv, GraphOK

\* One socket of one session changes, and no page.
LEMMA OneSocket ==
  ASSUME VoiceInv, NEW p \in People, NEW k \in Sockets, NEW y,
         sock' = [sock EXCEPT ![p][k] = y], UNCHANGED page,
         SocketOK(y, page[p], k), y \in Socket
  PROVE  PagesOK' /\ SocketsOK'
<1>1. sock \in [People -> [Sockets -> Socket]]
  BY DEF VoiceInv, SocketsOK
<1>2. /\ sock' \in [People -> [Sockets -> Socket]] /\ sock'[p][k] = y
      /\ \A q \in People, j \in Sockets : q # p \/ j # k => sock'[q][j] = sock[q][j]
  BY <1>1
<1>3. \A q \in People, j \in Sockets : SocketOK(sock'[q][j], page[q], j)
  BY <1>2 DEF VoiceInv, SocketsOK
<1>4. SocketsOK'
  BY <1>2, <1>3 DEF SocketsOK
<1>5. PagesOK'
  BY DEF VoiceInv, PagesOK, Holds
<1> QED BY <1>4, <1>5

\* The sessions' sockets stay bound where no bound socket changes its place.
LEMMA BoundStay ==
  ASSUME VoiceInv, UNCHANGED conns,
         \A p \in People, k \in Sockets : sock[p][k].at = "bound" => sock'[p][k].at = "bound"
  PROVE  ConnsOK'
BY DEF VoiceInv, ConnsOK

\* A page gives up what it holds, and no socket changes.
LEMMA PageCloses ==
  ASSUME VoiceInv, NEW p \in People, page' = Closing(p), UNCHANGED sock
  PROVE  PagesOK' /\ SocketsOK'
<1>1. QuietPage \in Page /\ QuietPage.peers = NoTable /\ QuietPage.ws = None /\ None \notin Sockets
  BY DEF QuietPage, Page, NoTable, Table, None, Sockets
<1>2. /\ page' \in [People -> Page] /\ page'[p] = QuietPage
      /\ \A q \in People \ {p} : page'[q] = page[q]
  BY <1>1 DEF VoiceInv, PagesOK, Closing
<1>3. PagesOK'
  BY <1>1, <1>2 DEF VoiceInv, PagesOK, Holds
<1>4. ASSUME NEW q \in People, NEW k \in Sockets PROVE SocketOK(sock[q][k], page'[q], k)
  <2>1. SocketOK(sock[q][k], page[q], k)
    BY DEF VoiceInv, SocketsOK
  <2>2. CASE q = p
    <3>1. page'[q].ws # k
      BY <1>1, <1>2, <2>2
    <3> QED BY <2>1, <3>1, LetGo
  <2> QED BY <1>2, <2>1, <2>2
<1> QED BY <1>3, <1>4 DEF VoiceInv, SocketsOK

LEMMA ClosesOK ==
  ASSUME VoiceInv, NEW p \in People, NEW k \in Sockets, Closes(p, k), UNCHANGED page,
         sock[p][k].at # "shut" \/ ~Holds(p, k)
  PROVE  /\ PagesOK' /\ SocketsOK' /\ \A q \in People, j \in Sockets : q # p \/ j # k => sock'[q][j] = sock[q][j]
<1> DEFINE y == Shut(sock[p][k], Holds(p, k))
<1>1. /\ sock' = [sock EXCEPT ![p][k] = y] /\ sock \in [People -> [Sockets -> Socket]]
      /\ SocketOK(sock[p][k], page[p], k) /\ page[p] \in Page
  BY DEF Closes, VoiceInv, SocketsOK, PagesOK
<1>2. SocketOK(y, page[p], k) /\ y \in Socket
  BY <1>1, ShutIsOK DEF Holds
<1> HIDE DEF y
<1> QED BY <1>1, <1>2, OneSocket

\* The session's socket is another.
LEMMA OthersBound ==
  ASSUME VoiceInv, NEW p \in People, NEW k \in Sockets, UNCHANGED conns,
         sock[p][k].at # "bound" \/ conns[p] # k,
         \A q \in People, j \in Sockets : q # p \/ j # k => sock'[q][j] = sock[q][j]
  PROVE  ConnsOK'
BY DEF VoiceInv, ConnsOK

LEMMA HelloInv == ASSUME VoiceInv, NEW p \in People, NEW k \in Sockets, Hello(p, k) PROVE VoiceInv'
<1> DEFINE x == sock[p][k]
           y == [x EXCEPT !.at = "checking"]
<1>1. /\ x.at = "hello" /\ ~x.cut /\ UNCHANGED <<pairs, hearers, conns, page>>
      /\ sock \in [People -> [Sockets -> Socket]] /\ SocketOK(x, page[p], k)
  BY DEF Hello, VoiceInv, SocketsOK
<1>2. CASE sock' = [sock EXCEPT ![p][k] = y]
  <2>1. y \in Socket /\ y.at = "checking" /\ y.wire = x.wire /\ y.knows = x.knows /\ y.cut = x.cut
    BY <1>1 DEF SocketOK, Socket
  <2> HIDE DEF y
  <2>2. SocketOK(y, page[p], k)
    BY <1>1, <2>1 DEF SocketOK, Follows
  <2>3. PagesOK' /\ SocketsOK'
    BY <1>1, <1>2, <2>1, <2>2, OneSocket
  <2>4. ConnsOK'
    BY <1>1, <1>2, OthersBound
  <2> QED BY <1>1, <2>3, <2>4, SameGraph DEF VoiceInv
<1>3. CASE Closes(p, k)
  <2>1. ConnsOK'
    BY <1>1, <1>3, ClosesOK, OthersBound
  <2> QED BY <1>1, <1>3, <2>1, ClosesOK, SameGraph DEF VoiceInv
<1> QED BY <1>2, <1>3 DEF Hello

LEMMA RefusesInv == ASSUME VoiceInv, NEW p \in People, NEW k \in Sockets, Refuses(p, k) PROVE VoiceInv'
<1>1. /\ sock[p][k].at = "checking" /\ UNCHANGED <<pairs, hearers, conns, page>> /\ Closes(p, k)
  BY DEF Refuses
<1>2. ConnsOK'
  BY <1>1, ClosesOK, OthersBound
<1> QED BY <1>1, <1>2, ClosesOK, SameGraph DEF VoiceInv

LEMMA SeesCloseInv ==
  ASSUME VoiceInv, NEW p \in People, NEW k \in Sockets, SeesClose(p, k)
  PROVE  VoiceInv'
<1>1. /\ Closes(p, k) /\ (sock[p][k].at # "shut" \/ ~Holds(p, k)) /\ UNCHANGED <<pairs, hearers, page>>
      /\ conns' = IF conns[p] = k THEN [conns EXCEPT ![p] = None] ELSE conns
  BY DEF SeesClose, Closes
<1>2. /\ PagesOK' /\ SocketsOK'
      /\ \A q \in People, j \in Sockets : q # p \/ j # k => sock'[q][j] = sock[q][j]
  BY <1>1, ClosesOK
<1>3. ConnsOK'
  <2>1. conns' \in [People -> Sockets \cup {None}] /\ \A q \in People \ {p} : conns'[q] = conns[q]
    BY <1>1 DEF VoiceInv, ConnsOK
  <2>2. conns'[p] # None => conns'[p] = conns[p] /\ conns[p] # k /\ conns[p] \in Sockets
    BY <1>1 DEF VoiceInv, ConnsOK
  <2>3. \A q \in People : conns'[q] # None => conns'[q] = conns[q] /\ conns[q] \in Sockets
    BY <2>1, <2>2 DEF VoiceInv, ConnsOK
  <2> QED BY <1>2, <2>1, <2>2, <2>3 DEF VoiceInv, ConnsOK
<1> QED BY <1>1, <1>2, <1>3, SameGraph DEF VoiceInv

LEMMA CutsInv == ASSUME VoiceInv, NEW p \in People, NEW k \in Sockets, Cuts(p, k) PROVE VoiceInv'
<1> DEFINE x == sock[p][k]
<1>1. /\ x.at # "none" /\ UNCHANGED <<pairs, hearers, conns, page>>
      /\ sock' = [sock EXCEPT ![p][k] = [x EXCEPT !.cut = TRUE, !.wire = <<>>]]
      /\ sock \in [People -> [Sockets -> Socket]] /\ SocketOK(x, page[p], k)
  BY DEF Cuts, VoiceInv, SocketsOK
<1> DEFINE y == [x EXCEPT !.cut = TRUE, !.wire = <<>>]
<1>2. y \in Socket /\ y.at = x.at /\ y.cut /\ y.wire = <<>> /\ y.knows = x.knows
  <2>1. PICK b \in BOOLEAN : b = TRUE
    OBVIOUS
  <2>2. x \in Socket /\ <<>> \in Seq(Message)
    BY <1>1 DEF SocketOK
  <2>3. y = [x EXCEPT !.cut = b, !.wire = <<>>]
    BY <2>1
  <2> HIDE DEF y
  <2>4. y \in Socket /\ y.at = x.at /\ y.cut = b /\ y.wire = <<>> /\ y.knows = x.knows
    BY <2>2, <2>3 DEF Socket
  <2> QED BY <2>1, <2>4
<1>3. sock' = [sock EXCEPT ![p][k] = y]
  BY <1>1
<1> HIDE DEF y
<1>4. SocketOK(y, page[p], k)
  BY <1>1, <1>2 DEF SocketOK
<1>5. PagesOK' /\ SocketsOK'
  BY <1>1, <1>2, <1>3, <1>4, OneSocket
<1>6. ConnsOK'
  BY <1>1, <1>2, <1>3, BoundStay
<1> QED BY <1>1, <1>5, <1>6, SameGraph DEF VoiceInv

LEMMA RelaysInv == ASSUME VoiceInv, NEW p \in People, NEW r \in People, Relays(p, r) PROVE VoiceInv'
<1>1. PICK i \in Bytes :
        /\ sock[r][conns[r]].knows[i] = p
        /\ sock' = [sock EXCEPT ![r][conns[r]] = OnTheWire(@, [is |-> "frame", byte |-> i, from |-> p])]
  BY DEF Relays
<1>2. PICK k \in Sockets : conns[r] = k /\ sock[r][k].at = "bound"
  BY DEF Relays, VoiceInv, ConnsOK
<1> DEFINE x == sock[r][k]
           y == OnTheWire(x, [is |-> "frame", byte |-> i, from |-> p])
<1>3. /\ UNCHANGED <<pairs, hearers, conns, page>> /\ sock \in [People -> [Sockets -> Socket]]
      /\ SocketOK(x, page[r], k) /\ page[r] \in Page /\ sock' = [sock EXCEPT ![r][k] = y]
  BY <1>1, <1>2 DEF Relays, VoiceInv, SocketsOK, PagesOK
<1>4. SocketOK(y, page[r], k) /\ y \in Socket /\ y.at = "bound"
  <2>1. x.knows[i] = p /\ x.at = "bound"
    BY <1>1, <1>2
  <2> HIDE DEF x
  <2> QED BY <1>3, <2>1, FrameIsOK DEF y
<1> HIDE DEF y
<1>5. PagesOK' /\ SocketsOK'
  BY <1>3, <1>4, OneSocket
<1>6. ConnsOK'
  BY <1>3, <1>4, BoundStay
<1> QED BY <1>3, <1>5, <1>6, SameGraph DEF VoiceInv

LEMMA OpensInv == ASSUME VoiceInv, NEW p \in People, Opens(p) PROVE VoiceInv'
<1>1. PICK k \in Sockets :
        /\ sock[p][k].at = "none" /\ sock' = [sock EXCEPT ![p][k] = [@ EXCEPT !.at = "hello"]]
        /\ page' = [page EXCEPT ![p].want = TRUE, ![p].ws = k]
  BY DEF Opens
<1>2. /\ Holds(p, None) /\ UNCHANGED <<pairs, hearers, conns>> /\ sock[p][k] = Unused
      /\ sock \in [People -> [Sockets -> Socket]] /\ page \in [People -> Page]
      /\ page[p].peers = NoTable /\ NoTable \in Table
  BY <1>1 DEF Opens, VoiceInv, SocketsOK, SocketOK, PagesOK, NoTable, Table
<1> DEFINE y == [Unused EXCEPT !.at = "hello"]
<1>3. y \in Socket /\ y.at = "hello" /\ y.cut = FALSE /\ y.wire = <<>> /\ y.knows = NoTable
  <2>1. Unused \in Socket
    BY <1>2
  <2>2. Unused.cut = FALSE /\ Unused.wire = <<>> /\ Unused.knows = NoTable
    BY DEF Unused
  <2> QED BY <2>1, <2>2 DEF Socket
<1>4. /\ page' \in [People -> Page] /\ page'[p].ws = k /\ page'[p].peers = NoTable
      /\ \A q \in People \ {p} : page'[q] = page[q]
  <2> DEFINE t == [page[p] EXCEPT !.want = TRUE, !.ws = k]
  <2>1. t \in Page /\ t.ws = k /\ t.peers = NoTable
    BY <1>2 DEF Page
  <2>2. page' = [page EXCEPT ![p] = t]
    BY <1>1, <1>2 DEF Page
  <2> HIDE DEF t
  <2> QED BY <1>2, <2>1, <2>2
<1>5. /\ sock' \in [People -> [Sockets -> Socket]] /\ sock'[p][k] = y
      /\ \A q \in People, j \in Sockets : q # p \/ j # k => sock'[q][j] = sock[q][j]
  BY <1>1, <1>2, <1>3
<1> HIDE DEF y
<1>6. PagesOK'
  <2>1. k # None
    BY DEF Sockets, None
  <2> QED BY <1>4, <2>1 DEF VoiceInv, PagesOK, Holds
<1>7. SocketOK(y, page'[p], k)
  <2>1. Follows(y, NoTable)
    <3> DEFINE T == <<NoTable>>
    <3>1. T \in Seq(Table) /\ Len(T) = 1 /\ T[1] = NoTable
      BY <1>2
    <3>2. Len(y.wire) = 0 /\ 1..Len(y.wire) = {} /\ Len(y.wire) + 1 = 1
      BY <1>3
    <3> HIDE DEF T
    <3> QED BY <1>3, <3>1, <3>2 DEF Follows
  <2> QED BY <1>3, <1>4, <2>1 DEF SocketOK
<1>8. ASSUME NEW q \in People, NEW j \in Sockets PROVE SocketOK(sock'[q][j], page'[q], j)
  <2>1. CASE q # p
    BY <1>4, <1>5, <2>1 DEF VoiceInv, SocketsOK
  <2>2. CASE q = p /\ j = k
    BY <1>5, <1>7, <2>2
  <2>3. CASE q = p /\ j # k
    <3>1. sock'[q][j] = sock[q][j] /\ page'[q].ws # j /\ SocketOK(sock[q][j], page[q], j)
      BY <1>4, <1>5, <2>3 DEF VoiceInv, SocketsOK
    <3> QED BY <3>1, LetGo
  <2> QED BY <2>1, <2>2, <2>3
<1>9. SocketsOK'
  BY <1>5, <1>8 DEF SocketsOK
<1>10. ConnsOK'
  <2>1. sock[p][k].at # "bound" /\ UNCHANGED conns
    BY <1>1, <1>2
  <2> QED BY <1>5, <2>1, OthersBound
<1> QED BY <1>2, <1>6, <1>9, <1>10, SameGraph DEF VoiceInv

LEMMA LeavesInv ==
  ASSUME VoiceInv, NEW p \in People, Alone(p) \/ Resumes(p)
  PROVE  VoiceInv'
<1>1. page' = Closing(p) /\ UNCHANGED <<sock, pairs, hearers, conns>>
  BY DEF Alone, Resumes
<1>2. ConnsOK'
  BY <1>1 DEF VoiceInv, ConnsOK
<1> QED BY <1>1, <1>2, PageCloses, SameGraph DEF VoiceInv

LEMMA PageHearsInv == ASSUME VoiceInv, NEW p \in People, PageHears(p) PROVE VoiceInv'
<1>1. PICK k \in Sockets : page[p].ws = k
  BY DEF PageHears, VoiceInv, PagesOK, Page
<1> DEFINE x == sock[p][k]
           y == [x EXCEPT !.wire = Tail(x.wire)]
           pg == page[p]
<1>2. /\ x.wire # <<>> /\ sock' = [sock EXCEPT ![p][k] = y]
      /\ UNCHANGED <<pairs, hearers, conns>> /\ sock \in [People -> [Sockets -> Socket]]
      /\ page \in [People -> Page] /\ pg \in Page /\ SocketOK(x, pg, k)
  BY <1>1 DEF PageHears, VoiceInv, SocketsOK, PagesOK
<1> DEFINE t == Applied(pg.peers, Head(x.wire))
           qg == [pg EXCEPT !.peers = t]
<1>3. page' = [page EXCEPT ![p] = qg]
  <2>1. CASE Head(x.wire).is = "peers"
    BY <1>1, <2>1 DEF PageHears, Applied
  <2>2. CASE Head(x.wire).is # "peers"
    <3>1. page' = page /\ t = pg.peers
      BY <1>1, <2>2 DEF PageHears, Applied
    <3>2. qg = pg
      BY <1>2, <3>1 DEF Page
    <3> QED BY <1>2, <3>1, <3>2
  <2> QED BY <2>1, <2>2
<1>4. qg.ws = k /\ qg.peers = t /\ qg.want = pg.want
  BY <1>1, <1>2 DEF Page
<1> HIDE DEF y, qg, t, x
<1>5. SocketOK(y, qg, k) /\ y \in Socket /\ y.at = x.at /\ qg.peers \in Table
  BY <1>1, <1>2, <1>4, HeardIsOK DEF y, t
<1>6. qg \in Page
  <2>1. qg = [want |-> pg.want, ws |-> k, peers |-> t] /\ pg.want \in BOOLEAN
    BY <1>1, <1>2 DEF Page, qg
  <2> QED BY <1>4, <1>5, <2>1 DEF Page
<1>7. /\ page' \in [People -> Page] /\ page'[p] = qg /\ \A q \in People \ {p} : page'[q] = page[q]
      /\ sock' \in [People -> [Sockets -> Socket]] /\ sock'[p][k] = y
      /\ \A q \in People, j \in Sockets : q # p \/ j # k => sock'[q][j] = sock[q][j]
  BY <1>2, <1>3, <1>5, <1>6
<1>8. PagesOK'
  <2>1. k # None
    BY DEF Sockets, None
  <2> QED BY <1>4, <1>7, <2>1 DEF VoiceInv, PagesOK, Holds
<1>9. ASSUME NEW q \in People, NEW j \in Sockets PROVE SocketOK(sock'[q][j], page'[q], j)
  <2>1. CASE q # p
    BY <1>7, <2>1 DEF VoiceInv, SocketsOK
  <2>2. CASE q = p /\ j = k
    BY <1>5, <1>7, <2>2
  <2>3. CASE q = p /\ j # k
    <3>1. sock'[q][j] = sock[q][j] /\ page'[q].ws # j /\ SocketOK(sock[q][j], page[q], j)
      BY <1>4, <1>7, <2>3 DEF VoiceInv, SocketsOK
    <3> QED BY <3>1, LetGo
  <2> QED BY <2>1, <2>2, <2>3
<1>10. SocketsOK'
  BY <1>7, <1>9 DEF SocketsOK
<1>11. ConnsOK'
  BY <1>2, <1>5, <1>7, BoundStay DEF x
<1> QED BY <1>2, <1>8, <1>10, <1>11, SameGraph DEF VoiceInv

LEMMA ClosedInv == ASSUME VoiceInv, NEW p \in People, Closed(p) PROVE VoiceInv'
<1>1. PICK k \in Sockets : page[p].ws = k
  BY DEF Closed, VoiceInv, PagesOK, Page
<1> DEFINE qg == [page[p] EXCEPT !.ws = None, !.peers = NoTable]
<1>2. /\ page' = [page EXCEPT ![p] = qg] /\ UNCHANGED <<pairs, hearers, conns>>
      /\ sock' = IF sock[p][k].at = "shut" THEN [sock EXCEPT ![p][k] = Unused] ELSE sock
      /\ sock \in [People -> [Sockets -> Socket]] /\ page \in [People -> Page]
  BY <1>1 DEF Closed, VoiceInv, SocketsOK, PagesOK
<1>3. qg \in Page /\ qg.ws = None /\ qg.peers = NoTable /\ None \notin Sockets
  <2>1. NoTable \in Table /\ None \notin Sockets /\ page[p] \in Page
    BY <1>2 DEF NoTable, Table, None, Sockets
  <2> QED BY <2>1 DEF Page
<1> HIDE DEF qg
<1>4. page' \in [People -> Page] /\ page'[p] = qg /\ \A q \in People \ {p} : page'[q] = page[q]
  BY <1>2, <1>3
<1>5. SocketOK(Unused, qg, k) /\ Unused \in Socket
  BY <1>3, UnusedIsOK
<1>6. /\ sock' \in [People -> [Sockets -> Socket]]
      /\ \A q \in People, j \in Sockets : q # p \/ j # k => sock'[q][j] = sock[q][j]
      /\ sock'[p][k] = IF sock[p][k].at = "shut" THEN Unused ELSE sock[p][k]
  BY <1>2, <1>5
<1>7. PagesOK'
  BY <1>3, <1>4 DEF VoiceInv, PagesOK, Holds
<1>8. ASSUME NEW q \in People, NEW j \in Sockets PROVE SocketOK(sock'[q][j], page'[q], j)
  <2>1. CASE q # p
    BY <1>4, <1>6, <2>1 DEF VoiceInv, SocketsOK
  <2>2. CASE q = p /\ sock'[q][j] = sock[q][j]
    <3>1. page'[q].ws # j /\ SocketOK(sock[q][j], page[q], j)
      BY <1>3, <1>4, <2>2 DEF VoiceInv, SocketsOK
    <3> QED BY <2>2, <3>1, LetGo
  <2>3. CASE q = p /\ sock'[q][j] # sock[q][j]
    BY <1>4, <1>5, <1>6, <2>3
  <2> QED BY <2>1, <2>2, <2>3
<1>9. SocketsOK'
  BY <1>6, <1>8 DEF SocketsOK
<1>10. ConnsOK'
  BY <1>2, <1>6, BoundStay
<1> QED BY <1>2, <1>7, <1>9, <1>10, SameGraph DEF VoiceInv

\* Nobody goes where a table is made anew.
LEMMA WelcomedIsOK ==
  ASSUME NEW z, NEW pg \in Page, NEW k \in Sockets, SocketOK(z, pg, k), z.at = "bound",
         NEW come \in SUBSET People, NEW t \in TableOf(z.knows, {}, come)
  PROVE  LET y == Retabled(z, t, {}, come) IN
         SocketOK(y, pg, k) /\ y \in Socket /\ y.at = "bound"
<1>1. PICK g : g = {}
  OBVIOUS
<1>2. Distinct(g, come) /\ g \cap Range(z.knows) = g /\ t \in TableOf(z.knows, g, come)
  BY <1>1 DEF Distinct
<1>3. LET u == Retabled(z, t, g \cap Range(z.knows), come) IN
      SocketOK(u, pg, k) /\ u \in Socket /\ u.at = "bound"
  BY <1>2, RetabledIsOK
<1> QED BY <1>1, <1>2, <1>3

\* The welcome: the socket let in is told of everybody, and what it replaces is shut.
LEMMA VerifiedInv == ASSUME VoiceInv, NEW p \in People, NEW k \in Sockets, Verified(p, k) PROVE VoiceInv'
<1> DEFINE x == sock[p][k]
           z == [x EXCEPT !.at = "bound"]
<1>1. /\ x.at = "checking" /\ UNCHANGED <<pairs, hearers, page>> /\ page[p] \in Page
      /\ sock \in [People -> [Sockets -> Socket]] /\ SocketOK(x, page[p], k)
      /\ conns \in [People -> Sockets \cup {None}]
  BY DEF Verified, VoiceInv, SocketsOK, PagesOK, ConnsOK
<1>2. CASE ~Human(p)
  <2>1. Closes(p, k) /\ UNCHANGED conns
    BY <1>2 DEF Verified
  <2>2. ConnsOK'
    BY <1>1, <2>1, ClosesOK, OthersBound
  <2> QED BY <1>1, <2>1, <2>2, ClosesOK, SameGraph DEF VoiceInv
<1>3. CASE Human(p)
  <2>1. PICK t \in Welcomes(p) :
          /\ conns' = [conns EXCEPT ![p] = k]
          /\ sock' = [sock EXCEPT ![p] = [j \in Sockets |->
               IF j = k THEN Retabled(z, t, {}, Range(t) \ {Nobody})
               ELSE IF j = conns[p] THEN Shut(sock[p][j], Holds(p, j)) ELSE sock[p][j]]]
    BY <1>3 DEF Verified
  <2> DEFINE come == Range(t) \ {Nobody}
             y == Retabled(z, t, {}, come)
  <2>2. /\ z \in Socket /\ z.at = "bound" /\ z.wire = x.wire /\ z.knows = x.knows /\ z.cut = x.cut
        /\ x.knows = NoTable
    BY <1>1 DEF SocketOK, Socket
  <2> HIDE DEF z
  <2>3. SocketOK(z, page[p], k)
    BY <1>1, <2>2 DEF SocketOK, Follows
  <2>4. come \in SUBSET People /\ t \in TableOf(z.knows, {}, come)
    <3>1. /\ t \in [Bytes -> People \cup {Nobody}]
          /\ \A i \in Bytes : t[i] \in hearers[p] \cup {Nobody}
          /\ \A q \in hearers[p] : \E i \in Bytes : t[i] = q /\ \A j \in Bytes \ {i} : t[j] # q
      BY NobodyAssumption DEF Welcomes, TableOf, NoTable, Nobody
    <3>2. come \subseteq People /\ come \subseteq hearers[p] /\ \A i \in Bytes : t[i] \in come \cup {Nobody}
      BY <3>1 DEF Range
    <3>3. \A i \in Bytes : z.knows[i] = Nobody /\ Nobody \notin People
      BY <2>2, NobodyAssumption DEF NoTable, Nobody
    <3> HIDE DEF come
    <3> QED BY <3>1, <3>2, <3>3 DEF TableOf
  <2>5. SocketOK(y, page[p], k) /\ y \in Socket /\ y.at = "bound"
    <3> HIDE DEF come
    <3> QED BY <1>1, <2>2, <2>3, <2>4, WelcomedIsOK
  <2> HIDE DEF y, come
  <2> DEFINE old(j) == Shut(sock[p][j], Holds(p, j))
  <2>6. /\ \A q \in People \ {p} : sock'[q] = sock[q]
        /\ sock'[p] = [j \in Sockets |-> IF j = k THEN y ELSE IF j = conns[p] THEN old(j) ELSE sock[p][j]]
    BY <1>1, <2>1 DEF y, come
  <2>7. ASSUME NEW j \in Sockets, j = conns[p], j # k
        PROVE  SocketOK(old(j), page[p], j) /\ old(j) \in Socket
    <3>1. SocketOK(sock[p][j], page[p], j) /\ sock[p][j].at = "bound"
      BY <2>7 DEF VoiceInv, SocketsOK, ConnsOK, Sockets, None
    <3> QED BY <1>1, <3>1, ShutIsOK DEF Holds
  <2> HIDE DEF old
  <2>8. ASSUME NEW j \in Sockets PROVE sock'[p][j] \in Socket /\ SocketOK(sock'[p][j], page[p], j)
    <3>1. sock'[p][j] = IF j = k THEN y ELSE IF j = conns[p] THEN old(j) ELSE sock[p][j]
      BY <2>6
    <3> QED BY <1>1, <2>5, <2>7, <3>1 DEF VoiceInv, SocketsOK
  <2>9. SocketsOK'
    <3>1. sock'[p] \in [Sockets -> Socket]
      BY <2>6, <2>8
    <3>2. sock' \in [People -> [Sockets -> Socket]]
      <4>1. DOMAIN sock' = People /\ sock' = [q \in People |-> sock'[q]]
        BY <1>1, <2>1
      <4> QED BY <1>1, <2>6, <3>1, <4>1
    <3> QED BY <1>1, <2>6, <2>8, <3>2 DEF VoiceInv, SocketsOK
  <2>10. PagesOK'
    BY <1>1 DEF VoiceInv, PagesOK, Holds
  <2>11. ConnsOK'
    <3>1. conns' \in [People -> Sockets \cup {None}] /\ conns'[p] = k /\ sock'[p][k] = y
      BY <1>1, <2>1, <2>6
    <3>2. \A q \in People \ {p} : conns'[q] = conns[q]
      BY <1>1, <2>1
    <3> QED BY <2>5, <2>6, <3>1, <3>2 DEF VoiceInv, ConnsOK
  <2> QED BY <1>1, <2>9, <2>10, <2>11, SameGraph DEF VoiceInv
<1> QED BY <1>2, <1>3

-----------------------------------------------------------------------------
\* Every receiver is told: with the page each session will have.
AllOK(socks, cs, pgs) ==
  /\ socks \in [People -> [Sockets -> Socket]] /\ cs \in [People -> Sockets \cup {None}]
  /\ pgs \in [People -> Page]
  /\ \A p \in People, k \in Sockets : SocketOK(socks[p][k], pgs[p], k)
  /\ \A p \in People : cs[p] # None => socks[p][cs[p]].at = "bound"

AllDistinct(gone, come) == \A p \in People : Distinct(gone[p], come[p])

LEMMA EverybodyIsTold ==
  ASSUME NEW socks, NEW cs, NEW pgs, AllOK(socks, cs, pgs), NEW gone, NEW come,
         AllDistinct(gone, come), hearers \in [People -> SUBSET People],
         UpdatePeers(socks, cs, gone, come)
  PROVE  AllOK(sock', cs, pgs) /\ hearers' \in [People -> SUBSET People]
<1> DEFINE knows(p) == socks[p][cs[p]].knows
           those == {p \in People : cs[p] # None /\ come[p] \cup (gone[p] \cap Range(knows(p))) # {}}
<1>1. PICK t :
        /\ \A p \in those : t[p] \in TableOf(knows(p), gone[p], come[p])
        /\ sock' = [p \in People |->
             IF p \in those
             THEN [socks[p] EXCEPT ![cs[p]] =
                     Retabled(socks[p][cs[p]], t[p], gone[p] \cap Range(socks[p][cs[p]].knows), come[p])]
             ELSE socks[p]]
  BY DEF UpdatePeers
<1>2. hearers' \in [People -> SUBSET People]
  <2>1. \A p \in People : (hearers[p] \cup come[p]) \ gone[p] \subseteq People
    BY DEF AllDistinct, Distinct
  <2> QED BY <2>1 DEF UpdatePeers
<1>3. ASSUME NEW p \in People
      PROVE  /\ sock'[p] \in [Sockets -> Socket]
             /\ \A k \in Sockets : SocketOK(sock'[p][k], pgs[p], k)
             /\ cs[p] # None => sock'[p][cs[p]].at = "bound"
  <2>1. CASE p \notin those
    <3>1. sock'[p] = socks[p]
      BY <1>1, <2>1
    <3> QED BY <3>1 DEF AllOK
  <2>2. CASE p \in those
    <3>1. PICK c \in Sockets : cs[p] = c
      BY <2>2 DEF AllOK
    <3> PICK x, u, pg, g, m : x = socks[p][c] /\ u = t[p] /\ pg = pgs[p] /\ g = gone[p] /\ m = come[p]
      OBVIOUS
    <3>2. /\ SocketOK(x, pg, c) /\ x.at = "bound" /\ pg \in Page /\ c \in Sockets
          /\ Distinct(g, m) /\ u \in TableOf(x.knows, g, m)
      <4>1. cs[p] # None
        BY <2>2
      <4> QED BY <1>1, <2>2, <3>1, <4>1 DEF AllOK, AllDistinct
    <3> DEFINE y == Retabled(x, u, g \cap Range(x.knows), m)
    <3>3. sock'[p] = [socks[p] EXCEPT ![c] = y]
      BY <1>1, <2>2, <3>1
    <3>4. SocketOK(y, pg, c) /\ y \in Socket /\ y.at = "bound"
      BY <3>2, RetabledIsOK
    <3> HIDE DEF y
    <3> QED BY <3>1, <3>3, <3>4 DEF AllOK
  <2> QED BY <2>1, <2>2
<1> HIDE DEF those
<1>4. sock' \in [People -> [Sockets -> Socket]]
  <2>1. DOMAIN sock' = People /\ sock' = [p \in People |-> sock'[p]]
    BY <1>1
  <2> QED BY <1>3, <2>1
<1> QED BY <1>2, <1>3, <1>4 DEF AllOK

\* Those in earshot of p by some pairs are people, and by one pair each.
LEMMA WithOthers ==
  ASSUME NEW ms \in SUBSET Meet, NEW p \in People
  PROVE  With(ms, p) \subseteq People /\ \A q \in With(ms, p) : {p, q} \in ms
<1> SUFFICES ASSUME NEW q \in With(ms, p) PROVE q \in People /\ {p, q} \in ms
  OBVIOUS
<1>1. PICK m \in ms : p \in m /\ q \in m /\ q # p
  BY DEF With
<1>2. PICK a \in People, b \in People : m = {a, b}
  BY MeetAssumption
<1>3. m = {p, q} /\ q \in People
  BY <1>1, <1>2
<1> QED BY <1>1, <1>3

LEMMA SweepsInv == ASSUME VoiceInv, Sweeps PROVE VoiceInv'
<1> DEFINE gone == [p \in People |-> With(Part, p)]
           come == [p \in People |-> With(Enter, p)]
<1>1. /\ UpdatePeers(sock, conns, gone, come) /\ UNCHANGED <<conns, page>>
      /\ pairs' = (pairs \cup Enter) \ Part
  BY DEF Sweeps
<1>2. Part \in SUBSET Meet /\ Enter \in SUBSET Meet /\ Part \cap Enter = {}
  BY DEF VoiceInv, GraphOK, Part, Enter
<1>3. AllDistinct(gone, come)
  BY <1>2, WithOthers DEF AllDistinct, Distinct
<1> HIDE DEF gone, come
<1>4. AllOK(sock, conns, page) /\ hearers \in [People -> SUBSET People]
  BY DEF VoiceInv, SocketsOK, ConnsOK, PagesOK, GraphOK, AllOK
<1>5. AllOK(sock', conns, page) /\ hearers' \in [People -> SUBSET People]
  BY <1>1, <1>3, <1>4, EverybodyIsTold
<1>6. PagesOK' /\ SocketsOK' /\ ConnsOK'
  BY <1>1, <1>5 DEF VoiceInv, PagesOK, Holds, SocketsOK, ConnsOK, AllOK
<1>7. GraphOK'
  BY <1>1, <1>2, <1>5 DEF VoiceInv, GraphOK
<1> QED BY <1>6, <1>7 DEF VoiceInv

LEMMA RemovedInv == ASSUME VoiceInv, NEW p \in People, Removed(p) PROVE VoiceInv'
<1> PICK pgs : pgs = Closing(p)
  OBVIOUS
<1> PICK cs : cs = [conns EXCEPT ![p] = None]
  OBVIOUS
<1> DEFINE closed == IF conns[p] = None THEN sock
                     ELSE [sock EXCEPT ![p][conns[p]] = Shut(@, FALSE)]
           ended == [q \in People |-> IF q = p THEN hearers[p]
                                      ELSE IF q \in hearers[p] THEN {p} ELSE {}]
           none == [q \in People |-> {}]
<1>1. /\ page' = pgs /\ conns' = cs /\ pairs' = {m \in pairs : p \notin m}
      /\ UpdatePeers(closed, cs, ended, none)
  BY DEF Removed
<1>2. /\ sock \in [People -> [Sockets -> Socket]] /\ conns \in [People -> Sockets \cup {None}]
      /\ page \in [People -> Page] /\ hearers \in [People -> SUBSET People]
      /\ \A q \in People, k \in Sockets : SocketOK(sock[q][k], page[q], k)
      /\ \A q \in People : conns[q] # None => sock[q][conns[q]].at = "bound"
  BY DEF VoiceInv, SocketsOK, ConnsOK, PagesOK, GraphOK
<1>3. QuietPage \in Page /\ QuietPage.peers = NoTable /\ QuietPage.ws = None /\ None \notin Sockets
  BY DEF QuietPage, Page, NoTable, Table, None, Sockets
<1>4. /\ pgs \in [People -> Page] /\ pgs[p] = QuietPage
      /\ \A q \in People \ {p} : pgs[q] = page[q]
  BY <1>2, <1>3 DEF Closing
<1>5. Unused \in Socket /\ \A k \in Sockets : SocketOK(Unused, pgs[p], k)
  <2>1. QuietPage.ws \notin Sockets
    BY <1>3
  <2>2. ASSUME NEW k \in Sockets PROVE SocketOK(Unused, QuietPage, k)
    BY <1>3, <2>1, UnusedIsOK
  <2> QED BY <1>4, <2>2, UnusedIsTyped
<1>6. /\ closed \in [People -> [Sockets -> Socket]] /\ \A q \in People \ {p} : closed[q] = sock[q]
      /\ \A k \in Sockets : closed[p][k] \in {sock[p][k], Unused}
  <2>1. CASE conns[p] = None
    BY <1>2, <2>1
  <2>2. CASE conns[p] # None
    <3>1. PICK c \in Sockets : conns[p] = c
      BY <1>2, <2>2
    <3>2. closed = [sock EXCEPT ![p][c] = Unused]
      BY <2>2, <3>1 DEF Shut
    <3> HIDE DEF closed
    <3> QED BY <1>2, <1>5, <3>2
  <2> QED BY <2>1, <2>2
<1> HIDE DEF closed
<1>7. ASSUME NEW q \in People, NEW k \in Sockets PROVE SocketOK(closed[q][k], pgs[q], k)
  <2>1. CASE q # p
    BY <1>2, <1>4, <1>6, <2>1
  <2>2. CASE q = p /\ closed[q][k] = Unused
    BY <1>5, <2>2
  <2>3. CASE q = p /\ closed[q][k] = sock[q][k]
    <3>1. pgs[q].ws # k /\ SocketOK(sock[q][k], page[q], k)
      BY <1>2, <1>3, <1>4, <2>3
    <3> QED BY <2>3, <3>1, LetGo
  <2> QED BY <1>6, <2>1, <2>2, <2>3
<1>8. /\ cs \in [People -> Sockets \cup {None}] /\ cs[p] = None
      /\ \A q \in People : cs[q] # None => q # p /\ cs[q] = conns[q]
  BY <1>2
<1>9. \A q \in People : cs[q] # None => closed[q][cs[q]].at = "bound"
  BY <1>2, <1>6, <1>8
<1>10. AllDistinct(ended, none) /\ AllOK(closed, cs, pgs)
  BY <1>2, <1>4, <1>6, <1>7, <1>8, <1>9 DEF AllDistinct, Distinct, AllOK
<1> HIDE DEF ended, none
<1>11. AllOK(sock', cs, pgs) /\ hearers' \in [People -> SUBSET People]
  BY <1>1, <1>2, <1>10, EverybodyIsTold
<1>12. PagesOK'
  BY <1>1, <1>3, <1>4 DEF VoiceInv, PagesOK, Holds
<1>13. SocketsOK' /\ ConnsOK'
  BY <1>1, <1>11 DEF SocketsOK, ConnsOK, AllOK
<1>14. GraphOK'
  BY <1>1, <1>11 DEF VoiceInv, GraphOK
<1> QED BY <1>12, <1>13, <1>14 DEF VoiceInv

LEMMA VoiceNextInv == ASSUME VoiceInv, [VoiceNext]_voiceVars PROVE VoiceInv'
<1>1. CASE UNCHANGED <<pairs, hearers, conns, sock, page>>
  BY <1>1 DEF VoiceInv, PagesOK, Holds, SocketsOK, ConnsOK, GraphOK
<1>2. ASSUME NEW p \in People, NEW k \in Sockets, Door(p, k) \/ Refuses(p, k) \/ Cuts(p, k)
      PROVE  VoiceInv'
  BY <1>2, HelloInv, VerifiedInv, SeesCloseInv, RefusesInv, CutsInv DEF Door
<1>3. ASSUME NEW p \in People, Resumes(p) \/ Removed(p) \/ Watch(p) \/ PageHears(p) \/ Closed(p)
      PROVE  VoiceInv'
  BY <1>3, LeavesInv, RemovedInv, OpensInv, PageHearsInv, ClosedInv DEF Watch
<1>4. ASSUME NEW p \in People, NEW r \in People, Relays(p, r) PROVE VoiceInv'
  BY <1>4, RelaysInv
<1>5. CASE Sweeps
  BY <1>5, SweepsInv
<1> QED BY <1>1, <1>2, <1>3, <1>4, <1>5 DEF VoiceNext, Walks, Drops, voiceVars

PlacesOK == band \in [Meet -> Bands] /\ seat \in [People -> {"here", "away", "gone"}]

\* The shape of the state.
THEOREM VoiceTypes == VoiceSpec => []VoiceTypeOK
<1>1. VoiceInit => PlacesOK
  BY DEF VoiceInit, PlacesOK, Bands
<1>2. ASSUME PlacesOK, [VoiceNext]_voiceVars PROVE PlacesOK'
  <2>1. CASE UNCHANGED <<band, seat>>
    BY <1>2, <2>1 DEF PlacesOK
  <2>2. ASSUME NEW m \in Meet, Walks(m) PROVE PlacesOK'
    BY <1>2, <2>2 DEF Walks, PlacesOK
  <2>3. ASSUME NEW p \in People, Drops(p) \/ Resumes(p) \/ Removed(p) PROVE PlacesOK'
    <3>1. UNCHANGED band /\ \E x \in {"here", "away", "gone"} : seat' = [seat EXCEPT ![p] = x]
      BY <2>3 DEF Drops, Resumes, Removed
    <3> QED BY <1>2, <3>1 DEF PlacesOK
  <2>4. ASSUME NEW p \in People, NEW k \in Sockets, Door(p, k) \/ Refuses(p, k) \/ Cuts(p, k)
        PROVE  UNCHANGED <<band, seat>>
    BY <2>4 DEF Door, Hello, Verified, SeesClose, Refuses, Cuts
  <2>5. ASSUME NEW p \in People, Watch(p) \/ PageHears(p) \/ Closed(p)
        PROVE  UNCHANGED <<band, seat>>
    <3>1. Watch(p) => UNCHANGED <<band, seat>>
      BY DEF Watch, Opens, Alone
    <3>2. PageHears(p) => UNCHANGED <<band, seat>>
      BY DEF PageHears
    <3>3. Closed(p) => UNCHANGED <<band, seat>>
      BY DEF Closed
    <3> QED BY <2>5, <3>1, <3>2, <3>3
  <2>6. ASSUME NEW p \in People, NEW r \in People, Relays(p, r) PROVE UNCHANGED <<band, seat>>
    BY <2>6 DEF Relays
  <2>7. CASE Sweeps
    BY <2>1, <2>7 DEF Sweeps
  <2> QED BY <1>2, <2>1, <2>2, <2>3, <2>4, <2>5, <2>6, <2>7 DEF VoiceNext, voiceVars
<1>3. PlacesOK /\ VoiceInv => VoiceTypeOK
  <2> SUFFICES ASSUME PlacesOK, VoiceInv PROVE VoiceTypeOK
    OBVIOUS
  <2>1. \A p \in People, k \in Sockets : sock[p][k] \in Socket
    BY DEF VoiceInv, SocketsOK
  <2>2. \A p \in People, k \in Sockets : sock[p][k].at \in {"none", "hello", "checking", "bound", "shut"}
    BY <2>1 DEF Socket
  <2> QED BY <2>2 DEF PlacesOK, VoiceInv, PagesOK, Page, Table, ConnsOK, GraphOK, VoiceTypeOK
<1> QED BY <1>1, <1>2, <1>3, VoiceInitInv, VoiceNextInv, PTL DEF VoiceSpec

\* Whatever bytes are used again, and wherever people walk, drop and open
\* another socket: a frame that comes to a page is played as its sender's.
THEOREM FramesFindTheirSender == VoiceSpec => []VoiceIsTheirs
<1>1. VoiceInv => VoiceIsTheirs
  <2> SUFFICES ASSUME VoiceInv, NEW p \in People, page[p].ws # None,
                      sock[p][page[p].ws].wire # <<>>, Head(sock[p][page[p].ws].wire).is = "frame"
               PROVE  page[p].peers[Head(sock[p][page[p].ws].wire).byte] = Head(sock[p][page[p].ws].wire).from
    BY Zenon DEF VoiceIsTheirs
  <2>1. PICK k \in Sockets : page[p].ws = k
    BY DEF VoiceInv, PagesOK, Page
  <2>2. sock[p][k] \in Socket /\ SocketOK(sock[p][k], page[p], k)
    BY DEF VoiceInv, SocketsOK
  <2> PICK x, t : x = sock[p][k] /\ t = page[p].peers
    OBVIOUS
  <2>3. Follows(x, t)
    BY <2>1, <2>2 DEF SocketOK
  <2>4. x.wire \in Seq(Message)
    BY <2>2 DEF Socket
  <2>5. Head(x.wire) = x.wire[1] /\ 1 \in 1..Len(x.wire)
    BY <2>1, <2>4
  <2>6. x.wire[1].is = "frame" => t[x.wire[1].byte] = x.wire[1].from
    BY <2>3, <2>5 DEF Follows
  <2> QED BY <2>1, <2>5, <2>6
<1> QED BY <1>1, VoiceInitInv, VoiceNextInv, PTL DEF VoiceSpec

-----------------------------------------------------------------------------
(* One graph, in the office, at the relay and in the tables of its sockets. *)

\* Those in earshot of p by some pairs are the others of p's pairs among them.
LEMMA WithExactly ==
  ASSUME NEW ms \in SUBSET Meet, NEW p \in People, NEW q
  PROVE  q \in With(ms, p) <=> (q # p /\ {p, q} \in ms)
<1>1. ASSUME {p, q} \in ms, q # p PROVE q \in With(ms, p)
  BY <1>1 DEF With
<1>2. ASSUME q \in With(ms, p) PROVE q # p
  BY <1>2 DEF With
<1> QED BY <1>1, <1>2, WithOthers

\* What a receiver hears once all are told.
LEMMA HearsThen ==
  ASSUME NEW socks, NEW cs, NEW gone, NEW come, UpdatePeers(socks, cs, gone, come)
  PROVE  hearers' = [p \in People |-> (hearers[p] \cup come[p]) \ gone[p]]
BY DEF UpdatePeers

LEMMA SweepsKeepsOneGraph == ASSUME VoiceInv, OneGraph, Sweeps PROVE OneGraph'
<1> SUFFICES ASSUME NEW p \in People, NEW q \in People
             PROVE  q \in hearers'[p] <=> p # q /\ {p, q} \in pairs'
  BY DEF OneGraph, Pair
<1>1. Part \in SUBSET Meet /\ Enter \in SUBSET Meet
  BY DEF VoiceInv, GraphOK, Part, Enter
<1>2. hearers'[p] = (hearers[p] \cup With(Enter, p)) \ With(Part, p)
  BY HearsThen DEF Sweeps
<1>3. pairs' = (pairs \cup Enter) \ Part
  BY DEF Sweeps
<1>4. /\ q \in With(Enter, p) <=> (q # p /\ {p, q} \in Enter)
      /\ q \in With(Part, p) <=> (q # p /\ {p, q} \in Part)
  BY <1>1, WithExactly
<1>5. q \in hearers[p] <=> p # q /\ {p, q} \in pairs
  BY DEF OneGraph, Pair
<1> QED BY <1>2, <1>3, <1>4, <1>5

LEMMA RemovedKeepsOneGraph ==
  ASSUME VoiceInv, OneGraph, NEW r \in People, Removed(r)
  PROVE  OneGraph'
<1> SUFFICES ASSUME NEW p \in People, NEW q \in People
             PROVE  q \in hearers'[p] <=> p # q /\ {p, q} \in pairs'
  BY DEF OneGraph, Pair
<1>1. hearers'[p] = hearers[p] \ (IF p = r THEN hearers[r]
                                  ELSE IF p \in hearers[r] THEN {r} ELSE {})
  <2> DEFINE ended == [o \in People |-> IF o = r THEN hearers[r]
                                        ELSE IF o \in hearers[r] THEN {r} ELSE {}]
             none == [o \in People |-> {}]
  <2>1. PICK closed : UpdatePeers(closed, conns', ended, none)
    BY DEF Removed
  <2>2. hearers' = [o \in People |-> (hearers[o] \cup none[o]) \ ended[o]]
    BY <2>1, HearsThen
  <2> QED BY <2>2
<1>2. {p, q} \in pairs' <=> {p, q} \in pairs /\ p # r /\ q # r
  BY DEF Removed
<1>3. /\ q \in hearers[p] <=> p # q /\ {p, q} \in pairs
      /\ p \in hearers[r] <=> p # r /\ {r, p} \in pairs
      /\ r \in hearers[p] <=> p # r /\ {p, r} \in pairs
      /\ {r, p} = {p, r}
  BY DEF OneGraph, Pair
<1> QED BY <1>1, <1>2, <1>3

\* Nothing a page does, and no frame, changes who is in earshot of whom.
LEMMA PagesKeepTheGraph ==
  ASSUME NEW p \in People,
         Drops(p) \/ Resumes(p) \/ Watch(p) \/ PageHears(p) \/ Closed(p) \/ \E r \in People : Relays(p, r)
  PROVE  UNCHANGED <<pairs, hearers, conns>>
<1>1. CASE Drops(p) \/ Resumes(p)
  BY <1>1 DEF Drops, Resumes
<1>2. CASE Watch(p)
  BY <1>2 DEF Watch, Opens, Alone
<1>3. CASE PageHears(p)
  BY <1>3 DEF PageHears
<1>4. CASE Closed(p)
  BY <1>4 DEF Closed
<1>5. CASE \E r \in People : Relays(p, r)
  BY <1>5 DEF Relays
<1> QED BY <1>1, <1>2, <1>3, <1>4, <1>5

\* The pairs the office keeps and the hearers the relay keeps are one graph,
\* though the one tells the other only what changed.
THEOREM OneGraphForBoth == VoiceSpec => []OneGraph
<1>1. VoiceInit => OneGraph
  BY DEF VoiceInit, OneGraph
<1>2. ASSUME VoiceInv, OneGraph, [VoiceNext]_voiceVars PROVE OneGraph'
  <2>1. CASE UNCHANGED <<pairs, hearers>>
    BY <1>2, <2>1 DEF OneGraph
  <2>2. CASE Sweeps
    BY <1>2, <2>2, SweepsKeepsOneGraph
  <2>3. ASSUME NEW p \in People, Removed(p) PROVE OneGraph'
    BY <1>2, <2>3, RemovedKeepsOneGraph
  <2>4. ASSUME NEW p \in People, NEW k \in Sockets, Door(p, k) \/ Refuses(p, k) \/ Cuts(p, k)
        PROVE  UNCHANGED <<pairs, hearers>>
    BY <2>4 DEF Door, Hello, Verified, SeesClose, Refuses, Cuts
  <2>5. ASSUME NEW p \in People,
               Drops(p) \/ Resumes(p) \/ Watch(p) \/ PageHears(p) \/ Closed(p) \/ \E r \in People : Relays(p, r)
        PROVE  UNCHANGED <<pairs, hearers>>
    BY <2>5, PagesKeepTheGraph
  <2> QED BY <1>2, <2>1, <2>2, <2>3, <2>4, <2>5 DEF VoiceNext, Walks, voiceVars
<1> QED BY <1>1, <1>2, VoiceInitInv, VoiceNextInv, PTL DEF VoiceSpec

-----------------------------------------------------------------------------
(* The tables follow it.                                                   *)

\* Whom a table names.
Named(t) == Range(t) \ {Nobody}

LEMMA NamedIn == ASSUME NEW t \in Table, NEW q
                 PROVE  q \in Named(t) <=> q # Nobody /\ \E i \in Bytes : t[i] = q
BY DEF Named, Range, Table

\* A table after some have gone and some have come names the rest, and those.
LEMMA TableOfNames ==
  ASSUME NEW t \in Table, NEW gone, NEW come, Distinct(gone, come), NEW u \in TableOf(t, gone, come)
  PROVE  u \in Table /\ Named(u) = (Named(t) \cup come) \ gone
<1>1. /\ u \in Table
      /\ \A i \in Bytes : t[i] \in People \ gone => u[i] = t[i]
      /\ \A i \in Bytes : t[i] \notin People \ gone => u[i] \in come \cup {Nobody}
      /\ \A q \in come : \E i \in Bytes : u[i] = q
  BY DEF TableOf, Table
<1>2. Nobody \notin People /\ gone \subseteq People /\ come \subseteq People /\ gone \cap come = {}
  BY NobodyAssumption DEF Nobody, Distinct
<1>3. \A i \in Bytes : t[i] \in People \cup {Nobody}
  BY DEF Table
<1>4. ASSUME NEW q PROVE q \in Named(u) <=> q \in (Named(t) \cup come) \ gone
  <2>1. /\ q \in Named(u) <=> q # Nobody /\ \E i \in Bytes : u[i] = q
        /\ q \in Named(t) <=> q # Nobody /\ \E i \in Bytes : t[i] = q
    BY <1>1, NamedIn
  <2>2. ASSUME NEW i \in Bytes, u[i] = q, q # Nobody PROVE q \in (Named(t) \cup come) \ gone
    <3>1. CASE t[i] \in People \ gone
      BY <1>1, <1>2, <2>1, <2>2, <3>1
    <3>2. CASE t[i] \notin People \ gone
      BY <1>1, <1>2, <2>2, <3>2
    <3> QED BY <3>1, <3>2
  <2>3. ASSUME q \in come PROVE q # Nobody /\ \E i \in Bytes : u[i] = q
    BY <1>1, <1>2, <2>3
  <2>4. ASSUME NEW i \in Bytes, t[i] = q, q # Nobody, q \notin gone PROVE u[i] = q
    BY <1>1, <1>3, <2>4
  <2> QED BY <2>1, <2>2, <2>3, <2>4
<1> QED BY <1>1, <1>4

TablesFollow == \A p \in People : conns[p] # None => Named(sock[p][conns[p]].knows) = hearers[p]

\* No session has a socket it had not, and no table is another.
LEMMA SameTables ==
  ASSUME TablesFollow, UNCHANGED hearers,
         \A p \in People : conns'[p] # None =>
           conns'[p] = conns[p] /\ sock'[p][conns[p]].knows = sock[p][conns[p]].knows
  PROVE  TablesFollow'
<1> SUFFICES ASSUME NEW p \in People, conns'[p] # None
             PROVE  Named(sock'[p][conns'[p]].knows) = hearers'[p]
  BY DEF TablesFollow
<1>1. conns'[p] = conns[p] /\ conns[p] # None /\ sock'[p][conns[p]].knows = sock[p][conns[p]].knows
  OBVIOUS
<1>2. Named(sock[p][conns[p]].knows) = hearers[p]
  BY <1>1 DEF TablesFollow
<1> QED BY <1>1, <1>2

\* Everybody with a socket is told.
LEMMA TellingFollows ==
  ASSUME NEW socks \in [People -> [Sockets -> Socket]], NEW cs \in [People -> Sockets \cup {None}],
         NEW gone, NEW come, AllDistinct(gone, come),
         \A p \in People : cs[p] # None => Named(socks[p][cs[p]].knows) = hearers[p],
         UpdatePeers(socks, cs, gone, come)
  PROVE  \A p \in People : cs[p] # None => Named(sock'[p][cs[p]].knows) = hearers'[p]
<1> DEFINE knows(p) == socks[p][cs[p]].knows
           those == {p \in People : cs[p] # None /\ come[p] \cup (gone[p] \cap Range(knows(p))) # {}}
<1>1. PICK t :
        /\ \A p \in those : t[p] \in TableOf(knows(p), gone[p], come[p])
        /\ sock' = [p \in People |->
             IF p \in those
             THEN [socks[p] EXCEPT ![cs[p]] =
                     Retabled(socks[p][cs[p]], t[p], gone[p] \cap Range(socks[p][cs[p]].knows), come[p])]
             ELSE socks[p]]
  BY DEF UpdatePeers
<1> SUFFICES ASSUME NEW p \in People, NEW c \in Sockets, cs[p] = c, c # None
             PROVE  Named(sock'[p][c].knows) = hearers'[p]
  OBVIOUS
<1>2. hearers'[p] = (hearers[p] \cup come[p]) \ gone[p]
  BY HearsThen
<1> PICK x : x = socks[p][c]
  OBVIOUS
<1>3. x \in Socket /\ x.knows \in Table /\ Named(x.knows) = hearers[p] /\ socks[p] \in [Sockets -> Socket]
  BY DEF Socket
<1>4. Distinct(gone[p], come[p])
  BY DEF AllDistinct
<1>5. CASE p \in those
  <2> PICK u, g, m : u = t[p] /\ g = gone[p] \cap Range(x.knows) /\ m = come[p]
    OBVIOUS
  <2>1. sock'[p] = [socks[p] EXCEPT ![c] = Retabled(x, u, g, m)]
    BY <1>1, <1>5
  <2>2. Retabled(x, u, g, m).knows = u
    BY <1>3 DEF Retabled, OnTheWire, Socket
  <2>3. u \in TableOf(x.knows, gone[p], come[p])
    BY <1>1, <1>5
  <2>4. Named(u) = (Named(x.knows) \cup come[p]) \ gone[p]
    BY <1>3, <1>4, <2>3, TableOfNames
  <2>5. sock'[p][c] = Retabled(x, u, g, m)
    BY <1>3, <2>1
  <2> QED BY <1>2, <1>3, <2>2, <2>4, <2>5
<1>6. CASE p \notin those
  <2>1. sock'[p] = socks[p]
    BY <1>1, <1>6
  <2>2. come[p] = {} /\ gone[p] \cap Range(x.knows) = {}
    BY <1>6
  <2> QED BY <1>2, <1>3, <2>1, <2>2 DEF Named
<1> QED BY <1>5, <1>6

LEMMA SweepsFollows == ASSUME VoiceInv, TablesFollow, Sweeps PROVE TablesFollow'
<1> DEFINE gone == [p \in People |-> With(Part, p)]
           come == [p \in People |-> With(Enter, p)]
<1>1. UpdatePeers(sock, conns, gone, come) /\ UNCHANGED conns
  BY DEF Sweeps
<1>2. Part \in SUBSET Meet /\ Enter \in SUBSET Meet /\ Part \cap Enter = {}
  BY DEF VoiceInv, GraphOK, Part, Enter
<1>3. AllDistinct(gone, come)
  BY <1>2, WithOthers DEF AllDistinct, Distinct
<1> HIDE DEF gone, come
<1>4. sock \in [People -> [Sockets -> Socket]] /\ conns \in [People -> Sockets \cup {None}]
  BY DEF VoiceInv, SocketsOK, ConnsOK
<1>5. \A p \in People : conns[p] # None => Named(sock'[p][conns[p]].knows) = hearers'[p]
  BY <1>1, <1>3, <1>4, TellingFollows DEF TablesFollow
<1> QED BY <1>1, <1>5 DEF TablesFollow

LEMMA RemovedFollows == ASSUME VoiceInv, TablesFollow, NEW p \in People, Removed(p) PROVE TablesFollow'
<1> PICK cs : cs = [conns EXCEPT ![p] = None]
  OBVIOUS
<1> DEFINE closed == IF conns[p] = None THEN sock
                     ELSE [sock EXCEPT ![p][conns[p]] = Shut(@, FALSE)]
           ended == [q \in People |-> IF q = p THEN hearers[p]
                                      ELSE IF q \in hearers[p] THEN {p} ELSE {}]
           none == [q \in People |-> {}]
<1>1. conns' = cs /\ UpdatePeers(closed, cs, ended, none)
  BY DEF Removed
<1>2. /\ sock \in [People -> [Sockets -> Socket]] /\ conns \in [People -> Sockets \cup {None}]
      /\ hearers \in [People -> SUBSET People] /\ Unused \in Socket
  BY UnusedIsTyped DEF VoiceInv, SocketsOK, ConnsOK, GraphOK
<1>3. closed \in [People -> [Sockets -> Socket]] /\ \A q \in People \ {p} : closed[q] = sock[q]
  <2>1. CASE conns[p] = None
    BY <1>2, <2>1
  <2>2. CASE conns[p] # None
    <3>1. PICK c \in Sockets : conns[p] = c
      BY <1>2, <2>2
    <3>2. closed = [sock EXCEPT ![p][c] = Unused]
      BY <2>2, <3>1 DEF Shut
    <3> HIDE DEF closed
    <3> QED BY <1>2, <3>2
  <2> QED BY <2>1, <2>2
<1> HIDE DEF closed
<1>4. /\ cs \in [People -> Sockets \cup {None}]
      /\ \A q \in People : cs[q] # None => q # p /\ cs[q] = conns[q]
  BY <1>2
<1>5. \A q \in People : cs[q] # None => Named(closed[q][cs[q]].knows) = hearers[q]
  BY <1>3, <1>4 DEF TablesFollow
<1>6. AllDistinct(ended, none)
  BY <1>2 DEF AllDistinct, Distinct
<1> HIDE DEF ended, none
<1>7. \A q \in People : cs[q] # None => Named(sock'[q][cs[q]].knows) = hearers'[q]
  BY <1>1, <1>3, <1>4, <1>5, <1>6, TellingFollows
<1> QED BY <1>1, <1>7 DEF TablesFollow

LEMMA VerifiedFollows ==
  ASSUME VoiceInv, TablesFollow, NEW p \in People, NEW k \in Sockets, Verified(p, k)
  PROVE  TablesFollow'
<1>1. /\ sock[p][k].at = "checking" /\ UNCHANGED hearers /\ sock \in [People -> [Sockets -> Socket]]
      /\ conns \in [People -> Sockets \cup {None}] /\ hearers[p] \subseteq People
      /\ \A q \in People : conns[q] # None => sock[q][conns[q]].at = "bound"
  BY DEF Verified, VoiceInv, SocketsOK, ConnsOK, GraphOK
<1>2. CASE ~Human(p)
  <2>1. sock' = [sock EXCEPT ![p][k] = Shut(@, Holds(p, k))] /\ UNCHANGED conns
    BY <1>2 DEF Verified, Closes
  <2>2. ASSUME NEW q \in People, conns[q] # None
        PROVE  sock'[q][conns[q]] = sock[q][conns[q]]
    <3>1. sock[q][conns[q]].at = "bound" /\ conns[q] \in Sockets
      BY <1>1, <2>2
    <3>2. q # p \/ conns[q] # k
      BY <1>1, <3>1
    <3> QED BY <1>1, <2>1, <3>1, <3>2
  <2> QED BY <1>1, <2>1, <2>2, SameTables
<1>3. CASE Human(p)
  <2>1. PICK t \in Welcomes(p) :
          /\ conns' = [conns EXCEPT ![p] = k]
          /\ sock' = [sock EXCEPT ![p] = [j \in Sockets |->
               IF j = k THEN Retabled([sock[p][k] EXCEPT !.at = "bound"], t, {}, Range(t) \ {Nobody})
               ELSE IF j = conns[p] THEN Shut(sock[p][j], Holds(p, j)) ELSE sock[p][j]]]
    BY <1>3 DEF Verified
  <2> PICK x, m : x = [sock[p][k] EXCEPT !.at = "bound"] /\ m = Range(t) \ {Nobody}
    OBVIOUS
  <2>2. x \in Socket
    <3>1. PICK z \in Socket : x = [z EXCEPT !.at = "bound"]
      BY <1>1
    <3> QED BY <3>1 DEF Socket
  <2>3. conns'[p] = k /\ sock'[p][k] = Retabled(x, t, {}, m)
    BY <1>1, <2>1
  <2>4. Retabled(x, t, {}, m).knows = t
    BY <2>2 DEF Retabled, OnTheWire, Socket
  <2>5. Named(t) = hearers[p]
    <3>1. Named(t) = (Named(NoTable) \cup hearers[p]) \ {}
      BY <1>1, TableOfNames, UnusedIsTyped DEF Welcomes, Distinct
    <3>2. Named(NoTable) = {}
      BY DEF Named, Range, NoTable
    <3> QED BY <3>1, <3>2
  <2>6. \A q \in People \ {p} : conns'[q] = conns[q] /\ sock'[q] = sock[q]
    BY <1>1, <2>1
  <2>7. ASSUME NEW q \in People, conns'[q] # None
        PROVE  Named(sock'[q][conns'[q]].knows) = hearers'[q]
    <3>1. CASE q = p
      BY <1>1, <2>3, <2>4, <2>5, <3>1
    <3>2. CASE q # p
      <4>1. conns'[q] = conns[q] /\ sock'[q] = sock[q] /\ conns[q] # None
        BY <2>6, <2>7, <3>2
      <4>2. Named(sock[q][conns[q]].knows) = hearers[q]
        BY <4>1 DEF TablesFollow
      <4> QED BY <1>1, <4>1, <4>2
    <3> QED BY <3>1, <3>2
  <2> QED BY <2>7 DEF TablesFollow
<1> QED BY <1>2, <1>3

\* One socket that is not the session's, or keeps its table.
LEMMA OneFollows ==
  ASSUME VoiceInv, TablesFollow, NEW p \in People, NEW k \in Sockets, NEW y,
         sock' = [sock EXCEPT ![p][k] = y], UNCHANGED hearers,
         y.knows = sock[p][k].knows \/ conns'[p] # k,
         \A q \in People : conns'[q] # None => conns'[q] = conns[q]
  PROVE  TablesFollow'
<1>1. sock \in [People -> [Sockets -> Socket]] /\ conns \in [People -> Sockets \cup {None}]
  BY DEF VoiceInv, SocketsOK, ConnsOK
<1>2. ASSUME NEW q \in People, conns'[q] # None
      PROVE  conns'[q] = conns[q] /\ sock'[q][conns[q]].knows = sock[q][conns[q]].knows
  <2>1. conns'[q] = conns[q] /\ conns[q] \in Sockets
    BY <1>1, <1>2
  <2>2. CASE q = p /\ conns[q] = k
    BY <1>1, <2>1, <2>2
  <2>3. CASE q # p \/ conns[q] # k
    <3>1. sock'[q][conns[q]] = sock[q][conns[q]]
      BY <1>1, <2>1, <2>3
    <3> QED BY <2>1, <3>1
  <2> QED BY <2>2, <2>3
<1> QED BY <1>2, SameTables

LEMMA DoorFollows ==
  ASSUME VoiceInv, TablesFollow, NEW p \in People, NEW k \in Sockets,
         Hello(p, k) \/ Refuses(p, k) \/ SeesClose(p, k) \/ Cuts(p, k)
  PROVE  TablesFollow'
<1>1. /\ sock \in [People -> [Sockets -> Socket]] /\ conns \in [People -> Sockets \cup {None}]
      /\ \A q \in People : conns[q] # None => sock[q][conns[q]].at = "bound"
      /\ sock[p][k] \in Socket
  BY DEF VoiceInv, SocketsOK, ConnsOK
<1> PICK x : x = sock[p][k]
  OBVIOUS
<1>2. CASE Hello(p, k) \/ Refuses(p, k)
  <2>1. /\ x.at \in {"hello", "checking"} /\ UNCHANGED <<hearers, conns>>
        /\ \E y : sock' = [sock EXCEPT ![p][k] = y]
    BY <1>2 DEF Hello, Refuses, Closes
  <2>2. conns[p] # k \/ k = None
    BY <1>1, <2>1
  <2>3. k # None
    BY DEF Sockets, None
  <2> QED BY <2>1, <2>2, <2>3, OneFollows
<1>3. CASE SeesClose(p, k)
  <2>1. /\ UNCHANGED hearers /\ \E y : sock' = [sock EXCEPT ![p][k] = y]
        /\ conns' = IF conns[p] = k THEN [conns EXCEPT ![p] = None] ELSE conns
    BY <1>3 DEF SeesClose
  <2>2. k # None
    BY DEF Sockets, None
  <2>3. conns'[p] # k /\ \A q \in People : conns'[q] # None => conns'[q] = conns[q]
    BY <1>1, <2>1, <2>2
  <2> QED BY <2>1, <2>3, OneFollows
<1>4. CASE Cuts(p, k)
  <2> PICK y : y = [x EXCEPT !.cut = TRUE, !.wire = <<>>]
    OBVIOUS
  <2>1. sock' = [sock EXCEPT ![p][k] = y] /\ UNCHANGED <<hearers, conns>>
    BY <1>4 DEF Cuts
  <2>2. y.knows = x.knows
    BY <1>1 DEF Socket
  <2> QED BY <2>1, <2>2, OneFollows
<1> QED BY <1>2, <1>3, <1>4

LEMMA PageFollows ==
  ASSUME VoiceInv, TablesFollow, NEW p \in People,
         Drops(p) \/ Resumes(p) \/ Watch(p) \/ PageHears(p) \/ Closed(p) \/ \E r \in People : Relays(p, r)
  PROVE  TablesFollow'
<1>1. /\ sock \in [People -> [Sockets -> Socket]] /\ conns \in [People -> Sockets \cup {None}]
      /\ page[p].ws \in Sockets \cup {None}
      /\ \A q \in People : conns[q] # None => sock[q][conns[q]].at = "bound"
  BY DEF VoiceInv, SocketsOK, ConnsOK, PagesOK, Page
<1>2. UNCHANGED <<hearers, conns>>
  BY PagesKeepTheGraph
<1>3. CASE UNCHANGED sock
  BY <1>2, <1>3, SameTables
<1>4. CASE Opens(p)
  <2>1. PICK k \in Sockets : sock[p][k].at = "none" /\ sock' = [sock EXCEPT ![p][k].at = "hello"]
    BY <1>4 DEF Opens
  <2>2. conns[p] # k
    BY <1>1, <2>1 DEF Sockets, None
  <2>3. \E y : sock' = [sock EXCEPT ![p][k] = y]
    BY <2>1
  <2> QED BY <1>2, <2>2, <2>3, OneFollows
<1>5. CASE PageHears(p)
  <2>1. PICK k \in Sockets : page[p].ws = k
    BY <1>1, <1>5 DEF PageHears
  <2>2. sock' = [sock EXCEPT ![p][k].wire = Tail(@)] /\ sock[p][k] \in Socket
    BY <1>1, <1>5, <2>1 DEF PageHears
  <2> PICK x : x = sock[p][k]
    OBVIOUS
  <2> PICK y : y = [x EXCEPT !.wire = Tail(@)]
    OBVIOUS
  <2>3. sock' = [sock EXCEPT ![p][k] = y]
    BY <2>2
  <2>4. y.knows = x.knows
    BY <2>2 DEF Socket
  <2> QED BY <1>2, <2>3, <2>4, OneFollows
<1>6. CASE Closed(p) /\ sock' # sock
  <2>1. PICK k \in Sockets : page[p].ws = k
    BY <1>1, <1>6 DEF Closed
  <2>2. sock[p][k].at = "shut" /\ sock' = [sock EXCEPT ![p][k] = Unused]
    BY <1>6, <2>1 DEF Closed
  <2>3. conns[p] # k
    BY <1>1, <2>2 DEF Sockets, None
  <2> QED BY <1>2, <2>2, <2>3, OneFollows
<1>7. ASSUME NEW r \in People, Relays(p, r) PROVE TablesFollow'
  <2>1. PICK i \in Bytes : sock' = [sock EXCEPT ![r][conns[r]] =
                                      OnTheWire(@, [is |-> "frame", byte |-> i, from |-> p])]
    BY <1>7 DEF Relays
  <2>2. PICK k \in Sockets : conns[r] = k
    BY <1>1, <1>7 DEF Relays
  <2> PICK x : x = sock[r][k]
    OBVIOUS
  <2> PICK y : y = OnTheWire(x, [is |-> "frame", byte |-> i, from |-> p])
    OBVIOUS
  <2>3. sock' = [sock EXCEPT ![r][k] = y]
    BY <2>1, <2>2
  <2>4. x \in Socket
    BY <1>1
  <2>5. y.knows = x.knows
    BY <2>4 DEF OnTheWire, Socket
  <2> QED BY <1>2, <2>3, <2>5, OneFollows
<1>8. Drops(p) \/ Resumes(p) \/ Alone(p) => UNCHANGED sock
  BY DEF Drops, Resumes, Alone
<1> QED BY <1>3, <1>4, <1>5, <1>6, <1>7, <1>8 DEF Watch

\* Whoever the relay has a session hear, its socket's table names, and nobody
\* else, however the bytes are given and taken back.
THEOREM TablesNameTheHeard == VoiceSpec => []TablesFollowTheGraph
<1>1. VoiceInit => TablesFollow
  BY DEF VoiceInit, TablesFollow
<1>2. ASSUME VoiceInv, TablesFollow, [VoiceNext]_voiceVars PROVE TablesFollow'
  <2>1. CASE UNCHANGED <<hearers, conns, sock>>
    BY <1>2, <2>1, SameTables
  <2>2. CASE Sweeps
    BY <1>2, <2>2, SweepsFollows
  <2>3. ASSUME NEW p \in People, Removed(p) PROVE TablesFollow'
    BY <1>2, <2>3, RemovedFollows
  <2>4. ASSUME NEW p \in People, NEW k \in Sockets, Door(p, k) \/ Refuses(p, k) \/ Cuts(p, k)
        PROVE  TablesFollow'
    BY <1>2, <2>4, VerifiedFollows, DoorFollows DEF Door
  <2>5. ASSUME NEW p \in People,
               Drops(p) \/ Resumes(p) \/ Watch(p) \/ PageHears(p) \/ Closed(p) \/ \E r \in People : Relays(p, r)
        PROVE  TablesFollow'
    BY <1>2, <2>5, PageFollows
  <2> QED BY <1>2, <2>1, <2>2, <2>3, <2>4, <2>5 DEF VoiceNext, Walks, voiceVars
<1>3. TablesFollow => TablesFollowTheGraph
  BY DEF TablesFollow, TablesFollowTheGraph, Named
<1> QED BY <1>1, <1>2, <1>3, VoiceInitInv, VoiceNextInv, PTL DEF VoiceSpec
=============================================================================
