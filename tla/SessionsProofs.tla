---------------------------- MODULE SessionsProofs ----------------------------
(***************************************************************************)
(* Proofs about the core memory and the sessions that are told of it, for  *)
(* any notes, writers, conversations, directories and bounds.               *)
(*                                                                         *)
(* The memory: a writer carries what it read and what it makes of it       *)
(* (MadeOf), and its write lands on the very row that read as it did: what  *)
(* the row loses and gains is what the writer took out and put in.          *)
(*                                                                         *)
(* The sessions: a session is in one place at a time (Placed); until a     *)
(* reload a conversation has one open (Calm); a session that is not to be   *)
(* told again knows the memory (Informed); and a conversation a reload is   *)
(* to keep has its session in the book, in the store of the reload, or in   *)
(* the one open that resumes it (Keeping).                                  *)
(***************************************************************************)
EXTENDS Memory, WorkerSessions, TLAPS

-----------------------------------------------------------------------------
(* The core memory.                                                        *)

Row == [there : BOOLEAN, notes : SUBSET Notes]

\* What is written is what was read with notes put in, or taken out.
MadeOf(r) ==
  r.pc \in {"set", "write"} =>
    /\ r.kind = "remember" => r.read \subseteq r.next
    /\ r.kind = "forget" => r.read \ r.ns \subseteq r.next
    /\ r.next \subseteq r.read \cup r.ns
    /\ r.pc = "write" => r.saw.notes = r.read

Good(r) == r \in WriterType /\ MadeOf(r)

CoreInv ==
  /\ row \in Row
  /\ DOMAIN writers = Writers
  /\ \A w \in Writers : writers[w] = Resting \/ Good(writers[w])

\* A step of one writer, to what is good again.
LEMMA StepsToGood ==
  ASSUME CoreInv, NEW w \in Writers, NEW r, Good(r), Goes(w, r), row' \in Row
  PROVE  CoreInv'
BY DEF CoreInv, Goes

LEMMA CoreStays ==
  ASSUME CoreInv, UNCHANGED <<row, writers>>
  PROVE  CoreInv'
BY DEF CoreInv

LEMMA BusyIsGood ==
  ASSUME CoreInv, NEW w \in Writers, ~Working(w, "idle")
  PROVE  Good(writers[w])
BY DEF CoreInv, Working, Resting

LEMMA AskingIsGood ==
  ASSUME NEW k \in {"remember", "forget", "tool"}, NEW ns \in SUBSET Notes
  PROVE  Good(Asking(k, ns))
BY DEF Good, MadeOf, Asking, WriterType, Absent

LEMMA AnswerIsGood ==
  ASSUME NEW w \in Writers, Good(writers[w]),
         NEW pc \in {"written", "conflict", "too large"}
  PROVE  Good(Answers(w, pc))
<1> DEFINE r == writers[w]
<1>1. Answers(w, pc) = [r EXCEPT !.pc = pc]
  BY DEF Answers
<1>2. [r EXCEPT !.pc = pc] \in WriterType
  BY DEF Good, WriterType
<1>3. [r EXCEPT !.pc = pc].pc = pc
  BY DEF Good, WriterType
<1>4. MadeOf([r EXCEPT !.pc = pc])
  BY <1>3 DEF MadeOf
<1> QED
  BY <1>1, <1>2, <1>4 DEF Good

LEMMA OverIsGood ==
  ASSUME NEW r, Good(r), NEW told \in {"done", "none", "failed"}
  PROVE  Good([r EXCEPT !.pc = "over", !.told = told])
<1>1. [r EXCEPT !.pc = "over", !.told = told] \in WriterType
  BY DEF Good, WriterType
<1>2. [r EXCEPT !.pc = "over", !.told = told].pc = "over"
  BY DEF Good, WriterType
<1>3. MadeOf([r EXCEPT !.pc = "over", !.told = told])
  BY <1>2 DEF MadeOf
<1> QED
  BY <1>1, <1>3 DEF Good

LEMMA AgainIsGood ==
  ASSUME NEW r, Good(r)
  PROVE  Good([r EXCEPT !.pc = "get", !.try = 2]) /\ Good([r EXCEPT !.told = "failed"])
<1>1. [r EXCEPT !.pc = "get", !.try = 2] \in WriterType
  BY DEF Good, WriterType
<1>3. [r EXCEPT !.told = "failed"] \in WriterType
  BY DEF Good, WriterType
<1>2. MadeOf([r EXCEPT !.pc = "get", !.try = 2]) /\ MadeOf([r EXCEPT !.told = "failed"])
  BY DEF Good, WriterType, MadeOf
<1> QED
  BY <1>1, <1>2, <1>3 DEF Good

-----------------------------------------------------------------------------
(* The steps.                                                              *)

LEMMA ReadsKeeps ==
  ASSUME CoreInv, NEW w \in Writers, Reads(w)
  PROVE  CoreInv'
<1> DEFINE r == writers[w]
<1>1. Good(r) /\ r.pc = "get" /\ row \in Row /\ row' \in Row
  BY BusyIsGood DEF Reads, Working, CoreInv
<1>2. ASSUME NEW ns \in SUBSET Notes, NEW next \in SUBSET Notes, NEW b \in BOOLEAN,
             r.kind = "remember" => row.notes \subseteq next,
             r.kind = "forget" => row.notes \ ns \subseteq next,
             next \subseteq row.notes \cup ns
      PROVE  Good([r EXCEPT !.pc = "set", !.ns = ns, !.read = row.notes, !.next = next, !.bound = b])
  <2> DEFINE q == [r EXCEPT !.pc = "set", !.ns = ns, !.read = row.notes, !.next = next, !.bound = b]
  <2>1. q \in WriterType
    BY <1>1 DEF Good, WriterType, Row
  <2>2. /\ q.pc = "set" /\ q.kind = r.kind /\ q.read = row.notes /\ q.next = next /\ q.ns = ns
    BY <1>1 DEF Good, WriterType
  <2>3. MadeOf(q)
    BY <1>2, <2>2 DEF MadeOf
  <2> QED
    BY <2>1, <2>3 DEF Good
<1>3. ASSUME NEW ns \in SUBSET Notes, NEW next \in SUBSET Notes, Sets(w, ns, next),
             r.kind = "remember" => row.notes \subseteq next,
             r.kind = "forget" => row.notes \ ns \subseteq next,
             next \subseteq row.notes \cup ns
      PROVE  CoreInv'
  <2> DEFINE q == [r EXCEPT !.pc = "set", !.ns = ns, !.read = row.notes, !.next = next]
  <2>1. q = [r EXCEPT !.pc = "set", !.ns = ns, !.read = row.notes, !.next = next, !.bound = r.bound]
        /\ r.bound \in BOOLEAN
    BY <1>1 DEF Good, WriterType
  <2>2. Good(q)
    BY <1>2, <1>3, <2>1
  <2>3. Goes(w, q)
    BY <1>3 DEF Sets
  <2> HIDE DEF q
  <2> QED
    BY <1>1, <2>2, <2>3, StepsToGood
<1>4. r.ns \subseteq Notes /\ row.notes \subseteq Notes
  BY <1>1 DEF Good, WriterType, Row
<1>5. ASSUME ReadsToRemember(w) PROVE CoreInv'
  BY <1>3, <1>4, <1>5 DEF ReadsToRemember
<1>6. ASSUME NEW q, Good(q), Goes(w, q) PROVE CoreInv'
  BY <1>1, <1>6, StepsToGood
<1>7. Good([r EXCEPT !.pc = "over", !.told = "none"])
  BY <1>1, OverIsGood
<1>11. ASSUME NothingToDo(w) PROVE CoreInv'
  BY <1>6, <1>7, <1>11 DEF NothingToDo
<1>8. ASSUME ReadsToFind(w) PROVE CoreInv'
  <2>1. ASSUME NEW ns \in SUBSET row.notes, Sets(w, ns, row.notes \ ns) PROVE CoreInv'
    BY <1>3, <1>4, <1>8, <2>1 DEF ReadsToFind
  <2>2. ASSUME NEW ns \in SUBSET row.notes, Goes(w, [r EXCEPT !.ns = ns]) PROVE CoreInv'
    <3>1. [r EXCEPT !.ns = ns] \in WriterType
      BY <1>1, <1>4 DEF Good, WriterType
    <3>2. MadeOf([r EXCEPT !.ns = ns])
      BY <1>1 DEF Good, WriterType, MadeOf
    <3> QED
      BY <1>6, <2>2, <3>1, <3>2 DEF Good
  <2> QED
    BY <1>8, <1>11, <2>1, <2>2 DEF ReadsToFind
<1>9. ASSUME ReadsToDrop(w) PROVE CoreInv'
  BY <1>3, <1>4, <1>9, <1>11 DEF ReadsToDrop
<1>10. ASSUME ReadsToRewrite(w) PROVE CoreInv'
  <2>1. PICK keep \in SUBSET row.notes, bound \in BOOLEAN :
          Goes(w, [r EXCEPT !.pc = "set", !.read = row.notes, !.next = keep \cup r.ns, !.bound = bound])
    BY <1>10 DEF ReadsToRewrite
  <2> DEFINE q == [r EXCEPT !.pc = "set", !.read = row.notes, !.next = keep \cup r.ns, !.bound = bound]
  <2>2. q = [r EXCEPT !.pc = "set", !.ns = r.ns, !.read = row.notes, !.next = keep \cup r.ns, !.bound = bound]
    BY <1>1 DEF Good, WriterType
  <2>3. Good(q)
    BY <1>2, <1>4, <1>10, <2>2 DEF ReadsToRewrite
  <2> HIDE DEF q
  <2> QED
    BY <1>6, <2>1, <2>3 DEF q
<1> QED
  BY <1>5, <1>8, <1>9, <1>10 DEF Reads

LEMMA HarnessKeeps ==
  ASSUME CoreInv, NEW w \in Writers, Heard(w) \/ Conflicts(w) \/ TooLarge(w) \/ Loses(w)
  PROVE  CoreInv'
<1> DEFINE r == writers[w]
<1>1. Good(r) /\ row' \in Row
  BY BusyIsGood DEF Heard, Conflicts, TooLarge, Loses, Waits, Working, CoreInv
<1>2. ASSUME NEW q, Good(q), Goes(w, q) PROVE CoreInv'
  BY <1>1, <1>2, StepsToGood
<1>3. /\ Good([r EXCEPT !.pc = "over", !.told = "done"])
      /\ Good([r EXCEPT !.pc = "over", !.told = "failed"])
      /\ Good([r EXCEPT !.pc = "get", !.try = 2])
      /\ Good([r EXCEPT !.told = "failed"])
  BY <1>1, OverIsGood, AgainIsGood
<1>4. CASE Heard(w)
  BY <1>2, <1>3, <1>4 DEF Heard
<1>5. CASE Conflicts(w)
  BY <1>2, <1>3, <1>5 DEF Conflicts, ReadsAgain
<1>6. CASE TooLarge(w)
  BY <1>2, <1>3, <1>6 DEF TooLarge
<1>7. CASE Loses(w)
  <2>1. PICK pc \in GoesOn(w) : Goes(w, [r EXCEPT !.told = "failed", !.pc = pc])
    BY <1>7 DEF Loses
  <2>2. CASE pc = "over"
    <3>1. [r EXCEPT !.told = "failed", !.pc = pc] = [r EXCEPT !.pc = "over", !.told = "failed"]
      BY <1>1, <2>2 DEF Good, WriterType
    <3> QED
      BY <1>2, <1>3, <2>1, <3>1
  <2>3. CASE pc = r.pc
    <3>1. [r EXCEPT !.told = "failed", !.pc = pc] = [r EXCEPT !.told = "failed"]
      BY <1>1, <2>3 DEF Good, WriterType
    <3> QED
      BY <1>2, <1>3, <2>1, <3>1
  <2> QED
    BY <2>2, <2>3 DEF GoesOn, Working
<1> QED
  BY <1>4, <1>5, <1>6, <1>7

LEMMA OfficeKeeps ==
  ASSUME CoreInv, NEW w \in Writers, Office(w)
  PROVE  CoreInv'
<1> DEFINE r == writers[w]
<1>1. Good(r) /\ row \in Row /\ Holds(r.next) \in Row
  BY BusyIsGood DEF Office, Selects, Writes, Working, CoreInv, Good, WriterType, Row, Holds
<1>2. ASSUME NEW q, Good(q), Goes(w, q), row' \in Row PROVE CoreInv'
  BY <1>2, StepsToGood
<1>3. /\ Good(Answers(w, "written")) /\ Good(Answers(w, "conflict"))
      /\ Good(Answers(w, "too large"))
  BY <1>1, AnswerIsGood
<1>4. CASE Selects(w)
  <2>1. CASE row.notes = r.read /\ r.pc = "set"
    <3> DEFINE q == [Answers(w, "write") EXCEPT !.saw = row]
    <3>1. q = [r EXCEPT !.pc = "write", !.saw = row]
      BY DEF Answers
    <3>2. q \in WriterType
      BY <1>1, <3>1 DEF Good, WriterType, Row
    <3>3. /\ q.pc = "write" /\ q.saw = row /\ q.kind = r.kind /\ q.ns = r.ns
          /\ q.read = r.read /\ q.next = r.next
      BY <1>1, <3>1 DEF Good, WriterType
    <3>4. MadeOf(q)
      BY <1>1, <2>1, <3>3 DEF Good, MadeOf
    <3>5. Good(q)
      BY <3>2, <3>4 DEF Good
    <3> HIDE DEF q
    <3> QED
      BY <1>1, <1>2, <1>3, <1>4, <3>5 DEF Selects, q
  <2>2. CASE row.notes # r.read
    BY <1>1, <1>2, <1>3, <1>4, <2>2 DEF Selects
  <2> QED
    BY <1>4, <2>1, <2>2 DEF Selects, Working
<1>5. CASE Writes(w)
  BY <1>1, <1>2, <1>3, <1>5 DEF Writes
<1> QED
  BY <1>4, <1>5 DEF Office

LEMMA OthersKeep ==
  ASSUME CoreInv,
         \/ Saves
         \/ \E w \in Writers : Forgets(w) \/ \E n \in Notes : Remembers(w, n) \/ Thinks(w, n)
  PROVE  CoreInv'
<1>2. CASE Saves
  <2>1. row' \in Row
    BY <1>2 DEF Saves, Row, Absent, Holds
  <2> QED
    BY <1>2, <2>1 DEF Saves, CoreInv
<1>3. ASSUME NEW w \in Writers, Forgets(w) PROVE CoreInv'
  BY <1>3, AskingIsGood, StepsToGood DEF Forgets, CoreInv
<1>4. ASSUME NEW w \in Writers, NEW n \in Notes, Remembers(w, n) \/ Thinks(w, n) PROVE CoreInv'
  <2>1. Good(Asking("remember", {n})) /\ Good(Asking("tool", {n}))
    BY AskingIsGood
  <2> QED
    BY <1>4, <2>1, StepsToGood DEF Remembers, Thinks, CoreInv
<1> QED
  BY <1>2, <1>3, <1>4

LEMMA CoreNextKeeps ==
  ASSUME CoreInv, [CoreNext]_coreVars
  PROVE  CoreInv'
<1>1. CASE UNCHANGED coreVars
  BY <1>1, CoreStays DEF coreVars
<1>2. CASE CoreNext
  BY <1>2, ReadsKeeps, HarnessKeeps, OfficeKeeps, OthersKeep DEF CoreNext, Harness
<1> QED
  BY <1>1, <1>2

LEMMA CoreInvHolds == CoreSpec => []CoreInv
<1>1. CoreInit => CoreInv
  BY DEF CoreInit, CoreInv, Row, Absent
<1> QED
  BY <1>1, CoreNextKeeps, PTL DEF CoreSpec

-----------------------------------------------------------------------------
(* What a step does to the row.                                            *)

LEMMA WhoChangesTheRow ==
  ASSUME CoreNext, row' # row
  PROVE  Saves \/ \E w \in Writers : Office(w) /\ row' = Holds(writers[w].next)
<1>1. ASSUME NEW w \in Writers, Office(w) PROVE row' = Holds(writers[w].next)
  BY <1>1 DEF Office, Selects, Writes
<1> QED
  BY <1>1 DEF CoreNext, Harness, Reads, Heard, Conflicts, TooLarge, Forgets,
                    Loses, Remembers, Thinks

LEMMA WhatAWriteDoes ==
  ASSUME CoreInv, NEW w \in Writers, Office(w), row' # row, row' = Holds(writers[w].next)
  PROVE  /\ Stores(w)
         /\ ~writers[w].bound \/ row.notes \ row'.notes \subseteq Dropped(w)
         /\ ~writers[w].bound \/ row'.notes \ row.notes \subseteq writers[w].ns
<1> DEFINE r == writers[w]
<1>1. Good(r)
  BY BusyIsGood DEF Office, Selects, Writes, Working
<1>2. row'.notes = r.next
  BY DEF Holds
<1>3. Stores(w)
  <2>1. Goes(w, Answers(w, "written")) /\ r.pc # "written"
    BY DEF Office, Selects, Writes, Working
  <2>2. Answers(w, "written").pc = "written"
    BY <1>1 DEF Answers, Good, WriterType
  <2>3. DOMAIN writers = Writers
    BY DEF CoreInv
  <2> QED
    BY <2>1, <2>2, <2>3 DEF Stores, Working, Goes
<1>4. r.bound => r.pc = "write" /\ row = r.saw
  BY DEF Office, Selects, Writes, Working, StillReads
<1>5. r.bound => row.notes = r.read
  BY <1>1, <1>4 DEF Good, MadeOf
<1>6. r.bound => r.next \subseteq r.read \cup r.ns
  BY <1>1, <1>4 DEF Good, MadeOf
<1>7. r.bound => r.read \ r.next \subseteq Dropped(w)
  <2>1. r.kind \in {"remember", "forget", "tool"}
    BY <1>1 DEF Good, WriterType
  <2> QED
    BY <1>1, <1>4, <2>1 DEF Good, MadeOf, Dropped
<1> QED
  BY <1>2, <1>3, <1>5, <1>6, <1>7

-----------------------------------------------------------------------------
(* The theorems.                                                           *)

\* No note is erased by a writer that had not read it, but for the owner's
\* page and a write without a condition (agents.ts 1241-1247).
THEOREM NotesAreNotErasedUnseen == CoreSpec => NothingUnseenIsErased
<1>1. CoreInv /\ [CoreNext]_coreVars
      => [\A n \in row.notes \ row'.notes :
            Saves \/ \E w \in Writers : Stores(w) /\ (~writers[w].bound \/ n \in Dropped(w))]_coreVars
  BY WhoChangesTheRow, WhatAWriteDoes DEF coreVars
<1> QED
  BY <1>1, CoreInvHolds, PTL DEF CoreSpec, NothingUnseenIsErased

\* No note comes back by the late write of somebody who had read it before
\* (AgentRunner.ts 2236-2237).
THEOREM DroppedNotesStayDropped == CoreSpec => NothingComesBack
<1>1. CoreInv /\ [CoreNext]_coreVars
      => [\A n \in row'.notes \ row.notes :
            Saves \/ \E w \in Writers : Stores(w) /\ (~writers[w].bound \/ n \in writers[w].ns)]_coreVars
  BY WhoChangesTheRow, WhatAWriteDoes DEF coreVars
<1> QED
  BY <1>1, CoreInvHolds, PTL DEF CoreSpec, NothingComesBack

-----------------------------------------------------------------------------
(* The types of a worker's sessions.                                       *)

Ref == 0..MaxSessions

OpenRecord ==
  [at : {"opening", "setting"}, scope : Scopes, proc : Nat, saved : Ref, root : Roots,
   session : Ref]
WaitingTurn == [at : {"waiting"}, scope : Scopes]
OpeningTurn == [at : {"opening"}, scope : Scopes, root : Roots, open : Opens]
SessionTurn ==
  [at : {"priming", "read", "prompted"}, scope : Scopes, root : Roots, session : Sessions,
   proc : Nat, priming : BOOLEAN, fresh : BOOLEAN, read : Nat]

Typed ==
  /\ proc \in Nat /\ up \in BOOLEAN /\ replaced \subseteq Nat /\ root \in Roots
  /\ book \in [Scopes -> Ref] /\ resumable \in [Scopes -> Ref] /\ kept \in [Scopes -> Ref]
  /\ creating \in [Scopes -> 0..MaxOpens]
  /\ unprimed \subseteq Scopes /\ warming \subseteq Scopes
  /\ opens \in [Opens -> OpenRecord \cup {NoOpen}]
  /\ \A o \in Active : opens[o].at = "setting" => opens[o].session # 0
  /\ turn \in {Idle} \cup WaitingTurn \cup OpeningTurn \cup SessionTurn
  /\ made \in Ref /\ cwdOf \in [Sessions -> Roots]
  /\ memory \in Nat /\ knows \in [Sessions -> Nat]
  /\ write \in {"none", "owner", "tool"}
  /\ spoken \subseteq Sessions /\ dropped \subseteq Sessions
  /\ left \in [Happenings -> Nat]

LEMMA HappeningsAre ==
  /\ "warm" \in Happenings /\ "crash" \in Happenings /\ "reload" \in Happenings
  /\ "rotate" \in Happenings /\ "move" \in Happenings /\ "owner" \in Happenings
  /\ "tool" \in Happenings /\ "fault" \in Happenings
BY DEF Happenings

LEMMA SpendTyped ==
  ASSUME left \in [Happenings -> Nat], NEW k \in Happenings, Spend(k)
  PROVE  left' \in [Happenings -> Nat]
<1>1. left[k] \in Nat /\ left[k] > 0 /\ left' = [left EXCEPT ![k] = left[k] - 1]
  BY DEF Spend
<1>2. left[k] - 1 \in Nat
  BY <1>1
<1> QED BY <1>1, <1>2

LEMMA OpenFields ==
  ASSUME Typed, NEW o \in Active
  PROVE  o \in Opens /\ opens[o] \in OpenRecord
BY DEF Typed, Active

LEMMA TurnFields ==
  ASSUME Typed
  PROVE  /\ turn.at = "waiting" => turn \in WaitingTurn
         /\ turn.at = "opening" => turn \in OpeningTurn
         /\ turn.at \in {"priming", "read", "prompted"} => turn \in SessionTurn
         /\ turn # Idle => turn.at # "idle" /\ turn.scope \in Scopes
BY DEF Typed, Idle, WaitingTurn, OpeningTurn, SessionTurn

LEMMA HasSessionTyped ==
  ASSUME Typed, NEW t, t.scope \in Scopes, t.root \in Roots, NEW x \in Sessions, NEW u \in BOOLEAN
  PROVE  HasSession(t, x, u) \in SessionTurn
BY DEF HasSession, SessionTurn, Typed

LEMMA RefIs == Ref = Sessions \cup {0} /\ 0 \notin Sessions
BY BoundsAssumption DEF Ref, Sessions

LEMMA SessionForTyped ==
  ASSUME Typed, NEW s \in Scopes, NEW o \in Opens, SessionFor(s, o)
  PROVE  /\ book' \in [Scopes -> Ref] /\ resumable' \in [Scopes -> Ref]
         /\ creating' \in [Scopes -> 0..MaxOpens]
         /\ opens' \in [Opens -> OpenRecord \cup {NoOpen}]
         /\ \A p \in Active' : opens'[p].at = "setting" => opens'[p].session # 0
<1>1. book' \in [Scopes -> Ref]
  BY RefIs DEF SessionFor, Typed
<1>2. CASE UNCHANGED <<resumable, creating, opens>>
  BY <1>1, <1>2 DEF Typed, Active
<1>3. CASE StartsOpen(s, o)
  <2> DEFINE saved == IF resumable[s] # 0 /\ cwdOf[resumable[s]] = root THEN resumable[s] ELSE 0
             r == [at |-> "opening", scope |-> s, proc |-> proc, saved |-> saved,
                   root |-> root, session |-> 0]
  <2>1. r \in OpenRecord /\ r.at = "opening"
    BY RefIs DEF OpenRecord, Typed
  <2>2. opens' = [opens EXCEPT ![o] = r] /\ resumable' = [resumable EXCEPT ![s] = 0]
        /\ creating' = [creating EXCEPT ![s] = o]
    BY <1>3 DEF StartsOpen
  <2> HIDE DEF r
  <2>3. opens' \in [Opens -> OpenRecord \cup {NoOpen}]
    BY <2>1, <2>2 DEF Typed
  <2>4. \A p \in Active' : opens'[p].at = "setting" => opens'[p].session # 0
    BY <2>1, <2>2, <2>3 DEF Typed, Active
  <2>5. o \in 0..MaxOpens
    BY BoundsAssumption DEF Opens
  <2> QED BY <1>1, <2>2, <2>3, <2>4, <2>5, RefIs DEF Typed
<1> QED BY <1>2, <1>3 DEF SessionFor

LEMMA LandsTyped ==
  ASSUME Typed, NEW o \in Active, NEW x \in Sessions, Lands(o, x)
  PROVE  /\ book' \in [Scopes -> Ref] /\ cwdOf' \in [Sessions -> Roots]
         /\ unprimed' \subseteq Scopes /\ creating' \in [Scopes -> 0..MaxOpens]
         /\ opens' = [opens EXCEPT ![o] = NoOpen]
         /\ opens' \in [Opens -> OpenRecord \cup {NoOpen}]
         /\ \A p \in Active' : opens'[p].at = "setting" => opens'[p].session # 0
         /\ turn' \in {Idle} \cup WaitingTurn \cup OpeningTurn \cup SessionTurn
<1>1. opens[o].scope \in Scopes /\ opens[o].root \in Roots /\ o \in Opens
  BY OpenFields DEF OpenRecord
<1>2. book' \in [Scopes -> Ref] /\ cwdOf' \in [Sessions -> Roots] /\ unprimed' \subseteq Scopes
      /\ creating' \in [Scopes -> 0..MaxOpens]
  BY <1>1, RefIs, BoundsAssumption DEF Lands, Typed
<1>3. opens' = [opens EXCEPT ![o] = NoOpen] /\ opens' \in [Opens -> OpenRecord \cup {NoOpen}]
  BY DEF Lands, Typed
<1>4. \A p \in Active' : opens'[p].at = "setting" => opens'[p].session # 0
  BY <1>3 DEF Typed, Active
<1>5. turn' \in {Idle} \cup WaitingTurn \cup OpeningTurn \cup SessionTurn
  <2>1. CASE turn.at = "opening" /\ turn.open = o
    <3> DEFINE untold == IF opens[o].saved = 0 THEN unprimed \cup {opens[o].scope} ELSE unprimed
               u == opens[o].scope \in untold
    <3>1. turn \in OpeningTurn
      BY <2>1, TurnFields
    <3>2. turn.scope \in Scopes /\ turn.root \in Roots /\ u \in BOOLEAN
      BY <3>1 DEF OpeningTurn
    <3>3. turn' = HasSession(turn, x, u)
      BY <2>1 DEF Lands
    <3> HIDE DEF u
    <3> QED BY <3>2, <3>3, HasSessionTyped
  <2>2. CASE ~(turn.at = "opening" /\ turn.open = o)
    BY <2>2 DEF Lands, Typed
  <2> QED BY <2>1, <2>2
<1> QED BY <1>2, <1>3, <1>4, <1>5

Turns == {Idle} \cup WaitingTurn \cup OpeningTurn \cup SessionTurn

LEMMA TurnOpensTyped == ASSUME Typed, TurnOpens PROVE Typed'
<1> DEFINE s == turn.scope
           t == [scope |-> s, root |-> root]
<1>1. s \in Scopes /\ t.scope \in Scopes /\ t.root \in Roots
  BY TurnFields DEF TurnOpens, WaitingTurn, Typed
<1>2. CASE Found(s) /\ turn' = HasSession(t, book[s], s \in unprimed)
           /\ UNCHANGED <<book, resumable, creating, opens>>
  <2>1. book[s] \in Sessions /\ (s \in unprimed) \in BOOLEAN
    BY <1>1, <1>2, RefIs DEF Found, Typed
  <2>2. HasSession(t, book[s], s \in unprimed) \in SessionTurn
    BY <1>1, <2>1, HasSessionTyped
  <2>3. turn' \in Turns
    BY <1>2, <2>2 DEF Turns
  <2> QED BY <1>2, <2>3 DEF Turns, Typed, TurnOpens, memoryVars, sessionVars, Active
<1>3. ASSUME NEW o \in Opens, SessionFor(s, o),
             turn' = [at |-> "opening", scope |-> s, root |-> root, open |-> o]
      PROVE  Typed'
  <2>1. turn' \in Turns
    BY <1>1, <1>3 DEF Turns, OpeningTurn, Typed
  <2>2. /\ book' \in [Scopes -> Ref] /\ resumable' \in [Scopes -> Ref]
        /\ creating' \in [Scopes -> 0..MaxOpens]
        /\ opens' \in [Opens -> OpenRecord \cup {NoOpen}]
        /\ \A p \in Active' : opens'[p].at = "setting" => opens'[p].session # 0
    BY <1>1, <1>3, SessionForTyped
  <2> QED BY <2>1, <2>2 DEF Turns, Typed, TurnOpens, memoryVars, sessionVars
<1> QED BY <1>2, <1>3 DEF TurnOpens

LEMMA WarmOpensTyped == ASSUME Typed, NEW s \in Scopes, WarmOpens(s) PROVE Typed'
<1>1. CASE UNCHANGED <<book, resumable, creating, opens>>
  BY <1>1 DEF Typed, WarmOpens, memoryVars, sessionVars, Active
<1>2. ASSUME NEW o \in Opens, SessionFor(s, o)
      PROVE  Typed'
  BY <1>2, SessionForTyped DEF Typed, WarmOpens, memoryVars, sessionVars
<1> QED BY <1>1, <1>2 DEF WarmOpens

LEMMA OpenedTyped == ASSUME Typed, NEW o \in Opens, Opened(o) PROVE Typed'
<1> DEFINE x == IF opens[o].saved = 0 THEN made + 1 ELSE opens[o].saved
<1>1. o \in Active /\ opens[o] \in OpenRecord /\ x \in Sessions
  BY OpenFields DEF Opened
<1>2. made' \in Ref
  BY <1>1, RefIs DEF Opened, Typed
<1>3. CASE /\ opens' = [opens EXCEPT ![o].at = "setting", ![o].session = x]
           /\ UNCHANGED <<book, cwdOf, unprimed, creating, turn>>
  <2> DEFINE r == [opens[o] EXCEPT !.at = "setting", !.session = x]
  <2>1. r \in OpenRecord /\ r.session # 0 /\ opens' = [opens EXCEPT ![o] = r]
    BY <1>1, <1>3, RefIs DEF OpenRecord, Typed
  <2> HIDE DEF r
  <2>2. opens' \in [Opens -> OpenRecord \cup {NoOpen}]
    BY <1>1, <2>1 DEF Typed
  <2>3. \A p \in Active' : opens'[p].at = "setting" => opens'[p].session # 0
    BY <1>1, <2>1, <2>2 DEF Typed, Active
  <2> QED BY <1>2, <1>3, <2>2, <2>3 DEF Typed, Opened, memoryVars
<1>4. CASE Lands(o, x)
  <2> HIDE DEF x
  <2>1. /\ book' \in [Scopes -> Ref] /\ cwdOf' \in [Sessions -> Roots]
        /\ unprimed' \subseteq Scopes /\ creating' \in [Scopes -> 0..MaxOpens]
        /\ opens' \in [Opens -> OpenRecord \cup {NoOpen}]
        /\ \A p \in Active' : opens'[p].at = "setting" => opens'[p].session # 0
        /\ turn' \in {Idle} \cup WaitingTurn \cup OpeningTurn \cup SessionTurn
    BY <1>1, <1>4, LandsTyped
  <2> QED BY <1>2, <2>1 DEF Typed, Opened, memoryVars
<1> QED BY <1>3, <1>4 DEF Opened

LEMMA ModeSetTyped == ASSUME Typed, NEW o \in Opens, ModeSet(o) PROVE Typed'
<1>1. o \in Active /\ opens[o] \in OpenRecord /\ opens[o].session \in Sessions
  BY OpenFields, RefIs DEF ModeSet, Typed, OpenRecord
<1>2. Lands(o, opens[o].session)
  BY DEF ModeSet
<1>3. /\ book' \in [Scopes -> Ref] /\ cwdOf' \in [Sessions -> Roots]
      /\ unprimed' \subseteq Scopes /\ creating' \in [Scopes -> 0..MaxOpens]
      /\ opens' \in [Opens -> OpenRecord \cup {NoOpen}]
      /\ \A p \in Active' : opens'[p].at = "setting" => opens'[p].session # 0
      /\ turn' \in {Idle} \cup WaitingTurn \cup OpeningTurn \cup SessionTurn
  BY <1>1, <1>2, LandsTyped
<1> QED BY <1>3 DEF Typed, ModeSet, memoryVars

LEMMA OpenFailsTyped == ASSUME Typed, NEW o \in Opens, OpenFails(o) PROVE Typed'
<1>1. o \in Active /\ opens[o] \in OpenRecord
  BY OpenFields DEF OpenFails
<1>2. left' \in [Happenings -> Nat] /\ kept' \in [Scopes -> Ref]
  <2>1. CASE UNCHANGED <<left, kept>>
    BY <2>1 DEF Typed
  <2>2. CASE Spend("fault") /\ kept' = [kept EXCEPT ![opens[o].scope] = 0]
    BY <2>2, SpendTyped, HappeningsAre, RefIs DEF Typed
  <2> QED BY <2>1, <2>2 DEF OpenFails
<1>3. turn' \in Turns
  <2>1. CASE turn' = [turn EXCEPT !.root = root] /\ turn.at = "opening"
    BY <2>1, TurnFields DEF Turns, OpeningTurn, Typed
  <2>2. CASE turn' = turn \/ turn' = Idle
    BY <2>2 DEF Turns, Typed
  <2> QED BY <2>1, <2>2 DEF OpenFails
<1>4. CASE /\ opens' = [opens EXCEPT ![o] = [@ EXCEPT !.at = "opening", !.saved = 0,
                                            !.proc = proc, !.root = root, !.session = 0]]
           /\ UNCHANGED creating
  <2> DEFINE r == [opens[o] EXCEPT !.at = "opening", !.saved = 0, !.proc = proc,
                                   !.root = root, !.session = 0]
  <2>1. r \in OpenRecord /\ r.at = "opening" /\ opens' = [opens EXCEPT ![o] = r]
    BY <1>1, <1>4, RefIs DEF OpenRecord, Typed
  <2> HIDE DEF r
  <2>2. opens' \in [Opens -> OpenRecord \cup {NoOpen}]
    BY <1>1, <2>1 DEF Typed
  <2>3. \A p \in Active' : opens'[p].at = "setting" => opens'[p].session # 0
    BY <1>1, <2>1, <2>2 DEF Typed, Active
  <2> QED BY <1>2, <1>3, <1>4, <2>2, <2>3 DEF Typed, Turns, OpenFails, memoryVars, sessionVars
<1>5. CASE /\ opens' = [opens EXCEPT ![o] = NoOpen]
           /\ creating' = [creating EXCEPT ![opens[o].scope] = 0]
  <2>1. opens' \in [Opens -> OpenRecord \cup {NoOpen}]
    BY <1>5 DEF Typed
  <2>3. creating' \in [Scopes -> 0..MaxOpens]
    <3>1. 0 \in 0..MaxOpens /\ opens[o].scope \in Scopes
      BY <1>1, BoundsAssumption DEF OpenRecord
    <3> QED BY <1>5, <3>1 DEF Typed
  <2>2. \A p \in Active' : opens'[p].at = "setting" => opens'[p].session # 0
    BY <1>5 DEF Typed, Active
  <2> QED BY <1>2, <1>3, <2>1, <2>2, <2>3 DEF Typed, Turns, OpenFails, memoryVars, sessionVars
<1> QED BY <1>4, <1>5 DEF OpenFails

\* The turn in its session: it keeps its fields, or is over.
LEMMA TurnStepsTyped ==
  ASSUME Typed, ReadsMemory \/ Prompt \/ Answer \/ PromptFails
  PROVE  Typed'
<1>1. turn \in SessionTurn
  BY TurnFields DEF ReadsMemory, Prompt, Answer, PromptFails
<1>2. turn' \in Turns
  <2>1. CASE ReadsMemory
    <3>1. [turn EXCEPT !.at = "read", !.read = memory] \in SessionTurn
      BY <1>1 DEF SessionTurn, Typed
    <3> QED BY <2>1, <3>1 DEF ReadsMemory, Turns
  <2>2. CASE Prompt
    <3>1. [turn EXCEPT !.at = "prompted", !.proc = proc] \in SessionTurn
      BY <1>1 DEF SessionTurn, Typed
    <3> QED BY <2>2, <3>1 DEF Prompt, Turns
  <2>3. CASE Answer \/ PromptFails
    BY <2>3 DEF Answer, PromptFails, Turns
  <2> QED BY <2>1, <2>2, <2>3
<1>3. knows' \in [Sessions -> Nat]
  BY <1>1 DEF Typed, SessionTurn, ReadsMemory, Prompt, Answer, PromptFails, memoryVars, Learns
<1>4. left' \in [Happenings -> Nat]
  BY SpendTyped, HappeningsAre DEF Typed, ReadsMemory, Prompt, Answer, PromptFails
<1>5. spoken' \subseteq Sessions
  BY <1>1 DEF Typed, SessionTurn, ReadsMemory, Prompt, Answer, PromptFails
<1> QED BY <1>2, <1>3, <1>4, <1>5 DEF Typed, Turns, Active, ReadsMemory, Prompt, Answer, PromptFails,
           memoryVars, sessionVars

LEMMA ClearedTyped ==
  ASSUME Cleared
  PROVE  /\ book' \in [Scopes -> Ref] /\ unprimed' \subseteq Scopes
         /\ creating' \in [Scopes -> 0..MaxOpens]
BY RefIs, BoundsAssumption DEF Cleared

LEMMA ReplacedTyped == ASSUME Typed, Crash \/ Up \/ Reload PROVE Typed'
<1>1. proc' \in Nat /\ replaced' \subseteq Nat
  <2>1. proc' \in {proc, proc + 1} /\ replaced' \in {replaced, replaced \cup {proc}}
    BY DEF Crash, Up, Reload
  <2> QED BY <2>1 DEF Typed
<1>2. left' \in [Happenings -> Nat]
  <2>1. left' = left \/ Spend("crash") \/ Spend("reload")
    BY DEF Crash, Up, Reload
  <2> QED BY <2>1, SpendTyped, HappeningsAre DEF Typed
<1>3. kept' \in [Scopes -> Ref] /\ resumable' \in [Scopes -> Ref]
  <2>1. 0 \in Ref
    BY RefIs
  <2>2. CASE Crash \/ Up
    BY <2>1, <2>2 DEF Typed, Crash, Up
  <2>3. CASE Reload
    BY <2>1, <2>3 DEF Typed, Reload
  <2> QED BY <2>2, <2>3
<1> QED BY <1>1, <1>2, <1>3, ClearedTyped DEF Typed, Active, Crash, Up, Reload, memoryVars,
           sessionVars

LEMMA AskedTyped ==
  ASSUME Typed, NEW s \in Scopes, Claim(s) \/ Warm(s) \/ Rotate(s)
  PROVE  Typed'
<1>1. left' \in [Happenings -> Nat]
  BY SpendTyped, HappeningsAre DEF Typed, Claim, Warm, Rotate
<1>2. turn' \in Turns
  BY DEF Turns, WaitingTurn, Typed, Claim, Warm, Rotate
<1>3. /\ book' \in [Scopes -> Ref] /\ resumable' \in [Scopes -> Ref] /\ kept' \in [Scopes -> Ref]
      /\ warming' \subseteq Scopes /\ unprimed' \subseteq Scopes
  BY RefIs DEF Typed, Claim, Warm, Rotate
<1>4. dropped' \subseteq Sessions /\ spoken' = spoken
  BY RefIs DEF Typed, Claim, Warm, Rotate
<1> QED BY <1>1, <1>2, <1>3, <1>4 DEF Typed, Turns, Active, Claim, Warm, Rotate, memoryVars, sessionVars

LEMMA MoveTyped == ASSUME Typed, NEW r \in Roots, Move(r) PROVE Typed'
<1>1. left' \in [Happenings -> Nat] /\ kept' \in [Scopes -> Ref]
  BY SpendTyped, HappeningsAre, RefIs DEF Typed, Move
<1> QED BY <1>1 DEF Typed, Active, Move, memoryVars, sessionVars

LEMMA WriteTyped ==
  ASSUME Typed, WriteAnswered \/ \E by \in {"owner", "tool"} : WriteMade(by)
  PROVE  Typed'
<1>1. CASE WriteAnswered
  <2>1. turn' \in Turns
    <3>1. turn.at \in {"priming", "read", "prompted"} => [turn EXCEPT !.fresh = FALSE] \in SessionTurn
      BY TurnFields DEF SessionTurn
    <3> QED BY <1>1, <3>1 DEF WriteAnswered, ReprimeAll, Turns, Typed
  <2>2. unprimed' \subseteq Scopes
    BY <1>1 DEF WriteAnswered, ReprimeAll, Typed
  <2> QED BY <1>1, <2>1, <2>2 DEF Typed, Turns, Active, WriteAnswered, sessionVars
<1>2. ASSUME NEW by \in {"owner", "tool"}, WriteMade(by) PROVE Typed'
  <2>1. left' \in [Happenings -> Nat]
    BY <1>2, SpendTyped, HappeningsAre DEF Typed, WriteMade
  <2>2. memory' \in Nat /\ memory + 1 \in Nat /\ write' \in {"owner", "tool"}
    BY <1>2 DEF Typed, WriteMade
  <2>3. knows' \in [Sessions -> Nat]
    <3>1. knows' = knows \/ knows' = [knows EXCEPT ![turn.session] = memory + 1]
      BY <1>2 DEF WriteMade
    <3> QED BY <2>2, <3>1 DEF Typed
  <2> QED BY <2>3, <1>2, <2>1, <2>2 DEF Typed, Active, WriteMade, sessionVars
<1> QED BY <1>1, <1>2

LEMMA TypedStep == Typed /\ [Next]_vars => Typed'
<1> SUFFICES ASSUME Typed, [Next]_vars PROVE Typed'
  OBVIOUS
<1>1. CASE UNCHANGED vars
  BY <1>1 DEF Typed, Active, vars
<1>2. CASE Handler
  BY <1>2, AskedTyped, OpenedTyped, ModeSetTyped, OpenFailsTyped, TurnOpensTyped, TurnStepsTyped,
     ReplacedTyped, WriteTyped, MoveTyped DEF Handler
<1> QED BY <1>1, <1>2, WarmOpensTyped DEF Next

LEMMA TypedInit == Init => Typed
<1> SUFFICES ASSUME Init PROVE Typed
  OBVIOUS
<1>1. left \in [Happenings -> Nat]
  BY BoundsAssumption DEF Init
<1>2. Active = {}
  BY DEF Init, Active, Opens
<1> QED BY <1>1, <1>2, RefIs, BoundsAssumption DEF Init, Typed, Ref

-----------------------------------------------------------------------------
(* Where a session is: in the book, saved by a reload, or held by an open  *)
(* that is to resume it or has just made it.  What makes "a dropped session *)
(* stays dropped" inductive is that it is in one of these places at a time, *)
(* and that a session in any of them was made and has not been dropped.    *)

Hold(o) == IF opens[o] = NoOpen THEN {} ELSE {opens[o].saved, opens[o].session} \ {0}

InOnePlace ==
  /\ \A s, t \in Scopes : book[s] # 0 /\ book[s] = book[t] => s = t
  /\ \A s, t \in Scopes : resumable[s] # 0 /\ resumable[s] = resumable[t] => s = t
  /\ \A s, t \in Scopes : book[s] # 0 => book[s] # resumable[t]
  /\ \A o \in Opens, s \in Scopes : book[s] \notin Hold(o) /\ resumable[s] \notin Hold(o)
  /\ \A o, p \in Opens : o # p => Hold(o) \cap Hold(p) = {}

Usable(x) == x <= made /\ x \notin dropped

Placed ==
  /\ InOnePlace
  /\ \A s \in Scopes : Usable(book[s]) /\ Usable(resumable[s])
  /\ \A o \in Opens : \A x \in Hold(o) : Usable(x)
  /\ \A x \in dropped : x # 0 /\ x <= made

\* Sessions are let go, some of them for ever.
LEMMA LetGo ==
  ASSUME Typed, Placed, made' = made,
         \A s \in Scopes : book'[s] \in {book[s], 0} /\ resumable'[s] \in {resumable[s], 0},
         \A o \in Opens : Hold(o)' \subseteq Hold(o),
         \A x \in dropped' \ dropped :
           /\ x # 0 /\ x <= made
           /\ \A s \in Scopes : book'[s] # x /\ resumable'[s] # x
           /\ \A o \in Opens : x \notin Hold(o)
  PROVE  Placed'
<1>1. made \in Nat /\ 0 <= made
  BY BoundsAssumption DEF Typed, Ref
<1>2. \A o \in Opens : 0 \notin Hold(o) /\ 0 \notin Hold(o)'
  BY DEF Hold
<1>3. InOnePlace'
  BY <1>2 DEF Placed, InOnePlace
<1>4. \A s \in Scopes : Usable(book[s])' /\ Usable(resumable[s])'
  BY <1>1 DEF Placed, Usable
<1>5. \A o \in Opens : \A x \in Hold(o)' : Usable(x)'
  BY DEF Placed, Usable
<1>6. \A x \in dropped' : x # 0 /\ x <= made'
  BY DEF Placed
<1> QED BY <1>3, <1>4, <1>5, <1>6 DEF Placed

LEMMA SameHold ==
  ASSUME opens' = opens
  PROVE  \A o \in Opens : Hold(o)' = Hold(o)
BY DEF Hold

LEMMA UnheldIdle ==
  ASSUME Typed
  PROVE  /\ \A o \in Opens : o \notin Active => Hold(o) = {}
         /\ \A o \in Active : Hold(o) = {opens[o].saved, opens[o].session} \ {0}
BY DEF Hold, Active

\* A saved session is handed to the open that is to resume it.
LEMMA StartsPlaced ==
  ASSUME Typed, Placed, NEW s \in Scopes, NEW o \in Opens, SessionFor(s, o),
         UNCHANGED <<made, dropped>>
  PROVE  Placed'
<1>1. \A t \in Scopes : book'[t] \in {book[t], 0}
  BY DEF SessionFor, Typed
<1>2. CASE UNCHANGED <<resumable, creating, opens>>
  BY <1>1, <1>2, LetGo, SameHold
<1>3. CASE o \notin Active /\ StartsOpen(s, o)
  <2> DEFINE saved == IF resumable[s] # 0 /\ cwdOf[resumable[s]] = root THEN resumable[s] ELSE 0
             r == [at |-> "opening", scope |-> s, proc |-> proc, saved |-> saved,
                   root |-> root, session |-> 0]
  <2>1. /\ resumable'[s] = 0 /\ \A t \in Scopes \ {s} : resumable'[t] = resumable[t]
        /\ opens' = [opens EXCEPT ![o] = r]
    BY <1>3 DEF StartsOpen, Typed
  <2>2. /\ Hold(o)' \subseteq {saved} \ {0} /\ Hold(o) = {}
        /\ \A p \in Opens \ {o} : Hold(p)' = Hold(p)
    <3>1. opens'[o] = r /\ \A p \in Opens \ {o} : opens'[p] = opens[p]
      BY <2>1 DEF Typed
    <3>2. Hold(o) = {} /\ \A p \in Opens \ {o} : Hold(p)' = Hold(p)
      BY <1>3, <3>1, UnheldIdle DEF Hold
    <3>3. Hold(o)' \subseteq {r.saved, r.session} \ {0}
      <4> HIDE DEF r
      <4> QED BY <3>1 DEF Hold
    <3> QED BY <3>2, <3>3
  <2>3. saved \in {0, resumable[s]}
    OBVIOUS
  <2> HIDE DEF saved, r
  <2>4. InOnePlace'
    <3>1. Hold(o)' \subseteq {resumable[s]} \ {0}
      BY <2>2, <2>3
    <3>2. \A t, u \in Scopes : resumable'[t] # 0 /\ resumable'[t] = resumable'[u] => t = u
      BY <2>1 DEF Placed, InOnePlace
    <3>3. \A t, u \in Scopes : book'[t] # 0 /\ book'[t] = book'[u] => t = u
      BY <1>1 DEF Placed, InOnePlace
    <3>6. \A t, u \in Scopes : book'[t] # 0 => book'[t] # resumable'[u]
      BY <1>1, <2>1 DEF Placed, InOnePlace
    <3>4. \A p \in Opens, t \in Scopes : /\ book'[t] \notin Hold(p)'
                                       /\ resumable'[t] \notin Hold(p)'
      <4>1. ASSUME NEW t \in Scopes PROVE book'[t] \notin Hold(o)' /\ resumable'[t] \notin Hold(o)'
        BY <1>1, <2>1, <3>1 DEF Placed, InOnePlace
      <4>2. ASSUME NEW p \in Opens \ {o}, NEW t \in Scopes
            PROVE  book'[t] \notin Hold(p)' /\ resumable'[t] \notin Hold(p)'
        <5>1. 0 \notin Hold(p)
          BY DEF Hold
        <5> QED BY <1>1, <2>1, <2>2, <5>1 DEF Placed, InOnePlace
      <4> QED BY <4>1, <4>2
    <3>5. \A p, q \in Opens : p # q => Hold(p)' \cap Hold(q)' = {}
      BY <2>2, <3>1 DEF Placed, InOnePlace
    <3> QED BY <3>2, <3>3, <3>4, <3>5, <3>6 DEF InOnePlace
  <2>5. \A t \in Scopes : Usable(book[t])' /\ Usable(resumable[t])'
    <3>1. 0 <= made
      BY BoundsAssumption DEF Typed, Ref
    <3> QED BY <1>1, <2>1, <3>1 DEF Placed, Usable
  <2>6. \A p \in Opens : \A x \in Hold(p)' : Usable(x)'
    BY <2>2, <2>3 DEF Placed, Usable
  <2> QED BY <2>4, <2>5, <2>6 DEF Placed
<1> QED BY <1>2, <1>3 DEF SessionFor

\* An open puts the session it held, or made, into the book.
LEMMA LandsPlaced ==
  ASSUME Typed, Placed, NEW o \in Active, NEW x \in Sessions, Lands(o, x),
         UNCHANGED <<resumable, dropped>>, made <= made', made' \in Nat,
         \/ x \in Hold(o) /\ made' = made
         \/ x = made' /\ made' = made + 1
  PROVE  Placed'
<1> DEFINE s == opens[o].scope
<1>1. s \in Scopes /\ o \in Opens
  BY OpenFields DEF OpenRecord
<1>2. book'[s] = x /\ \A t \in Scopes \ {s} : book'[t] = book[t]
  BY <1>1 DEF Lands, Typed
<1>3. Hold(o)' = {} /\ \A p \in Opens \ {o} : Hold(p)' = Hold(p)
  <2>1. opens'[o] = NoOpen /\ \A p \in Opens \ {o} : opens'[p] = opens[p]
    BY <1>1, LandsTyped DEF Typed
  <2> QED BY <2>1 DEF Hold
<1>5. /\ \A t \in Scopes : x # resumable[t] /\ (t # s => x # book[t])
      /\ \A p \in Opens \ {o} : x \notin Hold(p)
      /\ x # 0 /\ x \notin dropped /\ x <= made'
  <2>1. CASE x \in Hold(o) /\ made' = made
    BY <1>1, <2>1, RefIs DEF Placed, InOnePlace, Usable
  <2>2. CASE x = made' /\ made' = made + 1
    <3>1. made \in Nat /\ ~(x <= made) /\ x <= made'
      BY <2>2, BoundsAssumption DEF Typed, Ref
    <3>2. ~Usable(x) /\ x # 0 /\ x \notin dropped
      BY <3>1, RefIs DEF Placed, Usable
    <3> QED BY <1>1, <3>1, <3>2 DEF Placed
  <2> QED BY <2>1, <2>2
<1>6. InOnePlace'
  <2>1. \A t, u \in Scopes : book'[t] # 0 /\ book'[t] = book'[u] => t = u
    BY <1>2, <1>5 DEF Placed, InOnePlace
  <2>2. \A t, u \in Scopes : book'[t] # 0 => book'[t] # resumable'[u]
    BY <1>2, <1>5 DEF Placed, InOnePlace
  <2>3. \A p \in Opens, t \in Scopes : book'[t] \notin Hold(p)' /\ resumable'[t] \notin Hold(p)'
    BY <1>2, <1>3, <1>5 DEF Placed, InOnePlace
  <2>4. \A p, q \in Opens : p # q => Hold(p)' \cap Hold(q)' = {}
    BY <1>3 DEF Placed, InOnePlace
  <2> QED BY <2>1, <2>2, <2>3, <2>4 DEF Placed, InOnePlace
<1>7. \A y \in Int : Usable(y) => Usable(y)'
  BY BoundsAssumption DEF Usable, Typed, Ref
<1>8. \A t \in Scopes : Usable(book[t])' /\ Usable(resumable[t])'
  <2>1. \A t \in Scopes : book[t] \in Int /\ resumable[t] \in Int
    BY DEF Typed, Ref
  <2> QED BY <1>2, <1>5, <1>7, <2>1 DEF Placed, Usable
<1>9. \A p \in Opens : \A y \in Hold(p)' : Usable(y)'
  <2>1. \A p \in Opens : Hold(p) \subseteq Int
    BY DEF Typed, Ref, OpenRecord, Hold
  <2> QED BY <1>3, <1>7, <2>1 DEF Placed
<1>10. \A y \in dropped' : y # 0 /\ y <= made'
  <2> SUFFICES ASSUME NEW y \in dropped PROVE y # 0 /\ y <= made'
    OBVIOUS
  <2>1. made \in Int /\ made' \in Int /\ y \in Int
    BY BoundsAssumption DEF Typed, Ref, Sessions
  <2> QED BY <2>1 DEF Placed
<1> QED BY <1>6, <1>8, <1>9, <1>10 DEF Placed

\* An open holds the session it has just made.
LEMMA HoldsNew ==
  ASSUME Typed, Placed, NEW o \in Opens, NEW x \in Sessions, x = made',
         made' = made + 1,
         UNCHANGED <<book, resumable, dropped>>,
         Hold(o)' \subseteq Hold(o) \cup {x},
         \A p \in Opens \ {o} : Hold(p)' = Hold(p)
  PROVE  Placed'
<1>1. made \in Nat /\ made' \in Nat /\ ~(made' <= made)
  BY BoundsAssumption DEF Typed, Ref
<1>2. ~Usable(x) /\ x \notin dropped
  BY <1>1 DEF Placed, Usable
<1>3. InOnePlace'
  <2>1. \A s \in Scopes : book[s] # x /\ resumable[s] # x
    BY <1>2 DEF Placed
  <2>2. \A p \in Opens : x \notin Hold(p)
    BY <1>2 DEF Placed
  <2>3. \A s, t \in Scopes : /\ book'[s] # 0 /\ book'[s] = book'[t] => s = t
                             /\ resumable'[s] # 0 /\ resumable'[s] = resumable'[t] => s = t
                             /\ book'[s] # 0 => book'[s] # resumable'[t]
    BY DEF Placed, InOnePlace
  <2>4. \A p \in Opens, s \in Scopes : book'[s] \notin Hold(p)' /\ resumable'[s] \notin Hold(p)'
    BY <2>1 DEF Placed, InOnePlace
  <2>5. \A p, q \in Opens : p # q => Hold(p)' \cap Hold(q)' = {}
    BY <2>2 DEF Placed, InOnePlace
  <2>6. \A s, t \in Scopes : book'[s] # 0 /\ book'[s] = book'[t] => s = t
    BY <2>3
  <2>7. \A s, t \in Scopes : resumable'[s] # 0 /\ resumable'[s] = resumable'[t] => s = t
    BY <2>3
  <2>8. \A s, t \in Scopes : book'[s] # 0 => book'[s] # resumable'[t]
    BY <2>3
  <2> QED BY <2>4, <2>5, <2>6, <2>7, <2>8 DEF InOnePlace
<1>4. \A y \in Int : Usable(y) => Usable(y)'
  BY <1>1 DEF Usable
<1>5. \A s \in Scopes : Usable(book[s])' /\ Usable(resumable[s])'
  <2>1. \A s \in Scopes : book[s] \in Int /\ resumable[s] \in Int
    BY DEF Typed, Ref
  <2> QED BY <1>4, <2>1 DEF Placed, Usable
<1>6. Usable(x)'
  BY <1>1, <1>2 DEF Usable
<1>7. \A p \in Opens : \A y \in Hold(p)' : Usable(y)'
  <2>1. \A p \in Opens : Hold(p) \subseteq Int
    BY DEF Typed, Ref, OpenRecord, Hold
  <2>2. \A p \in Opens : \A y \in Hold(p)' : y \in Hold(p) \/ y = x
    OBVIOUS
  <2> QED BY <1>4, <1>6, <2>1, <2>2 DEF Placed, Usable
<1>8. \A y \in dropped' : y # 0 /\ y <= made'
  <2> SUFFICES ASSUME NEW y \in dropped PROVE y # 0 /\ y <= made'
    OBVIOUS
  <2>1. y \in Int
    BY DEF Typed, Sessions
  <2> QED BY <1>1, <2>1 DEF Placed
<1> QED BY <1>3, <1>5, <1>7, <1>8 DEF Placed

LEMMA OpenedPlaced == ASSUME Typed, Placed, NEW o \in Opens, Opened(o) PROVE Placed'
<1> DEFINE x == IF opens[o].saved = 0 THEN made + 1 ELSE opens[o].saved
<1>1. /\ o \in Active /\ opens[o] \in OpenRecord /\ x \in Sessions
      /\ made \in Nat /\ made' \in Nat
      /\ made' = IF opens[o].saved = 0 THEN made + 1 ELSE made
      /\ UNCHANGED <<resumable, dropped>>
  BY OpenFields, BoundsAssumption DEF Opened, Typed, Ref
<1>2. \/ opens[o].saved # 0 /\ x \in Hold(o) /\ made' = made
      \/ opens[o].saved = 0 /\ x = made' /\ made' = made + 1
  BY <1>1, UnheldIdle
<1>3. CASE /\ opens' = [opens EXCEPT ![o].at = "setting", ![o].session = x]
           /\ UNCHANGED <<book, cwdOf, unprimed, creating, turn>>
  <2>1. /\ opens'[o] = [opens[o] EXCEPT !.at = "setting", !.session = x]
        /\ \A p \in Opens \ {o} : opens'[p] = opens[p]
    BY <1>3 DEF Typed
  <2>2. opens'[o].saved = opens[o].saved /\ opens'[o].session = x
    BY <1>1, <2>1 DEF OpenRecord
  <2>3. \A p \in Opens \ {o} : Hold(p)' = Hold(p)
    BY <2>1 DEF Hold
  <2>4. Hold(o)' \subseteq Hold(o) \cup {x}
    BY <1>1, <2>2, UnheldIdle DEF Hold
  <2> HIDE DEF x
  <2>5. CASE opens[o].saved # 0 /\ x \in Hold(o) /\ made' = made
    <3>1. \A p \in Opens : Hold(p)' \subseteq Hold(p)
      BY <2>3, <2>4, <2>5
    <3> QED BY <1>1, <1>3, <2>5, <3>1, LetGo
  <2>6. CASE opens[o].saved = 0 /\ x = made' /\ made' = made + 1
    BY <1>1, <1>3, <2>3, <2>4, <2>6, HoldsNew
  <2> QED BY <1>2, <2>5, <2>6
<1>4. CASE Lands(o, x)
  <2> HIDE DEF x
  <2>1. made <= made'
    BY <1>1
  <2> QED BY <1>1, <1>2, <1>4, <2>1, LandsPlaced
<1> QED BY <1>3, <1>4 DEF Opened

LEMMA ModeSetPlaced == ASSUME Typed, Placed, NEW o \in Opens, ModeSet(o) PROVE Placed'
<1>1. o \in Active /\ opens[o].session \in Sessions /\ opens[o].session # 0
  BY OpenFields, RefIs DEF ModeSet, Typed, OpenRecord
<1>2. opens[o].session \in Hold(o)
  BY <1>1, UnheldIdle
<1>3. Lands(o, opens[o].session) /\ UNCHANGED <<resumable, dropped, made>> /\ made \in Nat
  BY BoundsAssumption DEF ModeSet, Typed, Ref
<1>4. made <= made' /\ made' \in Nat
  BY <1>3
<1> QED BY <1>1, <1>2, <1>3, <1>4, LandsPlaced

LEMMA OpenFailsPlaced == ASSUME Typed, Placed, NEW o \in Opens, OpenFails(o) PROVE Placed'
<1>1. o \in Active /\ opens[o] \in OpenRecord
  BY OpenFields DEF OpenFails
<1>2. \A p \in Opens : Hold(p)' \subseteq Hold(p)
  <2>1. CASE opens' = [opens EXCEPT ![o] = [@ EXCEPT !.at = "opening", !.saved = 0,
                                             !.proc = proc, !.root = root, !.session = 0]]
    <3>1. /\ opens'[o] = [opens[o] EXCEPT !.at = "opening", !.saved = 0,
                                           !.proc = proc, !.root = root, !.session = 0]
          /\ \A p \in Opens \ {o} : opens'[p] = opens[p]
      BY <2>1 DEF Typed
    <3>2. opens'[o].saved = 0 /\ opens'[o].session = 0
      BY <1>1, <3>1 DEF OpenRecord
    <3> QED BY <3>1, <3>2 DEF Hold
  <2>2. CASE opens' = [opens EXCEPT ![o] = NoOpen]
    <3>1. opens'[o] = NoOpen /\ \A p \in Opens \ {o} : opens'[p] = opens[p]
      BY <2>2 DEF Typed
    <3> QED BY <3>1 DEF Hold
  <2> QED BY <2>1, <2>2 DEF OpenFails
<1>3. UNCHANGED <<book, resumable, made, dropped>>
  BY DEF OpenFails, sessionVars
<1> QED BY <1>2, <1>3, LetGo

LEMMA ClearedPlaced == ASSUME Typed, Placed, Crash \/ Up PROVE Placed'
<1>1. /\ \A s \in Scopes : book'[s] = 0
      /\ UNCHANGED <<resumable, made, dropped, opens>>
  BY DEF Crash, Up, Cleared, sessionVars
<1> QED BY <1>1, SameHold, LetGo

LEMMA ReloadPlaced == ASSUME Typed, Placed, Reload PROVE Placed'
<1>1. /\ \A s \in Scopes : /\ book'[s] = 0
                           /\ resumable'[s] \in {book[s], resumable[s]}
                           /\ book[s] = 0 => resumable'[s] = resumable[s]
      /\ UNCHANGED <<made, dropped, opens>>
  BY DEF Reload, Cleared, sessionVars
<1>2. \A o \in Opens : Hold(o)' = Hold(o) /\ 0 \notin Hold(o)
  BY <1>1, SameHold DEF Hold
<1>3. InOnePlace'
  <2>1. \A s, t \in Scopes : resumable'[s] # 0 /\ resumable'[s] = resumable'[t] => s = t
    BY <1>1 DEF Placed, InOnePlace
  <2>2. \A o \in Opens, s \in Scopes : book'[s] \notin Hold(o)' /\ resumable'[s] \notin Hold(o)'
    BY <1>1, <1>2 DEF Placed, InOnePlace
  <2>3. \A o, p \in Opens : o # p => Hold(o)' \cap Hold(p)' = {}
    BY <1>2 DEF Placed, InOnePlace
  <2>4. \A s \in Scopes : book'[s] = 0
    BY <1>1
  <2> QED BY <2>1, <2>2, <2>3, <2>4 DEF InOnePlace
<1>4. \A s \in Scopes : Usable(book[s])' /\ Usable(resumable[s])'
  <2>1. 0 <= made /\ 0 \notin dropped
    BY BoundsAssumption DEF Typed, Ref, Placed
  <2> QED BY <1>1, <2>1 DEF Placed, Usable
<1>5. \A o \in Opens : \A x \in Hold(o)' : Usable(x)'
  BY <1>1, <1>2 DEF Placed, Usable
<1> QED BY <1>1, <1>3, <1>4, <1>5 DEF Placed

\* What !rotate drops is in no other place.
LEMMA RotatePlaced == ASSUME Typed, Placed, NEW s \in Scopes, Rotate(s) PROVE Placed'
<1>1. /\ book'[s] = 0 /\ resumable'[s] = 0
      /\ \A t \in Scopes \ {s} : book'[t] = book[t] /\ resumable'[t] = resumable[t]
      /\ dropped' = dropped \cup ({book[s], resumable[s]} \ {0})
      /\ UNCHANGED <<made, opens>>
  BY DEF Rotate, Typed, sessionVars
<1>2. \A t \in Scopes : book'[t] \in {book[t], 0} /\ resumable'[t] \in {resumable[t], 0}
  BY <1>1
<1>3. \A o \in Opens : Hold(o)' \subseteq Hold(o)
  BY <1>1, SameHold
<1>4. ASSUME NEW x \in dropped' \ dropped
      PROVE  /\ x # 0 /\ x <= made
             /\ \A t \in Scopes : book'[t] # x /\ resumable'[t] # x
             /\ \A o \in Opens : x \notin Hold(o)
  <2>1. x # 0 /\ x \in {book[s], resumable[s]}
    BY <1>1
  <2>2. x <= made
    BY <2>1 DEF Placed, Usable
  <2>3. \A t \in Scopes : book'[t] # x /\ resumable'[t] # x
    BY <1>1, <2>1 DEF Placed, InOnePlace
  <2>4. \A o \in Opens : x \notin Hold(o)
    BY <2>1 DEF Placed, InOnePlace
  <2> QED BY <2>1, <2>2, <2>3, <2>4
<1> QED BY <1>1, <1>2, <1>3, <1>4, LetGo

LEMMA StaysPlaced ==
  ASSUME Typed, Placed, UNCHANGED <<book, resumable, opens, made, dropped>>
  PROVE  Placed'
BY SameHold, LetGo

LEMMA PlacedStep == Typed /\ Placed /\ [Next]_vars => Placed'
<1> SUFFICES ASSUME Typed, Placed, [Next]_vars PROVE Placed'
  OBVIOUS
<1>1. CASE UNCHANGED vars
  BY <1>1, StaysPlaced DEF vars
<1>2. ASSUME NEW s \in Scopes, WarmOpens(s) PROVE Placed'
  <2>1. CASE \E o \in Opens : SessionFor(s, o)
    BY <1>2, <2>1, StartsPlaced DEF WarmOpens, sessionVars
  <2>2. CASE UNCHANGED <<book, resumable, creating, opens>>
    BY <1>2, <2>2, StaysPlaced DEF WarmOpens, sessionVars
  <2> QED BY <1>2, <2>1, <2>2 DEF WarmOpens
<1>3. CASE TurnOpens
  <2>1. CASE \E o \in Opens : SessionFor(turn.scope, o)
    <3>1. turn.scope \in Scopes
      BY <1>3, TurnFields DEF TurnOpens, WaitingTurn
    <3> QED BY <1>3, <2>1, <3>1, StartsPlaced DEF TurnOpens, sessionVars
  <2>2. CASE UNCHANGED <<book, resumable, creating, opens>>
    BY <1>3, <2>2, StaysPlaced DEF TurnOpens, sessionVars
  <2> QED BY <1>3, <2>1, <2>2 DEF TurnOpens
<1>4. CASE \/ \E s \in Scopes : Claim(s) \/ Warm(s)
           \/ ReadsMemory \/ Prompt \/ Answer \/ PromptFails \/ WriteAnswered
           \/ \E r \in Roots : Move(r)
           \/ \E by \in {"owner", "tool"} : WriteMade(by)
  <2>1. UNCHANGED <<book, resumable, opens, made, dropped>>
    BY <1>4 DEF Claim, Warm, ReadsMemory, Prompt, Answer, PromptFails, WriteAnswered, Move,
                WriteMade, sessionVars
  <2> QED BY <2>1, StaysPlaced
<1>5. CASE Handler
  BY <1>3, <1>4, <1>5, OpenedPlaced, ModeSetPlaced, OpenFailsPlaced, ClearedPlaced, ReloadPlaced,
     RotatePlaced DEF Handler
<1> QED BY <1>1, <1>2, <1>5 DEF Next

LEMMA PlacedInit == Init => Placed
<1> SUFFICES ASSUME Init PROVE Placed
  OBVIOUS
<1>1. \A o \in Opens : Hold(o) = {}
  BY DEF Init, Hold
<1>2. \A s \in Scopes : book[s] = 0 /\ resumable[s] = 0
  BY DEF Init
<1>3. InOnePlace
  BY <1>1, <1>2 DEF InOnePlace
<1>4. Usable(0) /\ dropped = {}
  BY DEF Init, Usable
<1> QED BY <1>1, <1>2, <1>3, <1>4 DEF Placed

\* A session that `!rotate' dropped is never used again: no reload, resume or
\* open under way brings it back to the book.
THEOREM DroppedSessionsAreGone == Spec => []DroppedStaysDropped
<1>1. Typed /\ Placed => DroppedStaysDropped
  BY DEF Placed, Usable, DroppedStaysDropped
<1> QED BY <1>1, TypedInit, TypedStep, PlacedInit, PlacedStep, PTL DEF Spec

-----------------------------------------------------------------------------
(* Until a reload, a conversation has one open at a time, and the process  *)
(* it was asked of is the worker's: a crash fails it before the next        *)
(* process is up.  That is what keeps the book and a turn's session         *)
(* together.                                                               *)

InSession == turn.at \in {"priming", "read", "prompted"}

OneOpen ==
  /\ \A s \in Scopes : resumable[s] = 0
  /\ \A o \in Active : opens[o].saved = 0 /\ (up <=> opens[o].proc = proc)
  /\ \A o, p \in Active : opens[o].scope = opens[p].scope => o = p

Joined ==
  up => /\ \A o \in Active : creating[opens[o].scope] = o /\ book[opens[o].scope] = 0
        /\ \A s \in Scopes : creating[s] # 0 => /\ creating[s] \in Active
                                                /\ opens[creating[s]].scope = s

\* A turn waits for the open of its conversation, or runs in the session the
\* book has for it, if it has one.
TurnsOpen ==
  /\ turn.at = "opening" => turn.open \in Active /\ opens[turn.open].scope = turn.scope
  /\ InSession => /\ book[turn.scope] \in {0, turn.session}
                  /\ \A o \in Active : opens[o].scope # turn.scope

\* A prewarm goes on before a turn can begin.
WarmFirst == turn.at = "opening" \/ InSession => warming = {}

Calm == WarmFirst /\ (replaced = {} => OneOpen /\ Joined /\ TurnsOpen)

\* Sessions are let go, and the turn goes on in its session.
LEMMA CalmStays ==
  ASSUME Typed, Calm, UNCHANGED <<opens, creating, proc, up, replaced>>,
         \A s \in Scopes : book'[s] \in {book[s], 0} /\ resumable'[s] \in {resumable[s], 0},
         turn'.at = "opening" => turn' = turn,
         InSession' => InSession /\ turn'.scope = turn.scope /\ turn'.session = turn.session,
         turn'.at = "opening" \/ InSession' => warming' = warming
  PROVE  Calm'
<1>1. WarmFirst'
  BY DEF Calm, WarmFirst, InSession
<1>2. ASSUME replaced' = {} PROVE OneOpen' /\ Joined' /\ TurnsOpen'
  <2>1. OneOpen /\ Joined /\ TurnsOpen /\ Active' = Active
    BY <1>2 DEF Calm, Active
  <2>2. OneOpen'
    BY <2>1 DEF OneOpen, Active
  <2>3. Joined'
    <3>1. \A o \in Active : opens[o].scope \in Scopes
      BY OpenFields DEF OpenRecord
    <3> QED BY <2>1, <3>1 DEF Joined, Active
  <2>4. TurnsOpen'
    <3>1. InSession' => book'[turn.scope] \in {book[turn.scope], 0}
      BY TurnFields DEF InSession, SessionTurn
    <3>2. InSession' => book'[turn'.scope] \in {0, turn'.session}
      BY <2>1, <3>1 DEF TurnsOpen, InSession
    <3> QED BY <2>1, <3>2 DEF TurnsOpen, Active
  <2> QED BY <2>2, <2>3, <2>4
<1> QED BY <1>1, <1>2 DEF Calm

LEMMA OthersCalm ==
  ASSUME Typed, Calm,
         \/ \E s \in Scopes : Claim(s) \/ Warm(s) \/ Rotate(s)
         \/ ReadsMemory \/ Prompt \/ Answer \/ PromptFails \/ WriteAnswered
         \/ \E r \in Roots : Move(r)
         \/ \E by \in {"owner", "tool"} : WriteMade(by)
         \/ UNCHANGED vars
  PROVE  Calm'
<1>1. UNCHANGED <<opens, creating, proc, up, replaced>>
  BY DEF Claim, Warm, Rotate, ReadsMemory, Prompt, Answer, PromptFails, WriteAnswered, Move,
         WriteMade, vars
<1>2. \A s \in Scopes : book'[s] \in {book[s], 0} /\ resumable'[s] \in {resumable[s], 0}
  BY DEF Claim, Warm, Rotate, ReadsMemory, Prompt, Answer, PromptFails, WriteAnswered, Move,
         WriteMade, vars, Typed
<1>3. /\ turn'.at = "opening" => turn' = turn
      /\ InSession' => InSession /\ turn'.scope = turn.scope /\ turn'.session = turn.session
  <2>1. CASE turn' = turn
    BY <2>1 DEF InSession
  <2>2. CASE turn' = Idle \/ \E s \in Scopes : turn' = [at |-> "waiting", scope |-> s]
    BY <2>2 DEF InSession, Idle
  <2>3. CASE /\ turn \in SessionTurn
             /\ \/ turn' = [turn EXCEPT !.at = "read", !.read = memory]
                \/ turn' = [turn EXCEPT !.at = "prompted", !.proc = proc]
                \/ turn' = [turn EXCEPT !.fresh = FALSE]
    BY <2>3 DEF InSession, SessionTurn
  <2>4. ReadsMemory \/ Prompt \/ WriteAnswered => turn' = turn \/ turn \in SessionTurn
    BY TurnFields DEF ReadsMemory, Prompt, WriteAnswered, ReprimeAll
  <2> QED BY <2>1, <2>2, <2>3, <2>4 DEF Claim, Warm, Rotate, ReadsMemory, Prompt, Answer,
             PromptFails, WriteAnswered, ReprimeAll, Move, WriteMade, vars
<1>4. turn'.at = "opening" \/ InSession' => warming' = warming
  BY DEF Claim, Warm, Rotate, ReadsMemory, Prompt, Answer, PromptFails, WriteAnswered, Move,
         WriteMade, vars, Idle, InSession
<1> QED BY <1>1, <1>2, <1>3, <1>4, CalmStays

\* A caller that finds no session joins the open of its conversation, or
\* begins one.
LEMMA SessionForCalm ==
  ASSUME Typed, OneOpen, Joined, NEW s \in Scopes, NEW o \in Opens, SessionFor(s, o),
         up, UNCHANGED <<proc, up>>
  PROVE  /\ OneOpen' /\ Joined'
         /\ o \in Active' /\ opens'[o].scope = s
         /\ \A p \in Active' : p # o => p \in Active /\ opens'[p] = opens[p]
         /\ book'[s] = 0 /\ \A t \in Scopes \ {s} : book'[t] = book[t]
<1>1. book'[s] = 0 /\ \A t \in Scopes \ {s} : book'[t] = book[t]
  BY DEF SessionFor, Typed
<1>2. 0 \notin Opens
  BY DEF Opens
<1>3. \A p \in Active : opens[p].scope \in Scopes
  BY OpenFields DEF OpenRecord
<1>4. CASE creating[s] # 0 /\ o = creating[s] /\ UNCHANGED <<resumable, creating, opens>>
  <2>1. Active' = Active
    BY <1>4 DEF Active
  <2>2. OneOpen' /\ Joined'
    BY <1>1, <1>3, <1>4, <2>1 DEF OneOpen, Joined
  <2> QED BY <1>1, <1>4, <2>1, <2>2 DEF Joined
<1>5. CASE creating[s] = 0 /\ o \notin Active /\ StartsOpen(s, o)
  <2>1. /\ resumable'[s] = 0 /\ creating'[s] = o
        /\ \A t \in Scopes \ {s} : resumable'[t] = resumable[t] /\ creating'[t] = creating[t]
        /\ opens'[o] = [at |-> "opening", scope |-> s, proc |-> proc, saved |-> 0,
                        root |-> root, session |-> 0]
        /\ \A p \in Opens \ {o} : opens'[p] = opens[p]
    BY <1>5 DEF StartsOpen, Typed, OneOpen
  <2>2. Active' = Active \cup {o}
    BY <2>1 DEF Active, NoOpen
  <2>3. \A p \in Active : opens[p].scope # s /\ p # o /\ opens'[p] = opens[p]
    BY <1>2, <1>5, <2>1 DEF Joined, Active
  <2>4. OneOpen'
    BY <2>1, <2>2, <2>3 DEF OneOpen
  <2>5. Joined'
    BY <1>1, <1>3, <2>1, <2>2, <2>3 DEF Joined
  <2> QED BY <1>1, <2>1, <2>2, <2>3, <2>4, <2>5
<1> QED BY <1>4, <1>5 DEF SessionFor

LEMMA WarmOpensCalm == ASSUME Typed, Calm, NEW s \in Scopes, WarmOpens(s) PROVE Calm'
<1>1. ~(turn'.at = "opening") /\ ~InSession' /\ turn' = turn
  BY DEF Calm, WarmFirst, WarmOpens, InSession
<1>2. CASE UNCHANGED <<book, resumable, creating, opens>>
  BY <1>1, <1>2, CalmStays DEF WarmOpens
<1>3. ASSUME NEW o \in Opens, SessionFor(s, o) PROVE Calm'
  BY <1>1, <1>3, SessionForCalm DEF Calm, WarmFirst, WarmOpens, TurnsOpen
<1> QED BY <1>2, <1>3 DEF WarmOpens

LEMMA TurnOpensCalm == ASSUME Typed, Calm, TurnOpens, warming = {} PROVE Calm'
<1> DEFINE s == turn.scope
           t == [scope |-> s, root |-> root]
<1>1. s \in Scopes /\ up /\ UNCHANGED <<proc, up, replaced, warming>>
  BY TurnFields DEF TurnOpens, WaitingTurn
<1>2. WarmFirst'
  BY <1>1 DEF WarmFirst
<1>3. ASSUME Found(s), turn' = HasSession(t, book[s], s \in unprimed),
             UNCHANGED <<book, resumable, creating, opens>>, replaced' = {}
      PROVE  OneOpen' /\ Joined' /\ TurnsOpen'
  <2>1. OneOpen /\ Joined /\ Active' = Active
    BY <1>1, <1>3 DEF Calm, Active
  <2>2. OneOpen' /\ Joined'
    BY <1>1, <1>3, <2>1 DEF OneOpen, Joined
  <2>3. turn'.scope = s /\ turn'.session = book[s] /\ turn'.at # "opening"
    BY <1>3 DEF HasSession
  <2>4. \A o \in Active : opens[o].scope # s
    BY <1>1, <1>3, <2>1 DEF Joined, Found
  <2>5. TurnsOpen'
    BY <1>3, <2>1, <2>3, <2>4 DEF TurnsOpen
  <2> QED BY <2>2, <2>5
<1>4. ASSUME NEW o \in Opens, SessionFor(s, o),
             turn' = [at |-> "opening", scope |-> s, root |-> root, open |-> o], replaced' = {}
      PROVE  OneOpen' /\ Joined' /\ TurnsOpen'
  <2>1. OneOpen' /\ Joined' /\ o \in Active' /\ opens'[o].scope = s
    BY <1>1, <1>4, SessionForCalm DEF Calm
  <2>2. TurnsOpen'
    BY <1>4, <2>1 DEF TurnsOpen, InSession
  <2> QED BY <2>1, <2>2
<1> QED BY <1>2, <1>3, <1>4 DEF Calm, TurnOpens

\* The open is over: its session is in the book, and the turn that waited for
\* it runs there.
LEMMA LandsCalm ==
  ASSUME Typed, Calm, NEW o \in Active, NEW x \in Sessions, Lands(o, x),
         UNCHANGED <<proc, up, replaced, resumable, warming>>
  PROVE  Calm'
<1> DEFINE s == opens[o].scope
<1>1. s \in Scopes /\ o \in Opens /\ \A p \in Active : opens[p].scope \in Scopes
  BY OpenFields DEF OpenRecord
<1>2. /\ book'[s] = x /\ creating'[s] = 0
      /\ \A t \in Scopes \ {s} : book'[t] = book[t] /\ creating'[t] = creating[t]
  BY <1>1 DEF Lands, Typed
<1>3. Active' = Active \ {o} /\ \A p \in Active' : opens'[p] = opens[p]
  <2>1. opens'[o] = NoOpen /\ \A p \in Opens \ {o} : opens'[p] = opens[p]
    BY <1>1, LandsTyped DEF Typed
  <2> QED BY <1>1, <2>1 DEF Active
<1>4. \/ turn' = turn /\ ~(turn.at = "opening" /\ turn.open = o)
      \/ /\ turn.at = "opening" /\ turn.open = o
         /\ turn'.at # "opening" /\ turn'.scope = turn.scope /\ turn'.session = x
  BY DEF Lands, HasSession
<1>5. WarmFirst'
  BY <1>4 DEF Calm, WarmFirst, InSession
<1>6. ASSUME replaced' = {} PROVE OneOpen' /\ Joined' /\ TurnsOpen'
  <2>1. OneOpen /\ Joined /\ TurnsOpen
    BY <1>6 DEF Calm
  <2>2. OneOpen'
    BY <1>3, <2>1 DEF OneOpen
  <2>3. \A p \in Active' : opens[p].scope # s
    BY <1>3, <2>1 DEF OneOpen
  <2>4. Joined'
    BY <1>1, <1>2, <1>3, <2>1, <2>3 DEF Joined, OneOpen
  <2>5. ASSUME turn' = turn, ~(turn.at = "opening" /\ turn.open = o)
        PROVE  TurnsOpen'
    <3>1. InSession => turn.scope \in Scopes /\ turn.scope # s
      BY <2>1, TurnFields DEF TurnsOpen, InSession, SessionTurn
    <3> QED BY <1>2, <1>3, <2>1, <2>5, <3>1 DEF TurnsOpen, InSession
  <2>6. ASSUME turn.at = "opening", turn.open = o,
               turn'.at # "opening", turn'.scope = turn.scope, turn'.session = x
        PROVE  TurnsOpen'
    <3>1. turn.scope = s
      BY <2>1, <2>6 DEF TurnsOpen
    <3> QED BY <1>2, <1>3, <2>3, <2>6, <3>1 DEF TurnsOpen
  <2> QED BY <1>4, <2>2, <2>4, <2>5, <2>6
<1> QED BY <1>5, <1>6 DEF Calm

LEMMA OpenedCalm == ASSUME Typed, Calm, NEW o \in Opens, Opened(o) PROVE Calm'
<1> DEFINE x == IF opens[o].saved = 0 THEN made + 1 ELSE opens[o].saved
<1>1. /\ o \in Active /\ opens[o] \in OpenRecord /\ x \in Sessions
      /\ UNCHANGED <<proc, up, replaced, resumable, warming>>
  BY OpenFields DEF Opened
<1>2. CASE /\ opens' = [opens EXCEPT ![o].at = "setting", ![o].session = x]
           /\ UNCHANGED <<book, cwdOf, unprimed, creating, turn>>
  <2>1. /\ opens'[o] = [opens[o] EXCEPT !.at = "setting", !.session = x]
        /\ \A p \in Opens \ {o} : opens'[p] = opens[p]
    BY <1>2 DEF Typed
  <2>2. opens'[o] # NoOpen /\ opens'[o].at = "setting"
    BY <1>1, <2>1 DEF OpenRecord, NoOpen
  <2>3. /\ Active' = Active
        /\ \A p \in Active : /\ opens'[p].scope = opens[p].scope
                             /\ opens'[p].proc = opens[p].proc
                             /\ opens'[p].saved = opens[p].saved
    <3>1. /\ opens'[o].scope = opens[o].scope /\ opens'[o].proc = opens[o].proc
          /\ opens'[o].saved = opens[o].saved
      BY <1>1, <2>1 DEF OpenRecord
    <3>2. Active' = Active
      BY <1>1, <2>1, <2>2 DEF Active
    <3> QED BY <2>1, <3>1, <3>2 DEF Active
  <2> HIDE DEF x
  <2>4. WarmFirst'
    BY <1>1, <1>2 DEF Calm, WarmFirst, InSession
  <2>5. ASSUME replaced' = {} PROVE OneOpen' /\ Joined' /\ TurnsOpen'
    <3>1. OneOpen /\ Joined /\ TurnsOpen
      BY <1>1, <2>5 DEF Calm
    <3>2. OneOpen'
      BY <1>1, <2>3, <3>1 DEF OneOpen
    <3>3. Joined'
      BY <1>1, <1>2, <2>3, <3>1 DEF Joined
    <3>4. TurnsOpen'
      BY <1>2, <2>3, <3>1 DEF TurnsOpen, InSession
    <3> QED BY <3>2, <3>3, <3>4
  <2> QED BY <2>4, <2>5 DEF Calm
<1>3. CASE Lands(o, x)
  <2> HIDE DEF x
  <2> QED BY <1>1, <1>3, LandsCalm
<1> QED BY <1>2, <1>3 DEF Opened

LEMMA ModeSetCalm == ASSUME Typed, Calm, NEW o \in Opens, ModeSet(o) PROVE Calm'
<1>1. o \in Active /\ opens[o].session \in Sessions
  BY OpenFields, RefIs DEF ModeSet, Typed, OpenRecord
<1> QED BY <1>1, LandsCalm DEF ModeSet

LEMMA OpenFailsCalm == ASSUME Typed, Calm, NEW o \in Opens, OpenFails(o) PROVE Calm'
<1> DEFINE s == opens[o].scope
<1>1. /\ s \in Scopes /\ o \in Active /\ \A p \in Active : opens[p].scope \in Scopes
      /\ UNCHANGED <<proc, up, replaced, book, resumable, warming>>
  BY OpenFields DEF OpenRecord, OpenFails
<1>2. \/ turn' = turn
      \/ turn' = Idle
      \/ turn.at = "opening" /\ turn' = [turn EXCEPT !.root = root]
  BY DEF OpenFails
<1>3. WarmFirst'
  <2>1. InSession' => InSession
    BY <1>2, TurnFields DEF InSession, Idle, OpeningTurn
  <2>2. turn'.at = "opening" => turn.at = "opening"
    BY <1>2 DEF Idle
  <2> QED BY <1>1, <2>1, <2>2 DEF Calm, WarmFirst
<1>4. ASSUME replaced' = {} PROVE OneOpen' /\ Joined' /\ TurnsOpen'
  <2>1. OneOpen /\ Joined /\ TurnsOpen
    BY <1>1, <1>4 DEF Calm
  <2>2. /\ opens' = [opens EXCEPT ![o] = NoOpen]
        /\ creating' = [creating EXCEPT ![s] = 0]
        /\ turn' = IF turn.at = "opening" /\ turn.open = o THEN Idle ELSE turn
    BY <2>1, <1>1 DEF OpenFails, OneOpen
  <2>3. /\ Active' = Active \ {o} /\ \A p \in Active' : opens'[p] = opens[p]
        /\ creating'[s] = 0 /\ \A t \in Scopes \ {s} : creating'[t] = creating[t]
    BY <1>1, <2>2 DEF Typed, Active
  <2>4. OneOpen'
    BY <1>1, <2>1, <2>3 DEF OneOpen
  <2>5. Joined'
    BY <1>1, <2>1, <2>3 DEF Joined, OneOpen
  <2>6. TurnsOpen'
    BY <1>1, <2>1, <2>2, <2>3 DEF TurnsOpen, InSession, Idle
  <2> QED BY <2>4, <2>5, <2>6
<1> QED BY <1>3, <1>4 DEF Calm

LEMMA ReplacedCalm == ASSUME Typed, Calm, Crash \/ Up \/ Reload PROVE Calm'
<1>1. /\ \A s \in Scopes : book'[s] = 0 /\ creating'[s] = 0
      /\ UNCHANGED <<opens, warming, turn>>
  BY DEF Crash, Up, Reload, Cleared
<1>2. Active' = Active /\ \A p \in Active : opens[p].scope \in Scopes /\ opens[p].proc \in Nat
  BY <1>1, OpenFields DEF Active, OpenRecord
<1>3. WarmFirst'
  BY <1>1 DEF Calm, WarmFirst, InSession
<1>4. ASSUME replaced' = {} PROVE OneOpen' /\ Joined' /\ TurnsOpen'
  <2>1. replaced = {} /\ UNCHANGED resumable /\ ~Reload
    BY <1>4 DEF Crash, Up, Reload
  <2>2. OneOpen /\ TurnsOpen
    BY <2>1 DEF Calm
  <2>3. \A o \in Active : ~up' /\ opens[o].proc # proc'
    <3>1. CASE Crash
      BY <1>2, <2>2, <3>1 DEF Crash, OneOpen, Typed
    <3>2. CASE Up
      BY <2>1, <2>2, <3>2 DEF Up, OneOpen
    <3> QED BY <2>1, <3>1, <3>2
  <2>4. OneOpen'
    BY <1>1, <1>2, <2>1, <2>2, <2>3 DEF OneOpen
  <2>5. Joined'
    BY <1>1, <1>2, <2>3 DEF Joined
  <2>6. TurnsOpen'
    <3>1. InSession => turn.scope \in Scopes
      BY TurnFields DEF InSession, SessionTurn
    <3> QED BY <1>1, <1>2, <2>2, <3>1 DEF TurnsOpen, InSession
  <2> QED BY <2>4, <2>5, <2>6
<1> QED BY <1>3, <1>4 DEF Calm

LEMMA CalmStep == Typed /\ Calm /\ [Next]_vars => Calm'
<1> SUFFICES ASSUME Typed, Calm, [Next]_vars PROVE Calm'
  OBVIOUS
<1>1. CASE UNCHANGED vars
  BY <1>1, OthersCalm
<1>2. CASE (up => warming = {}) /\ Handler
  <2>1. TurnOpens => warming = {}
    BY <1>2 DEF TurnOpens
  <2> QED BY <1>2, <2>1, TurnOpensCalm, OthersCalm, OpenedCalm, ModeSetCalm, OpenFailsCalm,
             ReplacedCalm DEF Handler
<1> QED BY <1>1, <1>2, WarmOpensCalm DEF Next

LEMMA CalmInit == Init => Calm
<1> SUFFICES ASSUME Init PROVE Calm
  OBVIOUS
<1>1. Active = {}
  BY DEF Init, Active, Opens
<1> QED BY <1>1 DEF Init, Calm, WarmFirst, OneOpen, Joined, TurnsOpen, InSession, Idle

LEMMA SpecCalm == Spec => [](Typed /\ Calm)
BY TypedInit, TypedStep, CalmInit, CalmStep, PTL DEF Spec

\* Until a reload, one process is asked for one session of a conversation at a
\* time, whoever needs it.
THEOREM OneSessionIsOpened == Spec => []OneOpenPerScope
<1>1. Calm => OneOpenPerScope
  BY DEF Calm, OneOpen, OneOpenPerScope, OneOpenEver
<1> QED BY <1>1, SpecCalm, PTL

-----------------------------------------------------------------------------
(* What the sessions were told.  A session in the book that is not marked  *)
(* to be told again was told the memory of now; one that is being told is  *)
(* being told the memory of now, or is no longer fresh.  A write is the     *)
(* time between the two; the session that writes knows what it wrote.       *)

\* The model's own write is answered before the turn that made it is over: it
\* waits for the answer of its tool.
AnsweredInTurn == write = "tool" => turn.at = "prompted"

SettledFor(s) == write = "none" \/ (write = "tool" /\ s = turn.scope)

UpToDate ==
  \A s \in Scopes : book[s] # 0 /\ s \notin unprimed /\ SettledFor(s) => knows[book[s]] = memory

Telling ==
  turn.at \in {"read", "prompted"} =>
    /\ turn.read <= memory
    /\ turn.priming /\ turn.fresh /\ write = "none" => turn.read = memory

Informed ==
  replaced = {} => UpToDate /\ Telling /\ \A x \in Sessions : knows[x] <= memory

\* Sessions are let go or marked, and nobody learns or writes anything.
LEMMA InformedStays ==
  ASSUME Typed, Informed, AnsweredInTurn', UNCHANGED <<memory, knows, write>>,
         replaced' = {} => replaced = {},
         \A s \in Scopes : \/ book'[s] = book[s] /\ (s \in unprimed => s \in unprimed')
                           \/ book'[s] = 0
                           \/ s \in unprimed',
         turn'.at \in {"read", "prompted"} =>
           \/ turn' = turn
           \/ turn'.read <= memory /\ (turn'.priming /\ turn'.fresh => turn'.read = memory),
         write = "tool" => turn' = turn
  PROVE  Informed'
<1> SUFFICES ASSUME replaced' = {}
             PROVE  UpToDate' /\ Telling' /\ \A x \in Sessions : knows'[x] <= memory'
  BY DEF Informed
<1>1. UpToDate /\ Telling /\ \A x \in Sessions : knows[x] <= memory
  BY DEF Informed
<1>2. UpToDate'
  BY <1>1 DEF UpToDate, SettledFor
<1>3. Telling'
  BY <1>1 DEF Telling
<1> QED BY <1>1, <1>2, <1>3

LEMMA LandsInformed ==
  ASSUME Typed, Calm, Informed, AnsweredInTurn', NEW o \in Active, NEW x \in Sessions,
         Lands(o, x), UNCHANGED <<memory, knows, write, replaced>>
  PROVE  Informed'
<1> DEFINE s == opens[o].scope
<1> SUFFICES ASSUME replaced' = {} PROVE Informed'
  BY DEF Informed
<1>1. s \in Scopes /\ opens[o].saved = 0
  BY OpenFields DEF OpenRecord, Calm, OneOpen
<1>2. unprimed' = unprimed \cup {s} /\ \A t \in Scopes \ {s} : book'[t] = book[t]
  BY <1>1 DEF Lands, Typed
<1>3. \/ turn' = turn
      \/ turn.at = "opening" /\ turn.scope = s /\ turn'.at = "priming"
  BY <1>1 DEF Lands, HasSession, Calm, TurnsOpen
<1>4. write = "tool" => turn' = turn
  BY <1>3 DEF AnsweredInTurn
<1> QED BY <1>2, <1>3, <1>4, InformedStays

LEMMA OpeningInformed ==
  ASSUME Typed, Calm, Informed, AnsweredInTurn',
         \/ \E s \in Scopes : WarmOpens(s)
         \/ \E o \in Opens : Opened(o) \/ ModeSet(o) \/ OpenFails(o)
         \/ TurnOpens
  PROVE  Informed'
<1>1. UNCHANGED <<memory, knows, write, replaced>>
  BY DEF WarmOpens, Opened, ModeSet, OpenFails, TurnOpens, memoryVars
<1>2. ASSUME NEW s \in Scopes, WarmOpens(s) PROVE Informed'
  <2>1. UNCHANGED <<turn, unprimed>> /\ \A t \in Scopes : book'[t] \in {book[t], 0}
    BY <1>2 DEF WarmOpens, SessionFor, Typed
  <2> QED BY <1>1, <2>1, InformedStays
<1>3. ASSUME NEW o \in Opens, Opened(o) PROVE Informed'
  <2> DEFINE x == IF opens[o].saved = 0 THEN made + 1 ELSE opens[o].saved
  <2>1. o \in Active /\ x \in Sessions
    BY <1>3 DEF Opened
  <2>2. CASE UNCHANGED <<book, cwdOf, unprimed, creating, turn>>
    BY <1>1, <2>2, InformedStays
  <2>3. CASE Lands(o, x)
    <3> HIDE DEF x
    <3> QED BY <1>1, <2>1, <2>3, LandsInformed
  <2> QED BY <1>3, <2>2, <2>3 DEF Opened
<1>4. ASSUME NEW o \in Opens, ModeSet(o) PROVE Informed'
  <2>1. o \in Active /\ opens[o].session \in Sessions
    BY <1>4, OpenFields, RefIs DEF ModeSet, Typed, OpenRecord
  <2> QED BY <1>1, <1>4, <2>1, LandsInformed DEF ModeSet
<1>5. ASSUME NEW o \in Opens, OpenFails(o) PROVE Informed'
  <2>1. \/ turn' = turn
        \/ turn' = Idle
        \/ turn.at = "opening" /\ turn' = [turn EXCEPT !.root = root]
    BY <1>5 DEF OpenFails
  <2>2. turn'.at \in {"read", "prompted"} => turn' = turn
    BY <2>1, TurnFields DEF Idle, OpeningTurn
  <2>3. write = "tool" => turn' = turn
    BY <1>1, <2>2 DEF AnsweredInTurn
  <2> QED BY <1>1, <1>5, <2>2, <2>3, InformedStays DEF OpenFails
<1>6. ASSUME TurnOpens PROVE Informed'
  <2>1. UNCHANGED unprimed /\ \A t \in Scopes : book'[t] \in {book[t], 0}
    BY <1>6 DEF TurnOpens, SessionFor, Typed
  <2>2. turn'.at = "prompted" => turn'.read = 0 /\ ~turn'.priming
    <3> DEFINE t == [scope |-> turn.scope, root |-> root]
    <3>1. turn'.at = "prompted" =>
            turn' = HasSession(t, book[turn.scope], turn.scope \in unprimed)
      BY <1>6 DEF TurnOpens
    <3>2. CASE turn.scope \in unprimed
      BY <3>1, <3>2 DEF HasSession
    <3>3. CASE turn.scope \notin unprimed
      <4>1. (turn.scope \in unprimed) = FALSE
        BY <3>3
      <4>2. turn'.at = "prompted" => turn' = HasSession(t, book[turn.scope], FALSE)
        BY <3>1, <4>1, Zenon
      <4> QED BY <4>2 DEF HasSession
    <3> QED BY <3>2, <3>3
  <2>3. turn'.at # "read" /\ 0 <= memory
    <3>1. turn'.at \in {"priming", "prompted", "opening"}
      BY <1>6 DEF TurnOpens, HasSession
    <3> QED BY <3>1 DEF Typed
  <2>4. CASE write = "tool"
    <3>1. turn'.at = "prompted" /\ Found(turn.scope) /\ turn'.scope = turn.scope
      BY <1>1, <1>6, <2>4 DEF AnsweredInTurn, TurnOpens, HasSession
    <3>2. replaced' = {} => UpToDate /\ Telling /\ \A x \in Sessions : knows[x] <= memory
      BY <1>1 DEF Informed
    <3>3. replaced' = {} => UpToDate'
      BY <1>1, <2>1, <2>4, <3>1, <3>2 DEF UpToDate, SettledFor
    <3>4. Telling'
      BY <1>1, <2>2, <2>3 DEF Telling
    <3> QED BY <1>1, <3>2, <3>3, <3>4 DEF Informed
  <2>5. CASE write # "tool"
    BY <1>1, <2>1, <2>2, <2>3, <2>5, InformedStays
  <2> QED BY <2>4, <2>5
<1> QED BY <1>2, <1>3, <1>4, <1>5, <1>6

LEMMA ForgottenInformed ==
  ASSUME Typed, Informed, AnsweredInTurn',
         \/ \E s \in Scopes : Claim(s) \/ Warm(s) \/ Rotate(s)
         \/ ReadsMemory \/ Prompt \/ PromptFails
         \/ Crash \/ Up \/ Reload
         \/ \E r \in Roots : Move(r)
         \/ UNCHANGED vars
  PROVE  Informed'
<1>1. UNCHANGED <<memory, knows, write>> /\ (replaced' = {} => replaced = {})
  BY DEF Claim, Warm, Rotate, ReadsMemory, Prompt, PromptFails, Crash, Up, Reload, Move, vars,
         memoryVars
<1>2. \A s \in Scopes : \/ book'[s] = book[s] /\ (s \in unprimed => s \in unprimed')
                        \/ book'[s] = 0
  BY DEF Claim, Warm, Rotate, ReadsMemory, Prompt, PromptFails, Crash, Up, Reload, Move, vars,
         Cleared, Typed
<1>3. \/ turn' = turn
      \/ turn' = Idle
      \/ turn'.at = "waiting"
      \/ ReadsMemory /\ turn'.at = "read" /\ turn'.read = memory
      \/ /\ Prompt /\ turn'.at = "prompted" /\ turn'.read = turn.read
         /\ turn'.priming = turn.priming /\ turn'.fresh = turn.fresh /\ turn'.scope = turn.scope
  <2>1. ReadsMemory \/ Prompt => turn \in SessionTurn
    BY TurnFields DEF ReadsMemory, Prompt
  <2>2. ReadsMemory => turn'.at = "read" /\ turn'.read = memory
    BY <2>1 DEF ReadsMemory, SessionTurn
  <2>3. Prompt => /\ turn'.at = "prompted" /\ turn'.read = turn.read /\ turn'.scope = turn.scope
                  /\ turn'.priming = turn.priming /\ turn'.fresh = turn.fresh
    BY <2>1 DEF Prompt, SessionTurn
  <2> QED BY <2>2, <2>3 DEF Claim, Warm, Rotate, PromptFails, Crash, Up, Reload, Move, vars
<1>4. memory \in Int
  BY DEF Typed
<1>5. CASE Prompt
  <2> SUFFICES ASSUME replaced = {} PROVE Informed'
    BY <1>1 DEF Informed
  <2>1. turn.at = "read" /\ UpToDate /\ Telling
    BY <1>5 DEF Prompt, Informed
  <2>2. turn'.at = "prompted" /\ turn'.read = turn.read /\ turn'.scope = turn.scope
        /\ turn'.priming = turn.priming /\ turn'.fresh = turn.fresh
    BY <1>5, TurnFields DEF Prompt, SessionTurn
  <2>3. UpToDate'
    BY <1>1, <1>5, <2>1, <2>2 DEF UpToDate, SettledFor, Prompt
  <2>4. Telling'
    BY <1>1, <2>1, <2>2 DEF Telling
  <2> QED BY <1>1, <2>3, <2>4 DEF Informed
<1>6. CASE ~Prompt
  <2>1. turn'.at \in {"read", "prompted"} =>
          turn' = turn \/ (turn'.read = memory /\ turn'.at = "read")
    BY <1>3, <1>6 DEF Idle
  <2>2. write = "tool" => turn' = turn
    BY <1>1, <2>1 DEF AnsweredInTurn
  <2>3. \A s \in Scopes : \/ book'[s] = book[s] /\ (s \in unprimed => s \in unprimed')
                          \/ book'[s] = 0
                          \/ s \in unprimed'
    BY <1>2
  <2>4. turn'.at \in {"read", "prompted"} =>
           \/ turn' = turn
           \/ turn'.read <= memory /\ (turn'.priming /\ turn'.fresh => turn'.read = memory)
    BY <1>4, <2>1
  <2> QED BY <1>1, <2>2, <2>3, <2>4, InformedStays
<1> QED BY <1>5, <1>6

\* The session of the turn has been told.
LEMMA AnswerInformed ==
  ASSUME Typed, Calm, Informed, AnsweredInTurn', Answer
  PROVE  Informed'
<1> SUFFICES ASSUME replaced = {}
             PROVE  UpToDate' /\ Telling' /\ \A x \in Sessions : knows'[x] <= memory'
  BY DEF Informed, Answer
<1>1. /\ UpToDate /\ Telling /\ \A x \in Sessions : knows[x] <= memory
      /\ TurnsOpen /\ turn \in SessionTurn /\ turn.at = "prompted"
  BY TurnFields DEF Informed, Calm, Answer
<1>2. /\ turn.scope \in Scopes /\ turn.session \in Sessions /\ turn.read \in Nat
      /\ book[turn.scope] \in {0, turn.session} /\ turn.read <= memory
  BY <1>1 DEF TurnsOpen, InSession, Telling, SessionTurn
<1>3. /\ turn' = Idle /\ UNCHANGED <<book, memory, write>> /\ write # "tool"
  BY DEF Answer, AnsweredInTurn, Idle
<1>4. \A x \in Sessions : /\ knows'[x] \in Nat /\ knows[x] <= knows'[x] /\ knows'[x] <= memory'
  <2>1. \A x \in Sessions : /\ knows[x] \in Nat /\ memory \in Nat
                            /\ \/ knows'[x] = knows[x]
                               \/ knows'[x] = turn.read /\ knows[x] < turn.read
    BY <1>2 DEF Answer, Learns, Typed
  <2> QED BY <1>1, <1>2, <1>3, <2>1
<1>5. turn.priming => turn.read <= knows'[turn.session]
  BY <1>2 DEF Answer, Learns, Typed
<1>6. Telling'
  BY <1>3 DEF Telling, Idle
<1>7. UpToDate'
  <2> SUFFICES ASSUME NEW s \in Scopes, book'[s] # 0, s \notin unprimed', SettledFor(s)'
               PROVE  knows'[book'[s]] = memory'
    BY DEF UpToDate
  <2>1. write = "none" /\ book[s] \in Sessions /\ memory \in Nat
    BY <1>3, RefIs DEF SettledFor, Typed
  <2>2. CASE s \notin unprimed
    <3>1. knows[book[s]] = memory
      BY <1>1, <1>3, <2>1, <2>2 DEF UpToDate, SettledFor
    <3> QED BY <1>3, <1>4, <2>1, <3>1
  <2>3. CASE s \in unprimed
    <3>1. turn.priming /\ turn.fresh /\ s = turn.scope
      BY <2>3 DEF Answer
    <3>2. turn.read = memory /\ book[s] = turn.session
      BY <1>1, <1>2, <1>3, <2>1, <3>1 DEF Telling
    <3> QED BY <1>3, <1>4, <1>5, <2>1, <3>1, <3>2
  <2> QED BY <2>2, <2>3
<1> QED BY <1>4, <1>6, <1>7

\* A write is made, and then answered.
LEMMA WriteInformed ==
  ASSUME Typed, Calm, Informed, AnsweredInTurn, AnsweredInTurn',
         WriteAnswered \/ \E by \in {"owner", "tool"} : WriteMade(by)
  PROVE  Informed'
<1> SUFFICES ASSUME replaced = {}
             PROVE  UpToDate' /\ Telling' /\ \A x \in Sessions : knows'[x] <= memory'
  BY DEF Informed, WriteAnswered, WriteMade
<1>1. UpToDate /\ Telling /\ (\A x \in Sessions : knows[x] <= memory) /\ TurnsOpen /\ memory \in Nat
  BY DEF Informed, Calm, Typed
<1>2. CASE WriteAnswered
  <2>1. UNCHANGED <<book, memory, knows>> /\ write' = "none" /\ write # "none"
    BY <1>2 DEF WriteAnswered
  <2>2. UpToDate'
    <3> SUFFICES ASSUME NEW s \in Scopes, book[s] # 0, s \notin unprimed'
                 PROVE  knows[book[s]] = memory
      BY <2>1 DEF UpToDate
    <3>1. s \notin unprimed /\ write = "tool" /\ s = turn.scope
      BY <1>2 DEF WriteAnswered, ReprimeAll
    <3> QED BY <1>1, <3>1 DEF UpToDate, SettledFor
  <2>3. Telling'
    <3>1. turn.at \in {"priming", "read", "prompted"} =>
            turn'.at = turn.at /\ turn'.read = turn.read /\ ~turn'.fresh
      BY <1>2, TurnFields DEF WriteAnswered, ReprimeAll, SessionTurn
    <3>2. turn.at \notin {"priming", "read", "prompted"} => turn' = turn
      BY <1>2 DEF WriteAnswered, ReprimeAll
    <3> QED BY <1>1, <2>1, <3>1, <3>2 DEF Telling
  <2> QED BY <1>1, <2>1, <2>2, <2>3
<1>3. ASSUME NEW by \in {"owner", "tool"}, WriteMade(by)
      PROVE  UpToDate' /\ Telling' /\ \A x \in Sessions : knows'[x] <= memory'
  <2>1. UNCHANGED <<book, turn, unprimed>> /\ write' = by /\ memory' = memory + 1
    BY <1>3 DEF WriteMade
  <2>2. \A x \in Sessions : knows'[x] \in {knows[x], memory + 1} /\ knows[x] \in Nat
    BY <1>3 DEF WriteMade, Typed
  <2>3. \A x \in Sessions : knows'[x] <= memory'
    BY <1>1, <2>1, <2>2
  <2>4. Telling'
    <3>1. turn.at \in {"read", "prompted"} => turn.read \in Nat
      BY TurnFields DEF SessionTurn
    <3> QED BY <1>1, <2>1, <3>1 DEF Telling
  <2>5. UpToDate'
    <3> SUFFICES ASSUME NEW s \in Scopes, book[s] # 0, by = "tool", s = turn.scope
                 PROVE  knows'[book[s]] = memory + 1
      BY <2>1 DEF UpToDate, SettledFor
    <3>1. turn.at = "prompted" /\ turn.session \in Sessions
      BY <1>3, TurnFields DEF WriteMade, SessionTurn
    <3>2. book[s] = turn.session
      BY <1>1, <3>1 DEF TurnsOpen, InSession
    <3> QED BY <1>3, <3>1, <3>2 DEF WriteMade, Typed
  <2> QED BY <2>3, <2>4, <2>5
<1> QED BY <1>2, <1>3

LEMMA InformedStep ==
  Typed /\ Calm /\ Informed /\ AnsweredInTurn /\ AnsweredInTurn' /\ [Next]_vars => Informed'
<1> SUFFICES ASSUME Typed, Calm, Informed, AnsweredInTurn, AnsweredInTurn', [Next]_vars
             PROVE  Informed'
  OBVIOUS
<1>1. CASE UNCHANGED vars
  BY <1>1, ForgottenInformed
<1>2. CASE Handler
  BY <1>2, OpeningInformed, ForgottenInformed, AnswerInformed, WriteInformed DEF Handler
<1> QED BY <1>1, <1>2, OpeningInformed DEF Next

LEMMA InformedInit == Init => Informed
<1> SUFFICES ASSUME Init PROVE Informed
  OBVIOUS
<1>1. UpToDate /\ Telling
  BY DEF Init, UpToDate, Telling, Idle
<1> QED BY <1>1 DEF Init, Informed

\* What the sessions carry is what the agent carries now, as soon as no write
\* is under way: through crashes, rotations and writes of the owner and of the
\* models, if no model's write outlives its turn.
THEOREM SessionsCarryTheMemory ==
  Spec /\ []AnsweredInTurn => []SessionsKnowTheMemory
<1>1. Informed => SessionsKnowTheMemory
  BY DEF Informed, UpToDate, SettledFor, SessionsKnowTheMemory, MemoryKnownEver
<1> QED BY <1>1, SpecCalm, InformedInit, InformedStep, PTL DEF Spec

-----------------------------------------------------------------------------
(* Where a conversation is that a reload is to keep: in the book, in the   *)
(* store of the reload, or in the one open that is to resume it.  A reload  *)
(* keeps it if it overtakes no open, and no session that was spoken in is   *)
(* waiting to be told the instructions again: only told ones are saved.     *)

Of(s) == {o \in Active : opens[o].scope = s}

InBook(s) == up /\ book[s] = kept[s] /\ creating[s] = 0 /\ Of(s) = {}

InStore(s) == book[s] = 0 /\ resumable[s] = kept[s] /\ creating[s] = 0 /\ Of(s) = {}

InFlight(s) ==
  /\ up /\ book[s] = 0 /\ creating[s] \in Active /\ Of(s) = {creating[s]}
  /\ opens[creating[s]].saved = kept[s] /\ opens[creating[s]].proc = proc
  /\ opens[creating[s]].at = "setting" => opens[creating[s]].session = kept[s]

OnItsWay(s) ==
  /\ kept[s] \in spoken /\ cwdOf[kept[s]] = root
  /\ InBook(s) \/ InStore(s) \/ InFlight(s)

Keeping == \A s \in Scopes : kept[s] # 0 => OnItsWay(s)

CleanReload ==
  /\ replaced = {} \/ Active = {}
  /\ \A s \in Scopes : Spoken(s) => s \notin unprimed

LEMMA StaysOnItsWay ==
  ASSUME NEW s \in Scopes, OnItsWay(s), UNCHANGED <<up, proc, root>>, spoken \subseteq spoken',
         kept'[s] = kept[s], book'[s] = book[s], resumable'[s] = resumable[s],
         creating'[s] = creating[s], cwdOf'[kept[s]] = cwdOf[kept[s]],
         Of(s)' = Of(s), \A o \in Of(s) : opens'[o] = opens[o]
  PROVE  OnItsWay(s)'
<1>1. InBook(s) => InBook(s)'
  BY DEF InBook
<1>2. InStore(s) => InStore(s)'
  BY DEF InStore
<1>3. InFlight(s) => InFlight(s)'
  <2> SUFFICES ASSUME InFlight(s) PROVE InFlight(s)'
    OBVIOUS
  <2>1. creating[s] \in Of(s) /\ creating[s] \in Of(s)'
    BY DEF InFlight
  <2>2. opens'[creating[s]] = opens[creating[s]] /\ creating[s] \in Active'
    BY <2>1 DEF Of
  <2> QED BY <2>2 DEF InFlight
<1> QED BY <1>1, <1>2, <1>3 DEF OnItsWay

\* The session of a kept conversation is in none of the other opens.
LEMMA KeptIsElsewhere ==
  ASSUME Typed, Placed, NEW s \in Scopes, OnItsWay(s), kept[s] # 0,
         NEW o \in Active, opens[o].scope # s
  PROVE  Usable(kept[s]) /\ kept[s] \notin Hold(o)
<1>1. o \in Opens
  BY DEF Active
<1>2. CASE InBook(s) \/ InStore(s)
  BY <1>1, <1>2 DEF InBook, InStore, Placed, InOnePlace
<1>3. CASE InFlight(s)
  <2>1. creating[s] \in Opens /\ creating[s] # o /\ kept[s] \in Hold(creating[s])
    <3>1. creating[s] \in Active /\ opens[creating[s]].scope = s
      BY <1>3 DEF InFlight, Of
    <3> QED BY <1>3, <3>1, UnheldIdle DEF InFlight, Active
  <2> QED BY <1>1, <2>1 DEF Placed, InOnePlace
<1> QED BY <1>2, <1>3 DEF OnItsWay

LEMMA OthersKeeping ==
  ASSUME Typed, Keeping,
         \/ \E s \in Scopes : Claim(s) \/ Warm(s) \/ Rotate(s)
         \/ ReadsMemory \/ Prompt \/ Answer \/ PromptFails \/ WriteAnswered
         \/ \E by \in {"owner", "tool"} : WriteMade(by)
         \/ UNCHANGED vars
  PROVE  Keeping'
<1>1. /\ UNCHANGED <<up, proc, root, creating, opens, cwdOf>> /\ spoken \subseteq spoken'
      /\ \A s \in Scopes : \/ kept'[s] = 0
                           \/ /\ kept'[s] = kept[s] /\ book'[s] = book[s]
                              /\ resumable'[s] = resumable[s]
  BY DEF Claim, Warm, Rotate, ReadsMemory, Prompt, Answer, PromptFails, WriteAnswered, WriteMade,
         vars, sessionVars, Typed
<1>2. \A s : Of(s)' = Of(s)
  BY <1>1 DEF Of, Active
<1> QED BY <1>1, <1>2, StaysOnItsWay DEF Keeping

LEMMA ReplacedKeeping ==
  ASSUME Typed, Calm, Keeping, Reload => CleanReload,
         Crash \/ Up \/ Reload \/ \E r \in Roots : Move(r)
  PROVE  Keeping'
<1> SUFFICES ASSUME NEW s \in Scopes, kept'[s] # 0 PROVE OnItsWay(s)'
  BY DEF Keeping
<1>1. CASE Crash \/ \E r \in Roots : Move(r)
  BY <1>1 DEF Crash, Move
<1>2. CASE Up \/ Reload
  <2>1. /\ book'[s] = 0 /\ creating'[s] = 0
        /\ UNCHANGED <<opens, root, cwdOf, spoken>>
    BY <1>2 DEF Up, Reload, Cleared, sessionVars
  <2>2. Of(s)' = Of(s)
    BY <2>1 DEF Of, Active
  <2>3. ASSUME resumable'[s] = kept'[s], Of(s) = {}, kept'[s] \in spoken, cwdOf[kept'[s]] = root
        PROVE  OnItsWay(s)'
    BY <2>1, <2>2, <2>3 DEF OnItsWay, InStore
  <2>4. CASE Up
    <3>1. kept'[s] = kept[s] /\ resumable'[s] = resumable[s] /\ ~up
      BY <2>4 DEF Up
    <3>2. OnItsWay(s) /\ InStore(s)
      BY <3>1 DEF Keeping, OnItsWay, InBook, InFlight
    <3> QED BY <2>3, <3>1, <3>2 DEF OnItsWay, InStore
  <2>5. CASE Reload /\ Spoken(s)
    <3>1. kept'[s] = book[s] /\ book[s] # 0 /\ s \notin unprimed /\ up
      BY <2>5 DEF Reload, CleanReload, Spoken, Found
    <3>2. resumable'[s] = book[s]
      BY <2>5, <3>1 DEF Reload
    <3>3. Of(s) = {}
      BY <2>5, <3>1 DEF Of, CleanReload, Calm, Joined
    <3> QED BY <2>3, <2>5, <3>1, <3>2, <3>3 DEF Spoken, Found
  <2>6. CASE Reload /\ ~Spoken(s)
    <3>1. kept'[s] = kept[s] /\ OnItsWay(s)
      BY <2>6 DEF Reload, Keeping
    <3>2. ~InBook(s)
      BY <2>6, <3>1 DEF OnItsWay, InBook, Spoken, Found
    <3>3. ~InFlight(s)
      BY <2>6, <3>1 DEF InFlight, CleanReload, Calm, OneOpen
    <3>4. InStore(s) /\ resumable'[s] = resumable[s]
      BY <2>6, <3>1, <3>2, <3>3 DEF OnItsWay, InStore, Reload
    <3> QED BY <2>3, <3>1, <3>4 DEF OnItsWay, InStore
  <2> QED BY <1>2, <2>4, <2>5, <2>6
<1> QED BY <1>1, <1>2

\* A caller resumes the session that was saved, and finds the one in the book.
LEMMA SessionForKeeping ==
  ASSUME Typed, Keeping, NEW t \in Scopes, NEW o \in Opens, SessionFor(t, o), up,
         UNCHANGED <<proc, up, root, cwdOf, spoken, kept>>
  PROVE  Keeping'
<1> SUFFICES ASSUME NEW s \in Scopes, kept[s] # 0 PROVE OnItsWay(s)'
  BY DEF Keeping
<1>1. OnItsWay(s) /\ 0 \notin Opens
  BY DEF Keeping, Opens
<1>2. /\ book'[t] = 0 /\ \A u \in Scopes \ {t} : book'[u] = book[u]
  BY DEF SessionFor, Typed
<1>3. CASE creating[t] # 0 /\ UNCHANGED <<resumable, creating, opens>>
  <2>1. \A u : Of(u)' = Of(u)
    BY <1>3 DEF Of, Active
  <2>2. CASE s # t
    BY <1>1, <1>2, <1>3, <2>1, <2>2, StaysOnItsWay
  <2>3. CASE s = t
    <3>1. book[s] = 0
      BY <1>1, <1>3, <2>3 DEF OnItsWay, InBook, InStore, InFlight
    <3> QED BY <1>1, <1>2, <1>3, <2>1, <2>3, <3>1, StaysOnItsWay
  <2> QED BY <2>2, <2>3
<1>4. CASE creating[t] = 0 /\ o \notin Active /\ StartsOpen(t, o)
  <2> DEFINE saved == IF resumable[t] # 0 /\ cwdOf[resumable[t]] = root THEN resumable[t] ELSE 0
  <2>1. /\ creating'[t] = o
        /\ \A u \in Scopes \ {t} : resumable'[u] = resumable[u] /\ creating'[u] = creating[u]
        /\ opens'[o] = [at |-> "opening", scope |-> t, proc |-> proc, saved |-> saved,
                        root |-> root, session |-> 0]
        /\ \A p \in Opens \ {o} : opens'[p] = opens[p]
    BY <1>4 DEF StartsOpen, Typed
  <2>2. Active' = Active \cup {o}
    BY <2>1 DEF Active, NoOpen
  <2>3. CASE s # t
    <3>1. Of(s)' = Of(s) /\ \A p \in Of(s) : opens'[p] = opens[p]
      BY <1>4, <2>1, <2>2, <2>3 DEF Of, Active
    <3> QED BY <1>1, <1>2, <2>1, <2>3, <3>1, StaysOnItsWay
  <2>4. CASE s = t
    <3>1. ~InBook(s) /\ ~InFlight(s)
      BY <1>1, <1>4, <2>4 DEF InBook, InFlight, OnItsWay, SessionFor, Found, Active
    <3>2. InStore(s) /\ saved = kept[s]
      BY <1>1, <2>4, <3>1 DEF OnItsWay, InStore
    <3>3. Of(s)' = {o}
      BY <1>4, <2>1, <2>2, <2>4, <3>2 DEF Of, InStore, Active
    <3>4. InFlight(s)'
      BY <1>2, <2>1, <2>2, <2>4, <3>2, <3>3 DEF InFlight
    <3> QED BY <1>1, <3>4 DEF OnItsWay
  <2> QED BY <2>3, <2>4
<1> QED BY <1>3, <1>4 DEF SessionFor

\* What is resumed is in the book again; what is new is in nobody's way.
LEMMA LandsKeeping ==
  ASSUME Typed, Placed, Keeping, NEW o \in Active, NEW x \in Sessions, Lands(o, x),
         UNCHANGED <<proc, up, root, kept, spoken, resumable>>,
         x \in Hold(o) \/ ~Usable(x),
         opens[o].saved # 0 /\ (opens[o].at = "setting" => opens[o].session = opens[o].saved) =>
           x = opens[o].saved
  PROVE  Keeping'
<1> DEFINE t == opens[o].scope
<1> SUFFICES ASSUME NEW s \in Scopes, kept[s] # 0 PROVE OnItsWay(s)'
  BY DEF Keeping
<1>1. OnItsWay(s) /\ t \in Scopes /\ o \in Opens
  BY OpenFields DEF Keeping, OpenRecord
<1>2. /\ book'[t] = x /\ creating'[t] = 0
      /\ \A u \in Scopes \ {t} : book'[u] = book[u] /\ creating'[u] = creating[u]
  BY <1>1 DEF Lands, Typed
<1>3. Active' = Active \ {o} /\ \A p \in Active' : opens'[p] = opens[p]
  <2>1. opens'[o] = NoOpen /\ \A p \in Opens \ {o} : opens'[p] = opens[p]
    BY <1>1, LandsTyped DEF Typed
  <2> QED BY <1>1, <2>1 DEF Active
<1>4. CASE s # t
  <2>1. x # kept[s]
    BY <1>1, <1>4, KeptIsElsewhere
  <2>2. cwdOf'[kept[s]] = cwdOf[kept[s]]
    BY <2>1, RefIs DEF Lands, Typed
  <2>3. Of(s)' = Of(s) /\ \A p \in Of(s) : opens'[p] = opens[p]
    BY <1>3, <1>4 DEF Of
  <2> QED BY <1>1, <1>2, <1>4, <2>2, <2>3, StaysOnItsWay
<1>5. CASE s = t
  <2>1. o \in Of(s)
    BY <1>5 DEF Of
  <2>2. InFlight(s) /\ o = creating[s] /\ Of(s) = {o}
    BY <1>1, <2>1 DEF OnItsWay, InBook, InStore, InFlight
  <2>3. x = kept[s] /\ opens[o].saved # 0
    BY <2>2 DEF InFlight
  <2>4. cwdOf'[x] = root
    BY <2>3 DEF Lands, Typed
  <2>5. Of(s)' = {}
    BY <1>3, <2>2 DEF Of
  <2> QED BY <1>1, <1>2, <1>5, <2>2, <2>3, <2>4, <2>5 DEF OnItsWay, InBook, InFlight
<1> QED BY <1>4, <1>5

LEMMA OpenedKeeping ==
  ASSUME Typed, Placed, Keeping, NEW o \in Opens, Opened(o)
  PROVE  Keeping'
<1> DEFINE x == IF opens[o].saved = 0 THEN made + 1 ELSE opens[o].saved
<1>1. /\ o \in Active /\ opens[o] \in OpenRecord /\ x \in Sessions
      /\ UNCHANGED <<proc, up, root, kept, spoken, resumable>>
  BY OpenFields DEF Opened
<1>2. opens[o].saved # 0 => x = opens[o].saved
  OBVIOUS
<1>3. x \in Hold(o) \/ ~Usable(x)
  <2>1. CASE opens[o].saved # 0
    BY <1>1, <2>1, UnheldIdle
  <2>2. CASE opens[o].saved = 0
    <3>1. made \in Nat /\ x = made + 1
      BY <2>2, BoundsAssumption DEF Typed, Ref
    <3> QED BY <3>1 DEF Usable
  <2> QED BY <2>1, <2>2
<1>4. CASE /\ opens' = [opens EXCEPT ![o].at = "setting", ![o].session = x]
           /\ UNCHANGED <<book, cwdOf, unprimed, creating, turn>>
  <2> SUFFICES ASSUME NEW s \in Scopes, kept[s] # 0 PROVE OnItsWay(s)'
    BY <1>1 DEF Keeping
  <2>1. /\ opens'[o] = [opens[o] EXCEPT !.at = "setting", !.session = x]
        /\ \A p \in Opens \ {o} : opens'[p] = opens[p]
    BY <1>4 DEF Typed
  <2>2. /\ opens'[o] # NoOpen /\ opens'[o].at = "setting" /\ opens'[o].session = x
        /\ opens'[o].scope = opens[o].scope /\ opens'[o].saved = opens[o].saved
        /\ opens'[o].proc = opens[o].proc
    <3>1. opens'[o] \in OpenRecord
      BY <1>1, <2>1, RefIs DEF OpenRecord
    <3> QED BY <1>1, <2>1, <3>1 DEF OpenRecord, NoOpen
  <2>3. Active' = Active
    BY <1>1, <2>1, <2>2 DEF Active
  <2>4. Of(s)' = Of(s) /\ OnItsWay(s)
    <3>1. \A p \in Opens : opens'[p].scope = opens[p].scope
      BY <2>1, <2>2
    <3>2. Active \subseteq Opens
      BY DEF Active
    <3>3. Of(s)' = Of(s)
      BY <2>3, <3>1, <3>2 DEF Of
    <3> QED BY <3>3 DEF Keeping
  <2> HIDE DEF x
  <2>5. CASE o \notin Of(s)
    <3>1. \A p \in Of(s) : opens'[p] = opens[p]
      BY <2>1, <2>5 DEF Of, Active
    <3> QED BY <1>1, <1>4, <2>4, <3>1, StaysOnItsWay
  <2>6. CASE o \in Of(s)
    <3>1. InFlight(s) /\ creating[s] = o
      BY <2>4, <2>6 DEF OnItsWay, InBook, InStore, InFlight
    <3>2. x = kept[s]
      BY <1>2, <3>1 DEF InFlight
    <3>3. InFlight(s)'
      BY <1>1, <1>4, <2>2, <2>3, <2>4, <3>1, <3>2 DEF InFlight
    <3> QED BY <1>1, <1>4, <2>4, <3>3 DEF OnItsWay
  <2> QED BY <2>5, <2>6
<1>5. CASE Lands(o, x)
  <2> HIDE DEF x
  <2> QED BY <1>1, <1>2, <1>3, <1>5, LandsKeeping
<1> QED BY <1>4, <1>5 DEF Opened

LEMMA ModeSetKeeping ==
  ASSUME Typed, Placed, Keeping, NEW o \in Opens, ModeSet(o)
  PROVE  Keeping'
<1>1. o \in Active /\ opens[o].session \in Sessions /\ opens[o].session # 0
      /\ opens[o].at = "setting"
  BY OpenFields, RefIs DEF ModeSet, Typed, OpenRecord
<1>2. opens[o].session \in Hold(o)
  BY <1>1, UnheldIdle
<1>3. UNCHANGED <<proc, up, root, kept, spoken, resumable>> /\ Lands(o, opens[o].session)
  BY DEF ModeSet
<1> QED BY <1>1, <1>2, <1>3, LandsKeeping

\* A refusal to resume ends what the reload was to keep.
LEMMA OpenFailsKeeping ==
  ASSUME Typed, Keeping, NEW o \in Opens, OpenFails(o)
  PROVE  Keeping'
<1> DEFINE t == opens[o].scope
<1> SUFFICES ASSUME NEW s \in Scopes, kept'[s] # 0 PROVE OnItsWay(s)'
  BY DEF Keeping
<1>1. o \in Active /\ opens[o] \in OpenRecord /\ t \in Scopes
  BY OpenFields DEF OpenFails, OpenRecord
<1>2. UNCHANGED <<up, proc, root, book, resumable, spoken, cwdOf>>
  BY DEF OpenFails, sessionVars
<1>3. kept'[s] = kept[s] /\ OnItsWay(s) /\ s # t
  <2>1. CASE opens[o].proc # proc /\ UNCHANGED <<left, kept>>
    <3>1. OnItsWay(s) /\ (s = t => o \in Of(s))
      BY <1>1, <2>1 DEF Keeping, Of
    <3> QED BY <2>1, <3>1 DEF OnItsWay, InBook, InStore, InFlight
  <2>2. CASE kept' = [kept EXCEPT ![t] = 0]
    BY <1>1, <2>2 DEF Keeping, Typed
  <2> QED BY <2>1, <2>2 DEF OpenFails
<1>4. /\ creating'[s] = creating[s]
      /\ \A p \in Opens \ {o} : opens'[p] = opens[p]
      /\ opens'[o] = NoOpen \/ opens'[o].scope = t
  <2>1. CASE /\ opens' = [opens EXCEPT ![o] = [@ EXCEPT !.at = "opening", !.saved = 0,
                                              !.proc = proc, !.root = root, !.session = 0]]
             /\ UNCHANGED creating
    <3>1. opens'[o] = [opens[o] EXCEPT !.at = "opening", !.saved = 0, !.proc = proc,
                                       !.root = root, !.session = 0]
      BY <2>1 DEF Typed
    <3> QED BY <1>1, <2>1, <3>1 DEF OpenRecord, Typed
  <2>2. CASE /\ opens' = [opens EXCEPT ![o] = NoOpen]
             /\ creating' = [creating EXCEPT ![t] = 0]
    BY <1>1, <1>3, <2>2 DEF Typed
  <2> QED BY <2>1, <2>2 DEF OpenFails
<1>5. Of(s)' = Of(s) /\ \A p \in Of(s) : opens'[p] = opens[p]
  BY <1>1, <1>3, <1>4 DEF Of, Active
<1> QED BY <1>2, <1>3, <1>4, <1>5, StaysOnItsWay

LEMMA KeepingStep ==
  Typed /\ Calm /\ Placed /\ Keeping /\ [Next]_vars /\ (Reload => CleanReload) => Keeping'
<1> SUFFICES ASSUME Typed, Calm, Placed, Keeping, [Next]_vars, Reload => CleanReload
             PROVE  Keeping'
  OBVIOUS
<1>1. CASE UNCHANGED vars
  BY <1>1, OthersKeeping
<1>2. ASSUME NEW s \in Scopes, WarmOpens(s) PROVE Keeping'
  <2>1. UNCHANGED <<proc, up, root, cwdOf, spoken, kept>> /\ up
    BY <1>2 DEF WarmOpens, sessionVars
  <2>2. CASE UNCHANGED <<book, resumable, creating, opens>>
    <3>1. \A u : Of(u)' = Of(u)
      BY <2>2 DEF Of, Active
    <3> QED BY <2>1, <2>2, <3>1, StaysOnItsWay DEF Keeping
  <2> QED BY <1>2, <2>1, <2>2, SessionForKeeping DEF WarmOpens
<1>3. ASSUME TurnOpens PROVE Keeping'
  <2>1. UNCHANGED <<proc, up, root, cwdOf, spoken, kept>> /\ up /\ turn.scope \in Scopes
    BY <1>3, TurnFields DEF TurnOpens, WaitingTurn, sessionVars
  <2>2. CASE UNCHANGED <<book, resumable, creating, opens>>
    <3>1. \A u : Of(u)' = Of(u)
      BY <2>2 DEF Of, Active
    <3> QED BY <2>1, <2>2, <3>1, StaysOnItsWay DEF Keeping
  <2> QED BY <1>3, <2>1, <2>2, SessionForKeeping DEF TurnOpens
<1>4. CASE Handler
  BY <1>3, <1>4, OthersKeeping, ReplacedKeeping, OpenedKeeping, ModeSetKeeping, OpenFailsKeeping
  DEF Handler
<1> QED BY <1>1, <1>2, <1>4 DEF Next

LEMMA KeepingInit == Init => Keeping
BY DEF Init, Keeping

LEMMA KeepingIsKept == Keeping => ReloadKeepsConversations
BY DEF Keeping, OnItsWay, InBook, InStore, InFlight, ReloadKeepsConversations

\* Every conversation that was spoken in comes back in its own session, through
\* any number of reloads, if each overtakes no open and finds every session
\* that was spoken in told.
THEOREM CleanReloadsKeepConversations ==
  Spec /\ [][Reload => CleanReload]_vars => []ReloadKeepsConversations
<1>1. Typed /\ Calm /\ Placed /\ Keeping /\ [Next]_vars /\ [Reload => CleanReload]_vars => Keeping'
  <2>1. CASE UNCHANGED vars
    BY <2>1, OthersKeeping
  <2>2. CASE ~UNCHANGED vars
    BY <2>2, KeepingStep
  <2> QED BY <2>1, <2>2
<1> QED BY <1>1, KeepingIsKept, KeepingInit, SpecCalm, TypedInit, TypedStep, PlacedInit, PlacedStep,
           PTL DEF Spec

-----------------------------------------------------------------------------
(* While nobody writes the memory, a session that was spoken in was told   *)
(* first, so the first reload is a clean one.                              *)

\* The session a turn runs in is of its conversation alone, and was told or
\* is being told.
TurnTold ==
  InSession =>
    /\ turn.fresh /\ turn.session <= made
    /\ turn.priming \/ turn.scope \notin unprimed \/ book[turn.scope] # turn.session
    /\ \A o \in Opens : turn.session \notin Hold(o)
    /\ \A s \in Scopes : book[s] = turn.session => s = turn.scope

SpokenAreTold ==
  /\ \A s \in Scopes : book[s] \in spoken => s \notin unprimed
  /\ \A o \in Opens : Hold(o) \cap spoken = {}
  /\ \A x \in spoken : x <= made

ToldFirst == replaced = {} => SpokenAreTold /\ TurnTold

\* Sessions are let go, and the turn goes on in its session.
LEMMA ToldFirstStays ==
  ASSUME Typed, ToldFirst, UNCHANGED <<made, spoken>>, unprimed' \subseteq unprimed,
         replaced' = {} => replaced = {},
         \A o \in Opens : Hold(o)' \subseteq Hold(o),
         \A s \in Scopes : book'[s] \in {book[s], 0},
         InSession' => /\ InSession /\ turn'.scope = turn.scope /\ turn'.session = turn.session
                       /\ turn'.fresh = turn.fresh /\ turn'.priming = turn.priming
  PROVE  ToldFirst'
<1> SUFFICES ASSUME replaced = {} PROVE ToldFirst'
  BY DEF ToldFirst, SpokenAreTold, TurnTold
<1>1. 0 \notin spoken /\ (InSession => turn.session # 0 /\ turn.scope \in Scopes)
  BY RefIs, TurnFields DEF Typed, InSession, SessionTurn
<1>2. (\A s \in Scopes : book[s] \in spoken => s \notin unprimed)'
  BY <1>1 DEF ToldFirst, SpokenAreTold, TurnTold
<1>3. (\A o \in Opens : Hold(o) \cap spoken = {})'
  BY DEF ToldFirst, SpokenAreTold, TurnTold
<1>4. TurnTold'
  <2> SUFFICES ASSUME InSession' PROVE TurnTold'
    BY DEF TurnTold
  <2>1. /\ InSession /\ turn'.scope = turn.scope /\ turn'.session = turn.session
        /\ turn'.fresh = turn.fresh /\ turn'.priming = turn.priming
    OBVIOUS
  <2>2. turn.fresh /\ turn.session <= made
        /\ (turn.priming \/ turn.scope \notin unprimed \/ book[turn.scope] # turn.session)
    BY <2>1 DEF ToldFirst, SpokenAreTold, TurnTold
  <2>3. (turn.fresh /\ turn.session <= made)'
    BY <2>1, <2>2
  <2>4. (turn.priming \/ turn.scope \notin unprimed \/ book[turn.scope] # turn.session)'
    BY <1>1, <2>1, <2>2
  <2>5. \A o \in Opens : turn'.session \notin Hold(o)'
    BY <2>1 DEF ToldFirst, SpokenAreTold, TurnTold
  <2>6. \A s \in Scopes : book'[s] = turn'.session => s = turn'.scope
    BY <1>1, <2>1 DEF ToldFirst, SpokenAreTold, TurnTold
  <2> QED BY <2>3, <2>4, <2>5, <2>6 DEF TurnTold
<1>5. (\A x \in spoken : x <= made)'
  BY DEF ToldFirst, SpokenAreTold
<1> QED BY <1>2, <1>3, <1>4, <1>5 DEF ToldFirst, SpokenAreTold

LEMMA TurnGoesOn ==
  ASSUME Typed, ReadsMemory \/ Prompt
  PROVE  /\ InSession /\ turn'.scope = turn.scope /\ turn'.session = turn.session
         /\ turn'.fresh = turn.fresh /\ turn'.priming = turn.priming
BY TurnFields DEF ReadsMemory, Prompt, InSession, SessionTurn

LEMMA OthersToldFirst ==
  ASSUME Typed, ToldFirst,
         \/ \E s \in Scopes : Claim(s) \/ Warm(s) \/ Rotate(s)
         \/ ReadsMemory \/ Prompt \/ PromptFails \/ Crash \/ Up \/ Reload
         \/ \E r \in Roots : Move(r)
         \/ UNCHANGED vars
  PROVE  ToldFirst'
<1>1. /\ UNCHANGED <<made, spoken, opens>> /\ unprimed' \subseteq unprimed
      /\ replaced' = {} => replaced = {}
  BY DEF Claim, Warm, Rotate, ReadsMemory, Prompt, PromptFails, Crash, Up, Reload, Move, vars,
         Cleared, sessionVars
<1>2. \A s \in Scopes : book'[s] \in {book[s], 0}
  BY DEF Claim, Warm, Rotate, ReadsMemory, Prompt, PromptFails, Crash, Up, Reload, Move, vars,
         Cleared, Typed
<1>3. \/ turn' = turn
      \/ turn' = Idle
      \/ turn'.at = "waiting"
      \/ ReadsMemory \/ Prompt
  BY DEF Claim, Warm, Rotate, PromptFails, Crash, Up, Reload, Move, vars
<1>4. InSession' => /\ InSession /\ turn'.scope = turn.scope /\ turn'.session = turn.session
                    /\ turn'.fresh = turn.fresh /\ turn'.priming = turn.priming
  BY <1>3, TurnGoesOn DEF InSession, Idle
<1>5. \A o \in Opens : Hold(o)' \subseteq Hold(o)
  BY <1>1, SameHold
<1> QED BY <1>1, <1>2, <1>4, <1>5, ToldFirstStays

\* The first to be asked about a conversation makes a new session.
LEMMA StartsToldFirst ==
  ASSUME Typed, Calm, replaced = {}, NEW s \in Scopes, NEW o \in Opens, SessionFor(s, o)
  PROVE  /\ \A p \in Opens : Hold(p)' \subseteq Hold(p)
         /\ \A t \in Scopes : book'[t] \in {book[t], 0}
<1>1. \A t \in Scopes : book'[t] \in {book[t], 0}
  BY DEF SessionFor, Typed
<1>2. CASE UNCHANGED <<resumable, creating, opens>>
  BY <1>1, <1>2, SameHold
<1>3. CASE StartsOpen(s, o)
  <2>1. /\ opens'[o] = [at |-> "opening", scope |-> s, proc |-> proc, saved |-> 0,
                        root |-> root, session |-> 0]
        /\ \A p \in Opens \ {o} : opens'[p] = opens[p]
    BY <1>3 DEF StartsOpen, Typed, Calm, OneOpen
  <2> QED BY <1>1, <2>1 DEF Hold
<1> QED BY <1>2, <1>3 DEF SessionFor

LEMMA AskingToldFirst ==
  ASSUME Typed, Calm, Placed, ToldFirst, TurnOpens \/ \E s \in Scopes : WarmOpens(s)
  PROVE  ToldFirst'
<1>1. UNCHANGED <<made, spoken, unprimed, replaced>>
  BY DEF TurnOpens, WarmOpens, sessionVars
<1> SUFFICES ASSUME replaced = {} PROVE ToldFirst'
  BY <1>1 DEF ToldFirst, SpokenAreTold, TurnTold
<1>2. ASSUME NEW s \in Scopes, WarmOpens(s) PROVE ToldFirst'
  <2>1. turn' = turn
    BY <1>2 DEF WarmOpens
  <2>2. /\ \A p \in Opens : Hold(p)' \subseteq Hold(p)
        /\ \A t \in Scopes : book'[t] \in {book[t], 0}
    BY <1>2, StartsToldFirst, SameHold DEF WarmOpens
  <2> QED BY <1>1, <2>1, <2>2, ToldFirstStays DEF InSession
<1>3. ASSUME TurnOpens, NEW o \in Opens, SessionFor(turn.scope, o), turn'.at = "opening"
      PROVE  ToldFirst'
  <2>1. turn.scope \in Scopes /\ ~InSession'
    BY <1>3, TurnFields DEF TurnOpens, WaitingTurn, InSession
  <2>2. /\ \A p \in Opens : Hold(p)' \subseteq Hold(p)
        /\ \A t \in Scopes : book'[t] \in {book[t], 0}
    BY <1>3, <2>1, StartsToldFirst
  <2> QED BY <1>1, <2>1, <2>2, ToldFirstStays
<1>4. ASSUME TurnOpens, Found(turn.scope), UNCHANGED <<book, opens>>,
             turn' = HasSession([scope |-> turn.scope, root |-> root], book[turn.scope],
                                turn.scope \in unprimed)
      PROVE  ToldFirst'
  <2> DEFINE s == turn.scope
  <2>1. s \in Scopes /\ book[s] # 0
    BY <1>4, TurnFields DEF TurnOpens, WaitingTurn, Found
  <2>2. /\ turn'.scope = s /\ turn'.session = book[s] /\ turn'.fresh = TRUE
        /\ turn'.priming = (s \in unprimed)
    BY <1>4 DEF HasSession
  <2>3. \A o \in Opens : Hold(o)' = Hold(o)
    BY <1>4, SameHold
  <2>4. turn'.session <= made /\ turn'.fresh
    BY <2>1, <2>2 DEF Placed, Usable
  <2>5. \A o \in Opens : turn'.session \notin Hold(o)'
    BY <2>1, <2>2, <2>3 DEF Placed, InOnePlace
  <2>6. \A t \in Scopes : book'[t] = turn'.session => t = turn'.scope
    BY <1>4, <2>1, <2>2 DEF Placed, InOnePlace
  <2>7. turn'.priming \/ turn'.scope \notin unprimed
    <3>1. CASE s \in unprimed
      BY <2>2, <3>1
    <3>2. CASE s \notin unprimed
      BY <2>2, <3>2
    <3> QED BY <3>1, <3>2
  <2>8. /\ \A t \in Scopes : book'[t] \in spoken' => t \notin unprimed'
        /\ \A o \in Opens : Hold(o)' \cap spoken' = {}
        /\ \A x \in spoken' : x <= made'
    BY <1>1, <1>4, <2>3 DEF ToldFirst, SpokenAreTold, TurnTold
  <2> QED BY <1>1, <2>4, <2>5, <2>6, <2>7, <2>8 DEF ToldFirst, SpokenAreTold, TurnTold
<1> QED BY <1>2, <1>3, <1>4 DEF TurnOpens

\* The session put in the book is new: nothing was said in it.
LEMMA LandsToldFirst ==
  ASSUME Typed, Calm, Placed, ToldFirst, NEW o \in Active, NEW x \in Sessions, Lands(o, x),
         UNCHANGED <<spoken, replaced>>, made' \in Nat,
         \/ x \in Hold(o) /\ made' = made
         \/ x = made' /\ made' = made + 1
  PROVE  ToldFirst'
<1> SUFFICES ASSUME replaced = {} PROVE ToldFirst'
  BY DEF ToldFirst, SpokenAreTold, TurnTold
<1> DEFINE s == opens[o].scope
<1>1. s \in Scopes /\ o \in Opens /\ opens[o].saved = 0 /\ TurnsOpen /\ made \in Nat
  BY OpenFields, BoundsAssumption DEF OpenRecord, Calm, OneOpen, Typed, Ref
<1>2. /\ book'[s] = x /\ \A t \in Scopes \ {s} : book'[t] = book[t]
      /\ unprimed' = unprimed \cup {s}
  BY <1>1 DEF Lands, Typed
<1>3. Hold(o)' = {} /\ \A p \in Opens \ {o} : Hold(p)' = Hold(p)
  <2>1. opens'[o] = NoOpen /\ \A p \in Opens \ {o} : opens'[p] = opens[p]
    BY <1>1, LandsTyped DEF Typed
  <2> QED BY <2>1 DEF Hold
<1>4. /\ x \notin spoken /\ x <= made' /\ (InSession => x # turn.session)
      /\ \A p \in Opens \ {o} : x \notin Hold(p)
      /\ \A t \in Scopes \ {s} : x # book[t]
  <2>1. CASE x \in Hold(o) /\ made' = made
    BY <1>1, <2>1 DEF ToldFirst, SpokenAreTold, TurnTold, Placed, InOnePlace, Usable
  <2>2. CASE x = made' /\ made' = made + 1
    <3>1. ~(x <= made) /\ x <= made'
      BY <1>1, <2>2
    <3> QED BY <1>1, <3>1 DEF ToldFirst, SpokenAreTold, TurnTold, Placed, Usable
  <2> QED BY <2>1, <2>2
<1>5. \A t \in Scopes : book'[t] \in spoken' => t \notin unprimed'
  BY <1>2, <1>4 DEF ToldFirst, SpokenAreTold, TurnTold
<1>6. \A p \in Opens : Hold(p)' \cap spoken' = {}
  BY <1>3 DEF ToldFirst, SpokenAreTold, TurnTold
<1>7. \A y \in Int : y <= made => y <= made'
  BY <1>1
<1>8. \A y \in spoken' : y <= made'
  BY <1>7 DEF ToldFirst, SpokenAreTold, TurnTold, Typed, Sessions
<1>9. TurnTold'
  <2> SUFFICES ASSUME InSession' PROVE TurnTold'
    BY DEF TurnTold
  <2>1. CASE turn.at = "opening" /\ turn.open = o
    <3>1. turn' = HasSession(turn, x, TRUE) /\ turn.scope = s
      <4>1. (s \in unprimed \cup {s}) = TRUE
        OBVIOUS
      <4>2. turn' = HasSession(turn, x, s \in unprimed \cup {s})
        BY <1>1, <2>1 DEF Lands
      <4> QED BY <1>1, <2>1, <4>1, <4>2 DEF TurnsOpen
    <3>2. turn'.scope = s /\ turn'.session = x /\ turn'.fresh /\ turn'.priming
      BY <3>1 DEF HasSession
    <3> QED BY <1>2, <1>3, <1>4, <3>2 DEF TurnTold
  <2>2. CASE turn' = turn /\ InSession
    <3>1. /\ turn.fresh /\ turn.session <= made /\ turn.session \in Int
          /\ turn.scope \in Scopes /\ turn.scope # s
      BY <1>1, <2>2, TurnFields DEF ToldFirst, SpokenAreTold, TurnTold, TurnsOpen, InSession, SessionTurn, Sessions
    <3>2. (turn.priming \/ turn.scope \notin unprimed \/ book[turn.scope] # turn.session)'
      BY <1>2, <2>2, <3>1 DEF ToldFirst, SpokenAreTold, TurnTold
    <3>3. \A p \in Opens : turn'.session \notin Hold(p)'
      BY <1>3, <2>2 DEF ToldFirst, SpokenAreTold, TurnTold
    <3>4. \A t \in Scopes : book'[t] = turn'.session => t = turn'.scope
      BY <1>2, <1>4, <2>2 DEF ToldFirst, SpokenAreTold, TurnTold
    <3>5. (turn.fresh /\ turn.session <= made)'
      BY <1>7, <2>2, <3>1
    <3> QED BY <3>2, <3>3, <3>4, <3>5 DEF TurnTold
  <2>3. turn' = turn => InSession
    BY DEF InSession
  <2> QED BY <2>1, <2>2, <2>3 DEF Lands
<1> QED BY <1>5, <1>6, <1>8, <1>9 DEF ToldFirst, SpokenAreTold

LEMMA OpenedToldFirst ==
  ASSUME Typed, Calm, Placed, ToldFirst, NEW o \in Opens, Opened(o)
  PROVE  ToldFirst'
<1> DEFINE x == IF opens[o].saved = 0 THEN made + 1 ELSE opens[o].saved
<1>1. /\ o \in Active /\ opens[o] \in OpenRecord /\ x \in Sessions /\ made \in Nat
      /\ UNCHANGED <<replaced, spoken>>
  BY OpenFields, BoundsAssumption DEF Opened, Typed, Ref
<1> SUFFICES ASSUME replaced = {} PROVE ToldFirst'
  BY <1>1 DEF ToldFirst, SpokenAreTold, TurnTold
<1>2. opens[o].saved = 0 /\ x = made' /\ made' = made + 1
  BY <1>1 DEF Opened, Calm, OneOpen
<1>3. CASE /\ opens' = [opens EXCEPT ![o].at = "setting", ![o].session = x]
           /\ UNCHANGED <<book, cwdOf, unprimed, creating, turn>>
  <2>1. /\ opens'[o] = [opens[o] EXCEPT !.at = "setting", !.session = x]
        /\ \A p \in Opens \ {o} : opens'[p] = opens[p]
    BY <1>3 DEF Typed
  <2>2. opens'[o].saved = 0 /\ opens'[o].session = x
    BY <1>1, <1>2, <2>1 DEF OpenRecord
  <2>3. Hold(o)' \subseteq {x} /\ \A p \in Opens \ {o} : Hold(p)' = Hold(p)
    BY <2>1, <2>2 DEF Hold
  <2> HIDE DEF x
  <2>4. ~(x <= made)
    BY <1>1, <1>2
  <2>5. x \notin spoken /\ (InSession => turn.session # x)
    BY <2>4 DEF ToldFirst, SpokenAreTold, TurnTold
  <2>6. \A y \in Int : y <= made => y <= made'
    BY <1>1, <1>2
  <2>7. \A p \in Opens : Hold(p)' \cap spoken' = {}
    BY <1>1, <2>3, <2>5 DEF ToldFirst, SpokenAreTold, TurnTold
  <2>8. \A y \in spoken' : y <= made'
    BY <1>1, <2>6 DEF ToldFirst, SpokenAreTold, TurnTold, Typed, Sessions
  <2>9. InSession => /\ turn.session <= made'
                     /\ \A p \in Opens : turn.session \notin Hold(p)'
    <3>1. InSession => turn.session \in Int
      BY TurnFields DEF InSession, SessionTurn, Sessions
    <3> QED BY <2>3, <2>5, <2>6, <3>1 DEF ToldFirst, SpokenAreTold, TurnTold
  <2>10. InSession' <=> InSession
    BY <1>3 DEF InSession
  <2>11. /\ \A t \in Scopes : book'[t] \in spoken' => t \notin unprimed'
         /\ InSession => /\ turn'.fresh
                         /\ turn'.priming \/ turn'.scope \notin unprimed'
                            \/ book'[turn'.scope] # turn'.session
                         /\ \A t \in Scopes : book'[t] = turn'.session => t = turn'.scope
    BY <1>1, <1>3 DEF ToldFirst, SpokenAreTold, TurnTold
  <2> QED BY <1>3, <2>7, <2>8, <2>9, <2>10, <2>11 DEF ToldFirst, SpokenAreTold, TurnTold
<1>4. CASE Lands(o, x)
  <2> HIDE DEF x
  <2> QED BY <1>1, <1>2, <1>4, LandsToldFirst
<1> QED BY <1>3, <1>4 DEF Opened

LEMMA ModeSetToldFirst ==
  ASSUME Typed, Calm, Placed, ToldFirst, NEW o \in Opens, ModeSet(o)
  PROVE  ToldFirst'
<1>1. o \in Active /\ opens[o].session \in Sessions /\ opens[o].session # 0
  BY OpenFields, RefIs DEF ModeSet, Typed, OpenRecord
<1>2. opens[o].session \in Hold(o)
  BY <1>1, UnheldIdle
<1>3. Lands(o, opens[o].session) /\ UNCHANGED <<spoken, replaced, made>> /\ made \in Nat
  BY BoundsAssumption DEF ModeSet, Typed, Ref
<1> QED BY <1>1, <1>2, <1>3, LandsToldFirst

LEMMA OpenFailsToldFirst ==
  ASSUME Typed, ToldFirst, NEW o \in Opens, OpenFails(o)
  PROVE  ToldFirst'
<1>1. o \in Active /\ opens[o] \in OpenRecord
  BY OpenFields DEF OpenFails
<1>2. \A p \in Opens : Hold(p)' \subseteq Hold(p)
  <2>1. CASE opens' = [opens EXCEPT ![o] = [@ EXCEPT !.at = "opening", !.saved = 0,
                                             !.proc = proc, !.root = root, !.session = 0]]
    <3>1. /\ opens'[o] = [opens[o] EXCEPT !.at = "opening", !.saved = 0,
                                           !.proc = proc, !.root = root, !.session = 0]
          /\ \A p \in Opens \ {o} : opens'[p] = opens[p]
      BY <2>1 DEF Typed
    <3>2. opens'[o].saved = 0 /\ opens'[o].session = 0
      BY <1>1, <3>1 DEF OpenRecord
    <3> QED BY <3>1, <3>2 DEF Hold
  <2>2. CASE opens' = [opens EXCEPT ![o] = NoOpen]
    <3>1. opens'[o] = NoOpen /\ \A p \in Opens \ {o} : opens'[p] = opens[p]
      BY <2>2 DEF Typed
    <3> QED BY <3>1 DEF Hold
  <2> QED BY <2>1, <2>2 DEF OpenFails
<1>3. UNCHANGED <<made, spoken, unprimed, replaced, book>>
  BY DEF OpenFails, sessionVars
<1>4. \/ turn' = turn
      \/ turn' = Idle
      \/ turn.at = "opening" /\ turn' = [turn EXCEPT !.root = root]
  BY DEF OpenFails
<1>5. InSession' => turn' = turn /\ InSession
  BY <1>4, TurnFields DEF InSession, Idle, OpeningTurn
<1> QED BY <1>2, <1>3, <1>5, ToldFirstStays

\* The session of the turn was spoken in, and told if it was to be.
LEMMA AnswerToldFirst ==
  ASSUME Typed, Calm, ToldFirst, Answer
  PROVE  ToldFirst'
<1> SUFFICES ASSUME replaced = {} PROVE ToldFirst'
  BY DEF ToldFirst, SpokenAreTold, TurnTold, Answer
<1>1. turn \in SessionTurn /\ InSession /\ TurnsOpen
  BY TurnFields DEF Answer, InSession, Calm
<1>2. /\ turn.scope \in Scopes /\ turn.session \in Sessions
      /\ book[turn.scope] \in {0, turn.session}
  BY <1>1 DEF SessionTurn, TurnsOpen
<1>3. /\ UNCHANGED <<book, opens, made, replaced>> /\ ~InSession'
      /\ spoken' = spoken \cup {turn.session}
      /\ unprimed' = IF turn.priming THEN unprimed \ {turn.scope} ELSE unprimed
  <2>1. turn.fresh
    BY <1>1 DEF ToldFirst, TurnTold
  <2>2. UNCHANGED <<book, opens, made, replaced>> /\ ~InSession'
    BY DEF Answer, Idle, InSession, sessionVars
  <2>3. turn.priming /\ turn.fresh <=> turn.priming
    BY <2>1
  <2> QED BY <2>2, <2>3 DEF Answer
<1>4. \A o \in Opens : Hold(o)' = Hold(o)
  BY <1>3, SameHold
<1>5. \A s \in Scopes : book'[s] \in spoken' => s \notin unprimed'
  BY <1>1, <1>2, <1>3 DEF ToldFirst, SpokenAreTold, TurnTold
<1>6. /\ \A o \in Opens : Hold(o)' \cap spoken' = {}
      /\ \A x \in spoken' : x <= made'
  BY <1>1, <1>3, <1>4 DEF ToldFirst, SpokenAreTold, TurnTold
<1> QED BY <1>3, <1>5, <1>6 DEF ToldFirst, SpokenAreTold, TurnTold

NobodyWrites == write = "none"

LEMMA ToldFirstStep ==
  Typed /\ Calm /\ Placed /\ ToldFirst /\ NobodyWrites /\ NobodyWrites' /\ [Next]_vars => ToldFirst'
<1> SUFFICES ASSUME Typed, Calm, Placed, ToldFirst, NobodyWrites, NobodyWrites', [Next]_vars
             PROVE  ToldFirst'
  OBVIOUS
<1>1. CASE UNCHANGED vars
  BY <1>1, OthersToldFirst
<1>2. CASE Handler
  <2>1. ~WriteAnswered /\ \A by \in {"owner", "tool"} : ~WriteMade(by)
    BY DEF NobodyWrites, WriteAnswered, WriteMade
  <2> QED BY <1>2, <2>1, OthersToldFirst, AskingToldFirst, OpenedToldFirst, ModeSetToldFirst,
             OpenFailsToldFirst, AnswerToldFirst DEF Handler
<1> QED BY <1>1, <1>2, AskingToldFirst DEF Next

LEMMA ToldFirstInit == Init => ToldFirst
<1> SUFFICES ASSUME Init PROVE ToldFirst
  OBVIOUS
<1>1. /\ \A o \in Opens : Hold(o) = {}
      /\ spoken = {} /\ ~InSession
  BY DEF Init, Hold, InSession, Idle
<1> QED BY <1>1 DEF ToldFirst, SpokenAreTold, TurnTold

LEMMA FirstReloadIsClean == ToldFirst /\ replaced = {} => CleanReload
BY DEF ToldFirst, SpokenAreTold, TurnTold, CleanReload, Spoken

\* With one reload, and nobody writing the memory, every conversation that was
\* spoken in comes back in its own session, whatever crashes, moves, rotations
\* and refused opens there are beside it.
THEOREM TheFirstReloadKeepsConversations ==
  Spec /\ []NobodyWrites /\ [][Reload => replaced = {}]_vars => []ReloadKeepsConversations
<1>1. Typed /\ Calm /\ Placed /\ Keeping /\ ToldFirst /\ [Next]_vars
        /\ [Reload => replaced = {}]_vars => Keeping'
  <2> SUFFICES ASSUME Typed, Calm, Placed, Keeping, ToldFirst, [Next]_vars,
                      [Reload => replaced = {}]_vars
               PROVE  Keeping'
    OBVIOUS
  <2>1. CASE UNCHANGED vars
    BY <2>1, OthersKeeping
  <2>2. CASE Reload => replaced = {}
    BY <2>2, KeepingStep, FirstReloadIsClean
  <2> QED BY <2>1, <2>2
<1> QED BY <1>1, KeepingIsKept, KeepingInit, SpecCalm, TypedInit, TypedStep, PlacedInit, PlacedStep,
           ToldFirstInit, ToldFirstStep, PTL DEF Spec

=============================================================================
