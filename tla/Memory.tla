------------------------------- MODULE Memory -------------------------------
(***************************************************************************)
(* An agent's core memory and all who write it: `!remember' and `!forget'  *)
(* from the owner, the model's own `memory_set', and the owner's edit in   *)
(* the settings (AgentRunner.ts #writeCoreMemory, #forgetCoreMemory,       *)
(* #dropFromCoreMemory, #askWhichToForget; db/agents.ts setAgentMemory,    *)
(* editAgentMemoryAsOwner).                                                *)
(*                                                                         *)
(* A writer reads the memory, and writes what it makes of it under the     *)
(* condition that the memory still reads as it did.  The office checks     *)
(* the condition in one await and writes in the next.  A reply may be      *)
(* lost or late, and the write go on without anybody waiting for it.       *)
(*                                                                         *)
(* Abstracted: a memory is the set of its notes, since no note is said     *)
(* twice; a hash is what it is the hash of; the matching of words with     *)
(* notes is a choice; an edit's mark on the agent's profile, and who is told of a    *)
(* write (WorkerSessions has that).                                        *)
(***************************************************************************)
EXTENDS Naturals, FiniteSets

CONSTANTS
  Notes,
  Writers,     \* bound: commands and tool calls
  Room,        \* how many notes memoryLimitFor leaves room for
  MaxEdits,    \* bound: edits by the owner in the settings
  MaxLost      \* bound: replies that are lost or come too late

VARIABLES
  row,         \* the row of agent_memory: is it there, and its notes
  writers,     \* [Writers -> Resting or a writer]
  said,        \* the notes that have been dictated
  allowed      \* bound: [edits, lost]

coreVars == <<row, writers, said, allowed>>

Resting == [pc |-> "idle"]
Absent == [there |-> FALSE, notes |-> {}]
Holds(ns) == [there |-> TRUE, notes |-> ns]

CoreInit ==
  /\ row = Absent /\ writers = [w \in Writers |-> Resting]
  /\ said = {} /\ allowed = [edits |-> MaxEdits, lost |-> MaxLost]

Working(w, pc) == writers[w].pc = pc
Waits(w) == writers[w].pc \notin {"idle", "over"} /\ writers[w].told = "nothing"
Goes(w, r) == writers' = [writers EXCEPT ![w] = r]

-----------------------------------------------------------------------------
(* The harness.                                                            *)

Asking(kind, ns) ==
  [pc |-> "get", kind |-> kind, ns |-> ns, try |-> 1, told |-> "nothing",
   bound |-> TRUE, read |-> {}, next |-> {}, saw |-> Absent]

Remembers(w, n) ==
  /\ Working(w, "idle") /\ n \notin said
  /\ said' = said \cup {n} /\ Goes(w, Asking("remember", {n}))
  /\ UNCHANGED <<row, allowed>>

Forgets(w) ==
  /\ Working(w, "idle") /\ Goes(w, Asking("forget", {}))
  /\ UNCHANGED <<row, said, allowed>>

\* The model calls memory_get, and will call memory_set with a note of its own.
Thinks(w, n) ==
  /\ Working(w, "idle") /\ n \notin said
  /\ said' = said \cup {n} /\ Goes(w, Asking("tool", {n}))
  /\ UNCHANGED <<row, allowed>>

Sets(w, ns, next) ==
  Goes(w, [writers[w] EXCEPT !.pc = "set", !.ns = ns, !.read = row.notes,
                             !.next = next])

ReadsToRemember(w) ==
  /\ writers[w].kind = "remember"
  /\ Sets(w, writers[w].ns, row.notes \cup writers[w].ns)

NothingToDo(w) == Goes(w, [writers[w] EXCEPT !.pc = "over", !.told = "none"])

\* `!forget': the notes meant are found in what is read, or the model is asked
\* which they are, and they are dropped from what is read after that.
ReadsToFind(w) ==
  /\ writers[w].kind = "forget" /\ writers[w].ns = {}
  /\ \/ NothingToDo(w)
     \/ \E ns \in SUBSET row.notes \ {{}} :
          Sets(w, ns, row.notes \ ns) \/ Goes(w, [writers[w] EXCEPT !.ns = ns])

ReadsToDrop(w) ==
  /\ writers[w].kind = "forget" /\ writers[w].ns # {}
  /\ IF row.notes \cap writers[w].ns = {}
     THEN NothingToDo(w)
     ELSE Sets(w, writers[w].ns, row.notes \ writers[w].ns)

\* The model keeps of what it read what it likes; it may leave out the hash.
ReadsToRewrite(w) ==
  /\ writers[w].kind = "tool"
  /\ \E keep \in SUBSET row.notes, bound \in BOOLEAN :
       Goes(w, [writers[w] EXCEPT !.pc = "set", !.read = row.notes,
                  !.next = keep \cup writers[w].ns, !.bound = bound])

\* memoryGet, and what its caller sends next.
Reads(w) ==
  /\ Working(w, "get")
  /\ ReadsToRemember(w) \/ ReadsToFind(w) \/ ReadsToDrop(w) \/ ReadsToRewrite(w)
  /\ UNCHANGED <<row, said, allowed>>

\* The write's reply.
Heard(w) ==
  /\ Waits(w) /\ Working(w, "written")
  /\ Goes(w, [writers[w] EXCEPT !.pc = "over", !.told = "done"])
  /\ UNCHANGED <<row, said, allowed>>

\* Mutant: what was refused for a conflict is written again as it was.
Insists(w) ==
  Goes(w, [writers[w] EXCEPT !.pc = "set", !.read = row.notes, !.try = 2])
ReadsAgain(w) ==
  Goes(w, [writers[w] EXCEPT !.pc = "get", !.try = 2])

\* A conflict is met once: the memory is read again.
Conflicts(w) ==
  /\ Waits(w) /\ Working(w, "conflict")
  /\ IF writers[w].try = 1 /\ writers[w].kind # "tool" THEN ReadsAgain(w)
     ELSE Goes(w, [writers[w] EXCEPT !.pc = "over", !.told = "failed"])
  /\ UNCHANGED <<row, said, allowed>>

TooLarge(w) ==
  /\ Waits(w) /\ Working(w, "too large")
  /\ Goes(w, [writers[w] EXCEPT !.pc = "over", !.told = "failed"])
  /\ UNCHANGED <<row, said, allowed>>

\* What the office has of a request goes on.
GoesOn(w) == IF Working(w, "write") THEN {"write"}
             ELSE IF Working(w, "set") THEN {"set", "over"} ELSE {"over"}

\* Ten seconds without the reply, or the socket is gone.
Loses(w) ==
  /\ Waits(w) /\ allowed.lost > 0
  /\ \E pc \in GoesOn(w) : Goes(w, [writers[w] EXCEPT !.told = "failed", !.pc = pc])
  /\ allowed' = [allowed EXCEPT !.lost = @ - 1] /\ UNCHANGED <<row, said>>

-----------------------------------------------------------------------------
(* The office: setAgentMemory.                                             *)

Fits(w) == Cardinality(writers[w].next) <= Room
Answers(w, pc) == [writers[w] EXCEPT !.pc = pc]

\* The size, then the hash against the row as it is now.
Selects(w) ==
  /\ Working(w, "set")
  /\ IF ~Fits(w) THEN Goes(w, Answers(w, "too large")) /\ UNCHANGED row
     ELSE IF ~writers[w].bound
     THEN Goes(w, Answers(w, "written")) /\ row' = Holds(writers[w].next)
     ELSE /\ UNCHANGED row
          /\ IF row.notes # writers[w].read THEN Goes(w, Answers(w, "conflict"))
             ELSE Goes(w, [Answers(w, "write") EXCEPT !.saw = row])
  /\ UNCHANGED <<said, allowed>>

\* Mutant: the row is read, compared and written over.
JustWrites(w) == TRUE
\* The WHERE on the stored content, or the insert that yields to a row.
StillReads(w) == row = writers[w].saw

Writes(w) ==
  /\ Working(w, "write")
  /\ IF StillReads(w)
     THEN Goes(w, Answers(w, "written")) /\ row' = Holds(writers[w].next)
     ELSE Goes(w, Answers(w, "conflict")) /\ UNCHANGED row
  /\ UNCHANGED <<said, allowed>>

-----------------------------------------------------------------------------
(* The owner's settings page: editAgentMemoryAsOwner.                      *)

\* Whatever the page was filled with: an empty memory is deleted, any other
\* is written over.
Saves ==
  /\ allowed.edits > 0 /\ allowed' = [allowed EXCEPT !.edits = @ - 1]
  /\ \E ns \in {n \in SUBSET Notes : Cardinality(n) <= Room} :
       row' = IF ns = {} THEN Absent ELSE Holds(ns)
  /\ UNCHANGED <<writers, said>>

-----------------------------------------------------------------------------

Office(w) == Selects(w) \/ Writes(w)
Harness(w) == Reads(w) \/ Heard(w) \/ Conflicts(w) \/ TooLarge(w)

CoreNext ==
  \/ Saves
  \/ \E w \in Writers :
       \/ Office(w) \/ Harness(w) \/ Forgets(w) \/ Loses(w)
       \/ \E n \in Notes : Remembers(w, n) \/ Thinks(w, n)

CoreSpec == CoreInit /\ [][CoreNext]_coreVars

\* An await returns, of the database and of the socket.
FairSpec == CoreSpec /\ \A w \in Writers : WF_coreVars(Office(w)) /\ WF_coreVars(Harness(w))

-----------------------------------------------------------------------------
(* Properties.                                                             *)

WriterType ==
  [pc : {"get", "set", "write", "written", "conflict", "too large", "over"},
   kind : {"remember", "forget", "tool"}, ns : SUBSET Notes, try : {1, 2},
   told : {"nothing", "done", "none", "failed"}, bound : BOOLEAN,
   read : SUBSET Notes, next : SUBSET Notes,
   saw : [there : BOOLEAN, notes : SUBSET Notes]]

CoreTypeOK ==
  /\ row \in [there : BOOLEAN, notes : SUBSET Notes]
  /\ writers \in [Writers -> {Resting} \cup WriterType]
  /\ said \subseteq Notes
  /\ allowed \in [edits : 0..MaxEdits, lost : 0..MaxLost]

Stores(w) == ~Working(w, "written") /\ writers'[w].pc = "written"
Dropped(w) == IF writers[w].kind = "remember" THEN {}
              ELSE IF writers[w].kind = "forget" THEN writers[w].ns
              ELSE writers[w].read \ writers[w].next

\* A note leaves the memory only because the owner saved an edit, the model
\* wrote without a condition, or somebody who had read that note dropped it:
\* two sessions that write at once do not erase each other's notes
\* (agents.ts 1241-1247: "the loser reads again rather than erasing the
\* winner", AgentRunner.ts 2100-2101).
NothingUnseenIsErased ==
  [][\A n \in row.notes \ row'.notes :
       Saves \/ \E w \in Writers : Stores(w) /\ (~writers[w].bound \/ n \in Dropped(w))]_coreVars

\* A note that was dropped stays dropped until the owner's page or an
\* unconditional write brings it back: no late write of somebody who read the
\* memory before does (AgentRunner.ts 2236-2237).
NothingComesBack ==
  [][\A n \in row'.notes \ row.notes :
       Saves \/ \E w \in Writers : Stores(w) /\ (~writers[w].bound \/ n \in writers[w].ns)]_coreVars

\* What the owner was told of a write that failed is true: nothing was kept
\* (AgentRunner.ts 2127).  The code does not keep it: a lost reply looks the
\* same as a lost request.
FailureIsTrue ==
  \A w \in Writers :
    writers[w].pc # "idle" => ~(writers[w].told = "failed" /\ writers[w].kind = "remember"
                                /\ writers[w].ns \subseteq row.notes)

\* Whoever waits for the office hears, or is told that it did not work.
EverybodyHears == \A w \in Writers : Waits(w) ~> ~Waits(w)
=============================================================================
