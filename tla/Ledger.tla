------------------------------- MODULE Ledger -------------------------------
(***************************************************************************)
(* The office's ledger of what one agent is on, and the notes of its board *)
(* that follow: each report of the harness is taken down by a handler of   *)
(* its own, which nothing keeps apart from the next, GitHub is asked, and  *)
(* people move and hand notes meanwhile (OfficeRoom.ts #ledgerTask and     *)
(* #followPulls; shared/db agent-tasks.ts, board.ts, github.ts; server     *)
(* github/pulls.ts).                                                       *)
(*                                                                         *)
(* Abstracted: the rest of a record, the board's re-reads (see Board),     *)
(* which pull requests the office may look at, failing statements.         *)
(***************************************************************************)
EXTENDS Naturals, FiniteSets

CONSTANTS
  Branches,
  Notes,     \* the numbers of the board's notes, 1 .. n
  Items,     \* what a task may say it is for: some notes, or 0, none
  Handlers,  \* bound: reports being taken down at once
  MaxSays,   \* bound: what the harness says
  MaxMoves   \* bound: notes moved or handed over by people

ASSUME NotesAssumption == /\ Notes \subseteq Nat \ {0} /\ IsFiniteSet(Notes)
                          /\ Items \subseteq Notes \cup {0}
ASSUME LedgerBoundsAssumption == MaxSays \in Nat /\ MaxMoves \in Nat

VARIABLES
  task,    \* what the agent is on
  hub,     \* each branch's pull request on GitHub
  rows,    \* agent_tasks, one row for a branch
  notes,   \* the board's notes
  runs,    \* the handlers under way
  look,    \* the office's look at GitHub
  met,     \* ghost: a report came while another was being taken down
  says, moves

ledgerVars == <<task, hub, rows, notes, runs, look, met, says, moves>>
counted == <<met, says, moves>>

Nothing == [on |-> FALSE]
NoRow   == [is |-> FALSE]
Idle    == [pc |-> "free"]
PrStates == {"none", "open", "merged"}

LedgerInit ==
  /\ task = Nothing /\ hub = [b \in Branches |-> "none"]
  /\ rows = [b \in Branches |-> NoRow]
  /\ notes \in [Notes -> [status : {"open"}, whose : {"me", "none"}]]
  /\ runs = [h \in Handlers |-> Idle] /\ look = Idle
  /\ met = FALSE /\ says = MaxSays /\ moves = MaxMoves

-----------------------------------------------------------------------------
(* The harness and the world.                                              *)

\* #onAgentTask: `void this.#ledgerTask', whatever is under way
Report(said) ==
  /\ says > 0 /\ says' = says - 1
  /\ \E h \in Handlers :
       /\ runs[h] = Idle
       /\ runs' = [runs EXCEPT ![h] = [pc |-> "new", said |-> said]]
       /\ met' = (met \/ \E g \in Handlers : runs[g] # Idle)

Says(next) ==
  /\ task' = next /\ Report(next) /\ UNCHANGED <<hub, rows, notes, look, moves>>

BeginsTask == /\ ~task.on
              /\ \E b \in Branches, i \in Items :
                   Says([on |-> TRUE, b |-> b, item |-> i, pr |-> hub[b]])
HearsPull  == task.on /\ task.pr # hub[task.b] /\ Says([task EXCEPT !.pr = hub[task.b]])
LeavesTask   == task.on /\ Says(Nothing)

PullMoves(b) ==
  /\ \/ hub[b] = "none" /\ rows[b].is /\ hub' = [hub EXCEPT ![b] = "open"]
     \/ hub[b] = "open" /\ hub' = [hub EXCEPT ![b] = "merged"]
  /\ UNCHANGED <<task, rows, notes, runs, look, counted>>

\* A person, or an agent by the board's tools
PersonMoves(n) ==
  /\ moves > 0 /\ moves' = moves - 1
  /\ \/ \E s \in {"open", "in_progress", "done"} : notes' = [notes EXCEPT ![n].status = s]
     \/ \E w \in {"me", "other"} : notes' = [notes EXCEPT ![n].whose = w]
  /\ UNCHANGED <<task, hub, rows, runs, look, met, says>>

-----------------------------------------------------------------------------
(* One report taken down (#ledgerTask), an await at a time.                *)

At(h, pc) == runs[h].pc = pc
To(h, run) == /\ runs' = [runs EXCEPT ![h] = run]
              /\ UNCHANGED <<task, hub, look, counted>>
Ongoing == {b \in Branches : rows[b].is /\ rows[b].on}

\* endAgentTasks: nothing active, nothing written
FindsActive(h) ==
  /\ At(h, "new") /\ ~runs[h].said.on
  /\ To(h, IF Ongoing = {} THEN Idle ELSE [pc |-> "ending"]) /\ UNCHANGED <<rows, notes>>

EndsActive(h) ==
  /\ At(h, "ending")
  /\ rows' = [b \in Branches |-> IF b \in Ongoing THEN [rows[b] EXCEPT !.on = FALSE] ELSE rows[b]]
  /\ To(h, Idle) /\ UNCHANGED notes

\* findUnlinkedItemForAgent: handed to this agent, not done, on no task; the newest
Unlinked == {n \in Notes : /\ notes[n].whose = "me" /\ notes[n].status # "done"
                           /\ \A b \in Branches : rows[b].is => rows[b].note # n}
Newest(S) == IF S = {} THEN 0 ELSE CHOOSE n \in S : \A m \in S : m <= n

\* noteForTask: never one handed to another agent
NoteForTask(n) == IF n # 0 /\ notes[n].whose = "other" THEN 0 ELSE n

Wanted(said) == IF said.item # 0 THEN said.item ELSE Newest(Unlinked)

FindsNote(h) ==
  /\ At(h, "new") /\ runs[h].said.on
  /\ LET n == NoteForTask(Wanted(runs[h].said))
     IN  To(h, [pc |-> "found", said |-> runs[h].said, n |-> n,
                was |-> IF n = 0 THEN [status |-> "none", whose |-> "none"] ELSE notes[n]])
  /\ UNCHANGED <<rows, notes>>

\* noteAgentTask reads the row ...
ReadsRow(h) ==
  /\ At(h, "found")
  /\ To(h, [pc |-> "read", said |-> runs[h].said, n |-> runs[h].n, was |-> runs[h].was,
            saw |-> rows[runs[h].said.b]])
  /\ UNCHANGED <<rows, notes>>

\* A row keeps the note it was first linked to.
LinkOf(saw, n) == IF saw.note = 0 THEN n ELSE saw.note

Heard(h, isLinked, merged) ==
  To(h, [pc |-> "noted", n |-> runs[h].n, was |-> runs[h].was, b |-> runs[h].said.b,
         linked |-> isLinked, merged |-> merged])

\* ... and inserts one, unless another handler has (the index is unique, and
\* the report is lost), ...
Inserts(h) ==
  LET said == runs[h].said  n == runs[h].n
  IN  /\ At(h, "read") /\ ~runs[h].saw.is
      /\ IF rows[said.b].is THEN To(h, Idle) /\ UNCHANGED rows
         ELSE /\ rows' = [rows EXCEPT ![said.b] =
                            [is |-> TRUE, note |-> n, pr |-> said.pr, on |-> TRUE]]
              /\ Heard(h, n # 0, said.pr = "merged")
      /\ UNCHANGED notes

\* ... or brings the one it saw up to date.
Updates(h) ==
  LET said == runs[h].said  saw == runs[h].saw  n == runs[h].n
  IN  /\ At(h, "read") /\ saw.is
      /\ rows' = [rows EXCEPT ![said.b] =
                    [is |-> TRUE, pr |-> said.pr, on |-> TRUE,
                     note |-> IF LinkOf(saw, n) # saw.note THEN LinkOf(saw, n) ELSE @.note]]
      /\ Heard(h, saw.note = 0 /\ n # 0, said.pr = "merged" /\ saw.pr # "merged")
      /\ UNCHANGED notes

\* Mutant: a note is done when its pull request is heard of.
DoneEarly(status, isLinked, merged) ==
  IF merged /\ status # "done" THEN "done" ELSE IF isLinked THEN "done" ELSE status
\* Mutant: a merge moves only a note that is in progress.
FromProgress(status, isLinked, merged) ==
  IF merged /\ status = "in_progress" THEN "done" ELSE status
\* boardStatusAfterTask: forward only, from what was read of the note
StatusAfterTask(status, isLinked, merged) ==
  IF merged /\ status # "done" THEN "done"
  ELSE IF isLinked /\ status = "open" THEN "in_progress" ELSE status

\* The note that was found is moved and claimed, if there is something to write.
MovesNote(h) ==
  LET r == runs[h]  to == StatusAfterTask(r.was.status, r.linked, r.merged)
      claims == r.linked /\ r.was.whose = "none"
  IN  /\ At(h, "noted") /\ To(h, Idle) /\ UNCHANGED rows
      /\ notes' = IF r.n = 0 THEN notes
                  ELSE [notes EXCEPT
                          ![r.n] = [status |-> IF to # r.was.status THEN to ELSE @.status,
                                    whose |-> IF claims THEN "me" ELSE @.whose]]

-----------------------------------------------------------------------------
(* The office's look at GitHub (PullRequestWatch #look, then #followPulls). *)

LookTo(next) == look' = next /\ UNCHANGED <<task, hub, runs, counted>>

\* tasksToWatch: a line with a pull request, open or still worked on; GitHub answers
LooksAt(b) ==
  /\ look = Idle /\ rows[b].is /\ rows[b].pr # "none"
  /\ rows[b].pr = "open" \/ rows[b].on
  /\ LookTo([pc |-> "asked", b |-> b, n |-> rows[b].note, facts |-> hub[b]])
  /\ UNCHANGED <<rows, notes>>

\* setAgentTaskPullRequestState, its read and its write
Marks ==
  /\ look.pc = "asked"
  /\ IF rows[look.b].pr \in {"none", look.facts} THEN LookTo(Idle) /\ UNCHANGED rows
     ELSE /\ rows' = [rows EXCEPT ![look.b].pr = look.facts]
          /\ LookTo(IF look.facts = "merged" /\ look.n # 0
                    THEN [pc |-> "follow", n |-> look.n] ELSE Idle)
  /\ UNCHANGED notes

ReadsNote == /\ look.pc = "follow"
             /\ LookTo([pc |-> "move", n |-> look.n, was |-> notes[look.n].status])
             /\ UNCHANGED <<rows, notes>>

FollowsPull ==
  /\ look.pc = "move" /\ LookTo(Idle) /\ UNCHANGED rows
  /\ LET to == StatusAfterTask(look.was, FALSE, TRUE)
     IN  notes' = IF to # look.was THEN [notes EXCEPT ![look.n].status = to] ELSE notes

-----------------------------------------------------------------------------
Handles(h) == \/ FindsActive(h) \/ EndsActive(h) \/ FindsNote(h) \/ ReadsRow(h)
              \/ Inserts(h) \/ Updates(h) \/ MovesNote(h)
Watches == (\E b \in Branches : LooksAt(b)) \/ Marks \/ ReadsNote \/ FollowsPull

LedgerNext == \/ BeginsTask \/ HearsPull \/ LeavesTask
        \/ \E b \in Branches : PullMoves(b)
        \/ \E n \in Notes : PersonMoves(n)
        \/ \E h \in Handlers : Handles(h)
        \/ Watches

LedgerSpec == LedgerInit /\ [][LedgerNext]_ledgerVars

\* Every statement is answered, and the office looks again and again.
FairLedger == LedgerSpec /\ WF_ledgerVars(Watches) /\ \A h \in Handlers : WF_ledgerVars(Handles(h))

-----------------------------------------------------------------------------
(* Properties.                                                             *)

\* The shape of the state (schema.ts agent_tasks, board_items).
LedgerTypeOK ==
  /\ rows \in [Branches -> {NoRow} \cup
                 [is : {TRUE}, note : Notes \cup {0}, pr : PrStates, on : BOOLEAN]]
  /\ notes \in [Notes -> [status : {"open", "in_progress", "done"},
                          whose : {"me", "other", "none"}]]
  /\ hub \in [Branches -> PrStates] /\ says \in 0 .. MaxSays /\ moves \in 0 .. MaxMoves
  /\ task = Nothing \/ task \in [on : {TRUE}, b : Branches, item : Items, pr : PrStates]

\* The office takes a note to `done' only when a pull request has merged, of
\* a branch that is for that note.
DoneIsEarned ==
  [][\A n \in Notes :
       notes[n].status # "done" /\ notes'[n].status = "done" /\ moves' = moves
       => \E b \in Branches : rows[b].is /\ rows[b].note = n /\ hub[b] = "merged"]_ledgerVars

\* The ledger says of no pull request that it merged before it did, whatever
\* late report or old look wrote its row (noteAgentTask, setAgentTaskPullRequestState).
MergedIsTrue == \A b \in Branches : rows[b].is /\ rows[b].pr = "merged" => hub[b] = "merged"

\* Whichever note it takes for the task's, the office takes none to `done'
\* before a pull request of the agent's has merged (boardStatusAfterTask).
MergeComesFirst ==
  [][\A n \in Notes :
       notes[n].status # "done" /\ notes'[n].status = "done" /\ moves' = moves
       => \E b \in Branches : rows[b].is /\ hub[b] = "merged"]_ledgerVars

\* The ledger comes to say what the agent last said, if its reports were
\* taken down one at a time (#ledgerTask).
Agrees == Ongoing = IF task.on THEN {task.b} ELSE {}
LedgerFollows == <>[](Agrees \/ met)

\* A merged pull request takes its note to `done', if reports were taken down
\* one at a time and nobody moved a note by hand (#ledgerTask, #followPulls).
MergedIsDone ==
  \A b \in Branches, n \in Notes :
    (rows[b].is /\ rows[b].note = n /\ rows[b].pr = "merged")
    ~> (notes[n].status = "done" \/ met \/ moves < MaxMoves)

\* What the code's own words promise and it does not keep.

\* A task is for the note it began for, whatever a later message says
\* (agent-tasks.ts:102), and however many handlers and looks overlap.
LinkKept ==
  [][\A b \in Branches : rows[b].is /\ rows[b].note # 0
                         => rows'[b].is /\ rows'[b].note = rows[b].note]_ledgerVars

\* The agent said it is on nothing: every task it was on is over
\* (agent-tasks.ts:169), though two reports are taken down at once.
LedgerFollowsAlways == <>[]Agrees

\* Never back, and never when a person has already moved it further
\* (board-brief.ts:81): the office does not take a note out of `done'.
NeverReopened ==
  [][\A n \in Notes : notes[n].status = "done" /\ moves' = moves
                      => notes'[n].status = "done"]_ledgerVars
=============================================================================
