-------------------------- MODULE TasksLedgerProofs --------------------------
(***************************************************************************)
(* Proofs about the tasks, for any number of tasks, commits and troubles,  *)
(* and about the office's ledger of them, for any number of branches,      *)
(* notes and handlers.                                                     *)
(*                                                                         *)
(* Of the tasks everything rests on the lock: only the operation at the    *)
(* head of the queue is past being asked (OthersWait), so what it found of *)
(* the book when it began still holds when it writes (LockOK).  The card   *)
(* in the office follows from the active task being one that was begun     *)
(* (ActiveIsBegun): whoever writes the book publishes.                     *)
(*                                                                         *)
(* The ledger has no lock.  What its handlers and its look hold on to      *)
(* across their awaits is true for good: a pull request's merge and a row  *)
(* (MergesStay, RowsStay), whatever the tasks say (LedgerHolds), and a     *)
(* row's link, once it has one, if each branch has its note (LinksStay).   *)
(***************************************************************************)
EXTENDS Tasks, Ledger, TLAPS, SequenceTheorems, FiniteSetTheorems, WellFoundedInduction

Task == [is : Outcomes, pr : {"none", "open", "merged"}]

\* An operation asked for, perhaps with its base fetched; a worktree cut for a
\* record not written yet; an end with its verdict.
Asked == [op : {"begin", "end"}, at : {"asked", "fetched"}, pr : Slugs \cup {None}]
Cutting == [op : {"begin"}, at : {"cut"}, pr : {None}, slug : Slugs, read : [Slugs -> Task]]
Ending == [op : {"end"}, at : {"removing", "ending"}, pr : Slugs \cup {None}, slug : Slugs,
           task : Task, had : Int, outcome : {"kept", "removed"}]
Ops == Asked \cup Cutting \cup Ending

BookTyped == book \in [active : Slugs \cup {None}, tasks : [Slugs -> Task]]
TreeTyped == tree \in [Slugs -> [there : BOOLEAN, dirty : BOOLEAN]]
BranchTyped == branch \in [Slugs -> [cut : BOOLEAN, made : Int, pushed : Int, merged : Int,
                                     remote : BOOLEAN]]
QueueTyped == queue \in Seq(Ops)
PollTyped == poll # NoPoll => poll.slug \in Slugs
ShownTyped == watching \in BOOLEAN /\ linked \in BOOLEAN

Typed == BookTyped /\ TreeTyped /\ BranchTyped /\ PollTyped /\ ShownTyped

\* What is merged was pushed, and what is pushed was made.
BranchOK ==
  \A s \in Slugs : /\ 0 <= branch[s].merged /\ branch[s].merged <= branch[s].pushed
                   /\ branch[s].pushed <= branch[s].made

\* Whoever does not have the lock has done nothing yet.
OthersWait == \A i \in 1 .. Len(queue) : i # 1 => queue[i].at = "asked"

Delivered ==
  \A i \in 1 .. Len(queue) : queue[i].at = "removing" => queue[i].had <= branch[queue[i].slug].pushed

QueueOK == QueueTyped /\ OthersWait /\ Delivered

\* An unfinished task is the active one.
ActiveIsUnfinished == \A s \in Unfinished : book.active = s

\* What the holder of the lock found is still so.
LockOK ==
  queue # <<>> =>
    /\ queue[1].at = "fetched" => Unfinished = {}
    /\ queue[1].at = "cut" =>
         /\ Unfinished = {}
         /\ \A s \in Slugs : ~(queue[1].read[s].is = "begun" /\ tree[s].there)
    /\ queue[1].at \in {"removing", "ending"} => Unfinished \subseteq {queue[1].slug}

IInv == Typed /\ BranchOK /\ QueueOK /\ ActiveIsUnfinished /\ LockOK

-----------------------------------------------------------------------------
(* The queue.                                                              *)

\* The head of the queue is what it was, or has not begun.
HeadKept ==
  queue' # <<>> => queue'[1].at = "asked" \/ (queue # <<>> /\ queue'[1] = queue[1])

\* No commit that was on a remote goes from it.
Pushed == \A s \in Slugs : branch'[s].pushed >= branch[s].pushed

LEMMA OpsHaveSlugs ==
  ASSUME NEW r \in Ops, r.at \in {"cut", "removing", "ending"}
  PROVE  r.slug \in Slugs
BY DEF Ops, Asked, Cutting, Ending

LEMMA SameQueue ==
  ASSUME QueueOK, UNCHANGED queue, BranchTyped, BranchTyped', Pushed
  PROVE  QueueOK' /\ HeadKept
<1>1. \A i \in 1 .. Len(queue) : queue[i] \in Ops
  BY DEF QueueOK, QueueTyped
<1>2. ASSUME NEW i \in 1 .. Len(queue), queue[i].at = "removing"
      PROVE  queue[i].had <= branch'[queue[i].slug].pushed
  <2>1. queue[i].slug \in Slugs /\ queue[i].had \in Int
    BY <1>1, <1>2 DEF Ops, Asked, Cutting, Ending
  <2>2. queue[i].had <= branch[queue[i].slug].pushed
    BY <1>2 DEF QueueOK, Delivered
  <2> DEFINE s == queue[i].slug
  <2>3. branch[s].pushed \in Int /\ branch'[s].pushed \in Int /\ branch'[s].pushed >= branch[s].pushed
    BY <2>1 DEF BranchTyped, Pushed
  <2> QED
    BY <2>1, <2>2, <2>3
<1>3. Delivered'
  BY <1>2 DEF Delivered
<1> QED
  BY <1>3 DEF QueueOK, QueueTyped, OthersWait, HeadKept

\* Asking comes last and has done nothing.
LEMMA AskedOK ==
  ASSUME QueueOK, NEW r \in Asked, r.at = "asked", queue' = Append(queue, r), UNCHANGED branch
  PROVE  QueueOK' /\ HeadKept
<1>1. r \in Ops
  BY DEF Ops
<1>2. /\ QueueTyped' /\ Len(queue') = Len(queue) + 1 /\ Len(queue) \in Nat
      /\ \A i \in 1 .. Len(queue) : queue'[i] = queue[i]
      /\ queue'[Len(queue) + 1] = r
  BY <1>1 DEF QueueOK, QueueTyped
<1>3. \A i \in 1 .. Len(queue') : queue'[i] = r \/ (i \in 1 .. Len(queue) /\ queue'[i] = queue[i])
  BY <1>2
<1>4. OthersWait' /\ Delivered'
  BY <1>3 DEF QueueOK, OthersWait, Delivered
<1>5. HeadKept
  <2>1. queue = <<>> => queue'[1] = r
    BY <1>2
  <2>2. queue # <<>> => 1 \in 1 .. Len(queue)
    BY DEF QueueOK, QueueTyped
  <2> QED
    BY <1>2, <2>1, <2>2 DEF HeadKept
<1> QED
  BY <1>2, <1>4, <1>5 DEF QueueOK

\* The holder of the lock is done: the next has done nothing.
LEMMA DoneOK ==
  ASSUME QueueOK, queue # <<>>, Done(1), UNCHANGED branch
  PROVE  QueueOK' /\ HeadKept
<1>1. Len(queue) \in Nat /\ Len(queue) > 0 /\ \A i \in 1 .. Len(queue) : queue[i] \in Ops
  BY DEF QueueOK, QueueTyped
<1>2. queue' = [j \in 1 .. Len(queue) - 1 |-> queue[j + 1]]
  BY <1>1 DEF Done
<1>3. QueueTyped' /\ Len(queue') = Len(queue) - 1
  BY <1>1, <1>2 DEF QueueTyped
<1>4. \A i \in 1 .. Len(queue') : queue'[i] = queue[i + 1] /\ queue'[i].at = "asked"
  BY <1>1, <1>2, <1>3 DEF QueueOK, OthersWait
<1>5. queue' # <<>> => queue'[1].at = "asked"
  BY <1>1, <1>3, <1>4 DEF QueueTyped
<1> QED
  BY <1>3, <1>4, <1>5 DEF QueueOK, OthersWait, Delivered, HeadKept

\* ... and so has not begun.
LEMMA NextHasAsked ==
  ASSUME QueueOK, queue # <<>>, Done(1), queue' # <<>>
  PROVE  queue'[1].at = "asked"
<1>1. Len(queue) \in Nat /\ Len(queue) > 0
  BY DEF QueueOK, QueueTyped
<1>2. queue' = [j \in 1 .. Len(queue) - 1 |-> queue[j + 1]]
  BY <1>1 DEF Done
<1>3. Len(queue) > 1
  BY <1>1, <1>2
<1> QED
  BY <1>1, <1>2, <1>3 DEF QueueOK, OthersWait

\* The holder of the lock goes on.
LEMMA MovedOK ==
  ASSUME QueueOK, queue # <<>>, NEW r \in Ops, queue' = [queue EXCEPT ![1] = r],
         BranchTyped, BranchTyped', Pushed,
         r.at = "removing" => r.had <= branch'[r.slug].pushed
  PROVE  QueueOK' /\ queue' # <<>> /\ queue'[1] = r
<1>1. Len(queue) \in Nat /\ 1 \in 1 .. Len(queue) /\ \A i \in 1 .. Len(queue) : queue[i] \in Ops
  BY DEF QueueOK, QueueTyped
<1>2. QueueTyped' /\ Len(queue') = Len(queue)
  BY <1>1, ExceptSeq DEF QueueOK, QueueTyped
<1>3. queue'[1] = r /\ \A i \in 1 .. Len(queue') : i # 1 => queue'[i] = queue[i]
  BY <1>1, <1>2 DEF QueueOK, QueueTyped
<1>4. OthersWait'
  BY <1>2, <1>3 DEF QueueOK, OthersWait
<1>5. Delivered'
  BY <1>2, <1>3, <1>4 DEF OthersWait, Delivered
<1>6. queue' # <<>>
  BY <1>1, <1>2
<1> QED
  BY <1>2, <1>3, <1>4, <1>5, <1>6 DEF QueueOK

-----------------------------------------------------------------------------
(* What only takes away from the unfinished keeps the lock's word.         *)

FewerUnfinished ==
  /\ Unfinished' \subseteq Unfinished
  /\ \A s \in Slugs : tree'[s].there => tree[s].there

LEMMA LockKept == ASSUME LockOK, HeadKept, FewerUnfinished PROVE LockOK'
BY DEF LockOK, HeadKept, FewerUnfinished

\* A read of the book forgets an active task whose worktree is gone, and no
\* unfinished one.
LEMMA ReadingOK ==
  ASSUME BookTyped, TreeTyped, ActiveIsUnfinished
  PROVE  /\ Active \in Slugs \cup {None}
         /\ ReadBook \in [active : Slugs \cup {None}, tasks : [Slugs -> Task]]
         /\ ReadBook.tasks = book.tasks /\ ReadBook.active = Active
         /\ \A s \in Unfinished : Active = s
<1>1. Active \in Slugs \cup {None}
  BY DEF BookTyped, Active
<1>2. \A s \in Unfinished : Active = s
  BY DEF ActiveIsUnfinished, Unfinished, Active, None, Slugs
<1> QED
  BY <1>1, <1>2 DEF BookTyped, ReadBook

\* With no task active, none is unfinished.
LEMMA NoneActive ==
  ASSUME BookTyped, TreeTyped, ActiveIsUnfinished, Active = None
  PROVE  Unfinished = {}
<1>1. \A s \in Unfinished : None = s /\ s \in Slugs
  BY ReadingOK DEF Unfinished
<1> QED
  BY <1>1 DEF None, Slugs

\* The book read again, or left; the worktrees left.
LEMMA BookRead ==
  ASSUME IInv, book' = ReadBook \/ UNCHANGED book, UNCHANGED <<tree, branch>>
  PROVE  BookTyped' /\ TreeTyped' /\ BranchTyped' /\ BranchOK' /\ Pushed
         /\ ActiveIsUnfinished' /\ FewerUnfinished
<1>1. BookTyped' /\ book'.tasks = book.tasks /\ \A s \in Unfinished : book'.active = s
  BY ReadingOK DEF IInv, Typed, BookTyped, ActiveIsUnfinished
<1>2. Unfinished' = Unfinished
  BY <1>1 DEF Unfinished
<1>3. TreeTyped' /\ BranchTyped' /\ BranchOK'
  BY DEF IInv, Typed, TreeTyped, BranchTyped, BranchOK
<1>4. Pushed
  BY DEF IInv, Typed, BranchTyped, Pushed
<1> QED
  BY <1>1, <1>2, <1>3, <1>4 DEF ActiveIsUnfinished, FewerUnfinished

-----------------------------------------------------------------------------
(* The operations behind the lock.                                         *)

LEMMA HeadIsAnOp == ASSUME IInv, NEW i, MyTurn(i) PROVE i = 1 /\ queue # <<>> /\ queue[1] \in Ops
BY DEF IInv, QueueOK, QueueTyped, MyTurn

LEMMA AsksInv ==
  ASSUME IInv, NEW op \in {Begin, End(None)}, Asks(op)
  PROVE  IInv'
<1>1. op \in Asked /\ op.at = "asked"
  BY DEF Begin, End, Asked
<1>2. queue' = Append(queue, op) /\ UNCHANGED <<book, tree, branch, poll, watching, linked>>
  BY DEF Asks, disk, shown
<1>3. QueueOK' /\ HeadKept
  BY <1>1, <1>2, AskedOK DEF IInv
<1>4. BookTyped' /\ TreeTyped' /\ BranchTyped' /\ BranchOK' /\ ActiveIsUnfinished' /\ FewerUnfinished
  BY <1>2, BookRead
<1>5. LockOK'
  BY <1>3, <1>4, LockKept DEF IInv
<1> QED
  BY <1>2, <1>3, <1>4, <1>5 DEF IInv, Typed, PollTyped, ShownTyped

\* Refused, or failed at a step that had changed nothing.
LEMMA OverInv ==
  ASSUME IInv, NEW i, Refused(i) \/ Fails(i)
  PROVE  IInv'
<1>1. queue # <<>> /\ Done(1)
  BY HeadIsAnOp DEF Refused, Fails
<1>2. /\ book' = ReadBook \/ UNCHANGED book
      /\ UNCHANGED <<tree, branch, poll, watching, linked>>
  BY DEF Refused, Fails, disk, shown
<1>3. QueueOK' /\ HeadKept
  BY <1>1, <1>2, DoneOK DEF IInv
<1>4. BookTyped' /\ TreeTyped' /\ BranchTyped' /\ BranchOK' /\ ActiveIsUnfinished' /\ FewerUnfinished
  BY <1>2, BookRead
<1>5. LockOK'
  BY <1>3, <1>4, LockKept DEF IInv
<1> QED
  BY <1>2, <1>3, <1>4, <1>5 DEF IInv, Typed, PollTyped, ShownTyped

LEMMA BeginsInv == ASSUME IInv, NEW i, Begins(i) PROVE IInv'
<1> DEFINE r == [op |-> "begin", at |-> "fetched", pr |-> None]
<1>1. i = 1 /\ queue # <<>> /\ queue[1] = Begin
  BY HeadIsAnOp DEF Begins
<1>2. queue' = [queue EXCEPT ![1] = r]
  <2>1. queue' = [queue EXCEPT ![1].at = "fetched"]
    BY <1>1 DEF Begins, Moves
  <2>2. [queue[1] EXCEPT !.at = "fetched"] = r
    BY <1>1 DEF Begin
  <2> QED
    BY <2>1, <2>2
<1>3. r \in Ops
  BY DEF Ops, Asked
<1>4. book' = ReadBook /\ UNCHANGED <<tree, branch, poll, watching, linked>>
  BY DEF Begins, shown
<1>5. /\ BookTyped' /\ TreeTyped' /\ BranchTyped' /\ BranchOK' /\ Pushed
      /\ ActiveIsUnfinished' /\ FewerUnfinished
  BY <1>4, BookRead
<1>6. QueueOK' /\ queue'[1] = r
  BY <1>1, <1>2, <1>3, <1>5, MovedOK DEF IInv, Typed
<1>7. Unfinished' = {}
  BY <1>5, NoneActive DEF IInv, Typed, Begins, FewerUnfinished
<1>8. LockOK'
  BY <1>6, <1>7 DEF LockOK
<1> QED
  BY <1>4, <1>5, <1>6, <1>8 DEF IInv, Typed, PollTyped, ShownTyped

LEMMA CutsInv == ASSUME IInv, NEW i, Cuts(i) PROVE IInv'
<1>1. i = 1 /\ queue # <<>> /\ queue[1].at = "fetched"
  BY HeadIsAnOp DEF Cuts
<1>2. Unfinished = {} /\ UNCHANGED <<book, poll, watching, linked>>
  BY <1>1 DEF IInv, LockOK, Cuts, shown
<1>3. PICK s \in Slugs :
        /\ Free(s)
        /\ IF branch[s].cut THEN Done(1) /\ UNCHANGED <<tree, branch>>
           ELSE /\ tree' = [tree EXCEPT ![s].there = TRUE]
                /\ branch' = [branch EXCEPT ![s].cut = TRUE]
                /\ queue' = [queue EXCEPT ![1] = [op |-> "begin", at |-> "cut", pr |-> None,
                                                  slug |-> s, read |-> book.tasks]]
  BY <1>1 DEF Cuts
<1>4. CASE branch[s].cut
  <2>1. Done(1) /\ UNCHANGED <<tree, branch>>
    BY <1>3, <1>4
  <2>2. QueueOK' /\ HeadKept
    BY <1>1, <2>1, DoneOK DEF IInv
  <2>3. BookTyped' /\ TreeTyped' /\ BranchTyped' /\ BranchOK' /\ ActiveIsUnfinished' /\ FewerUnfinished
    BY <1>2, <2>1, BookRead
  <2>4. LockOK'
    BY <2>2, <2>3, LockKept DEF IInv
  <2> QED
    BY <1>2, <2>2, <2>3, <2>4 DEF IInv, Typed, PollTyped, ShownTyped
<1>5. CASE ~branch[s].cut
  <2> DEFINE r == [op |-> "begin", at |-> "cut", pr |-> None, slug |-> s, read |-> book.tasks]
  <2>1. /\ tree' = [tree EXCEPT ![s].there = TRUE]
        /\ branch' = [branch EXCEPT ![s].cut = TRUE]
        /\ queue' = [queue EXCEPT ![1] = r]
    BY <1>3, <1>5
  <2>2. r \in Ops
    BY DEF IInv, Typed, BookTyped, Ops, Cutting
  <2>3. TreeTyped' /\ BranchTyped'
    BY <2>1 DEF IInv, Typed, TreeTyped, BranchTyped
  <2>4. BranchOK' /\ Pushed
    BY <2>1 DEF IInv, Typed, BranchTyped, BranchOK, Pushed
  <2>5. QueueOK' /\ queue'[1] = r
    BY <1>1, <2>1, <2>2, <2>3, <2>4, MovedOK DEF IInv, Typed
  <2>6. \A u \in Slugs : ~(book.tasks[u].is = "begun" /\ tree'[u].there)
    <3>0. Free(s)
      BY <1>3
    <3>1. book.tasks[s].is = "no record"
      <4>1. book.tasks[s] = Unknown
        BY <3>0 DEF Free
      <4>2. Unknown.is = "no record"
        BY DEF Unknown
      <4> QED
        BY <4>1, <4>2
    <3>2. \A u \in Slugs : u # s => tree'[u] = tree[u]
      BY <2>1 DEF IInv, Typed, TreeTyped
    <3> QED
      BY <1>2, <3>1, <3>2 DEF Unfinished
  <2>7. Unfinished' = {}
    BY <1>2, <2>6 DEF Unfinished
  <2>8. LockOK' /\ ActiveIsUnfinished'
    BY <2>5, <2>6, <2>7 DEF LockOK, ActiveIsUnfinished
  <2> QED
    BY <1>2, <2>3, <2>4, <2>5, <2>8 DEF IInv, Typed, BookTyped, PollTyped, ShownTyped
<1> QED
  BY <1>4, <1>5

LEMMA RecordsInv == ASSUME IInv, NEW i, Records(i) PROVE IInv'
<1>1. i = 1 /\ queue # <<>> /\ queue[1] \in Ops /\ queue[1].at = "cut"
  BY HeadIsAnOp DEF Records
<1> DEFINE s == queue[1].slug
           tasks == queue[1].read
<1>2. s \in Slugs /\ tasks \in [Slugs -> Task]
  BY <1>1 DEF Ops, Asked, Cutting, Ending
<1>3. /\ book' = [active |-> s, tasks |-> [tasks EXCEPT ![s] = Begun]]
      /\ Done(1) /\ watching' = TRUE /\ UNCHANGED <<tree, branch, poll, linked>>
  BY <1>1 DEF Records
<1>4. Begun \in Task
  BY DEF Begun, Task, Outcomes
<1>5. BookTyped'
  BY <1>2, <1>3, <1>4 DEF BookTyped
<1>6. QueueOK' /\ HeadKept
  BY <1>1, <1>3, DoneOK DEF IInv
<1>7. \A u \in Slugs : u # s => ~(tasks[u].is = "begun" /\ tree[u].there)
  BY <1>1 DEF IInv, LockOK
<1>8. Unfinished' \subseteq {s} /\ book'.active = s
  BY <1>2, <1>3, <1>7 DEF Unfinished
<1>9. queue' # <<>> => queue'[1].at = "asked"
  BY <1>1, <1>3, NextHasAsked DEF IInv
<1> QED
  BY <1>3, <1>5, <1>6, <1>8, <1>9
  DEF IInv, Typed, TreeTyped, BranchTyped, BranchOK, PollTyped, ShownTyped, LockOK, ActiveIsUnfinished

LEMMA JudgesInv == ASSUME IInv, NEW i, Judges(i) PROVE IInv'
<1>1. i = 1 /\ queue # <<>> /\ queue[1] \in Ops /\ Active # None
  BY HeadIsAnOp DEF Judges
<1> DEFINE s == Active
           pr == queue[1].pr
           outcome == Cleanup(s, pr)
           r == [op |-> "end", pr |-> pr, slug |-> s, task |-> book.tasks[s], had |-> branch[s].made,
                 outcome |-> outcome, at |-> IF outcome = "removed" THEN "removing" ELSE "ending"]
<1>2. queue' = [queue EXCEPT ![1] = r] /\ book' = ReadBook
  BY <1>1 DEF Judges
<1>3. UNCHANGED <<tree, branch, poll, watching, linked>>
  BY DEF Judges, shown
<1>4. s \in Slugs /\ \A u \in Unfinished : u = s
  BY <1>1, ReadingOK DEF IInv, Typed
<1>5. /\ BookTyped' /\ TreeTyped' /\ BranchTyped' /\ BranchOK' /\ Pushed
      /\ ActiveIsUnfinished' /\ FewerUnfinished
  BY <1>2, <1>3, BookRead
<1>6. pr \in Slugs \cup {None} /\ outcome \in {"kept", "removed"}
  BY <1>1 DEF Ops, Asked, Cutting, Ending, Cleanup
<1>7. r \in Ending
  <2>1. book.tasks[s] \in Task /\ branch[s].made \in Int
    BY <1>4 DEF IInv, Typed, BookTyped, BranchTyped
  <2> QED
    BY <1>4, <1>6, <2>1 DEF Ending
<1>8. outcome = "removed" => branch[s].made <= branch[s].pushed
  <2>1. /\ branch[s].made \in Int /\ branch[s].pushed \in Int /\ branch[s].merged \in Int
        /\ 0 <= branch[s].merged /\ branch[s].merged <= branch[s].pushed
    BY <1>4 DEF IInv, Typed, BranchTyped, BranchOK
  <2>2. outcome = "removed" => ~Unpushed(s, pr)
    BY DEF Cleanup
  <2> QED
    BY <2>1, <2>2 DEF Unpushed
<1>9. r.at = "removing" => r.had <= branch'[r.slug].pushed
  BY <1>3, <1>8
<1>10. r \in Ops
  BY <1>7 DEF Ops
<1>11. QueueOK' /\ queue'[1] = r
  BY <1>1, <1>2, <1>5, <1>9, <1>10, MovedOK DEF IInv, Typed
<1>12. Unfinished' \subseteq {s}
  BY <1>4, <1>5 DEF FewerUnfinished
<1>13. LockOK'
  BY <1>11, <1>12 DEF LockOK
<1> QED
  BY <1>3, <1>5, <1>11, <1>13 DEF IInv, Typed, PollTyped, ShownTyped

LEMMA RemovesInv == ASSUME IInv, NEW i, Removes(i) PROVE IInv'
<1>1. i = 1 /\ queue # <<>> /\ queue[1] \in Ops /\ queue[1].at = "removing"
  BY HeadIsAnOp DEF Removes
<1> DEFINE s == queue[1].slug
           r == [queue[1] EXCEPT !.at = "ending"]
<1>2. queue[1] \in Ending /\ s \in Slugs
  BY <1>1 DEF Ops, Asked, Cutting, Ending
<1>3. /\ queue' = [queue EXCEPT ![1] = r] /\ tree' = [tree EXCEPT ![s] = NoTree]
      /\ UNCHANGED <<book, poll, watching, linked>>
  BY <1>1 DEF Removes, Moves, shown
<1>4. PICK gone \in BOOLEAN : branch' = [branch EXCEPT ![s].cut = ~gone]
  BY <1>1 DEF Removes
<1>5. r \in Ops /\ r.at = "ending" /\ r.slug = s
  BY <1>2 DEF Ops, Ending
<1>6. TreeTyped' /\ BranchTyped'
  BY <1>2, <1>3, <1>4 DEF IInv, Typed, TreeTyped, BranchTyped, NoTree
<1>7. BranchOK' /\ Pushed
  BY <1>4 DEF IInv, Typed, BranchTyped, BranchOK, Pushed
<1>8. QueueOK' /\ queue'[1] = r
  BY <1>1, <1>3, <1>5, <1>6, <1>7, MovedOK DEF IInv, Typed
<1>9. FewerUnfinished
  BY <1>2, <1>3 DEF IInv, Typed, TreeTyped, FewerUnfinished, Unfinished, NoTree
<1>10. Unfinished \subseteq {s}
  BY <1>1 DEF IInv, LockOK
<1>11. LockOK' /\ ActiveIsUnfinished'
  BY <1>3, <1>5, <1>8, <1>9, <1>10 DEF IInv, LockOK, ActiveIsUnfinished, FewerUnfinished
<1> QED
  BY <1>3, <1>6, <1>7, <1>8, <1>11 DEF IInv, Typed, BookTyped, PollTyped, ShownTyped

LEMMA EndsInv == ASSUME IInv, NEW i, Ends(i) PROVE IInv'
<1>1. i = 1 /\ queue # <<>> /\ queue[1] \in Ops /\ queue[1].at = "ending"
  BY HeadIsAnOp DEF Ends
<1> DEFINE s == queue[1].slug
           rec == [queue[1].task EXCEPT !.is = queue[1].outcome]
<1>2. queue[1] \in Ending
  BY <1>1 DEF Ops, Asked, Cutting, Ending
<1>3. s \in Slugs /\ rec \in Task /\ rec.is # "begun"
  BY <1>2 DEF Ending, Task, Outcomes
<1>4. /\ book' = [active |-> None, tasks |-> [book.tasks EXCEPT ![s] = rec]]
      /\ watching' = FALSE /\ Done(1) /\ UNCHANGED <<tree, branch, poll, linked>>
  BY <1>1 DEF Ends
<1>5. BookTyped'
  BY <1>3, <1>4 DEF IInv, Typed, BookTyped
<1>6. QueueOK' /\ HeadKept
  BY <1>1, <1>4, DoneOK DEF IInv
<1>7. Unfinished \subseteq {s}
  BY <1>1 DEF IInv, LockOK
<1>8. Unfinished' = {}
  BY <1>3, <1>4, <1>7 DEF IInv, Typed, BookTyped, Unfinished
<1>9. FewerUnfinished
  BY <1>4, <1>8 DEF FewerUnfinished
<1>10. LockOK'
  BY <1>6, <1>9, LockKept DEF IInv
<1> QED
  BY <1>4, <1>5, <1>6, <1>8, <1>10
  DEF IInv, Typed, TreeTyped, BranchTyped, BranchOK, PollTyped, ShownTyped, ActiveIsUnfinished

-----------------------------------------------------------------------------
(* The poll of the pull request.                                           *)

LEMMA LooksInv == ASSUME IInv, Looks PROVE IInv'
<1>1. /\ book' = ReadBook /\ UNCHANGED <<tree, branch, queue, linked>>
  BY DEF Looks
<1>2. /\ BookTyped' /\ TreeTyped' /\ BranchTyped' /\ BranchOK' /\ Pushed
      /\ ActiveIsUnfinished' /\ FewerUnfinished
  BY <1>1, BookRead
<1>3. QueueOK' /\ HeadKept
  BY <1>1, <1>2, SameQueue DEF IInv, Typed
<1>4. LockOK'
  BY <1>2, <1>3, LockKept DEF IInv
<1>5. PollTyped' /\ ShownTyped'
  <2>1. Active \in Slugs \cup {None}
    BY ReadingOK DEF IInv, Typed
  <2>2. CASE Active = None
    BY <2>2 DEF IInv, Typed, Looks, PollTyped, ShownTyped
  <2>3. CASE Active # None
    <3>1. /\ poll' = [at |-> "asked", slug |-> Active, pr |-> book.tasks[Active].pr]
          /\ UNCHANGED <<watching, linked>>
      BY <2>3 DEF Looks
    <3>2. poll'.slug = Active
      BY <3>1
    <3> QED
      BY <2>1, <2>3, <3>1, <3>2 DEF IInv, Typed, PollTyped, ShownTyped
  <2> QED
    BY <2>2, <2>3
<1> QED
  BY <1>2, <1>3, <1>4, <1>5 DEF IInv, Typed

LEMMA HearsNothingInv == ASSUME IInv, HearsNothing PROVE IInv'
<1>1. UNCHANGED <<book, tree, branch, queue, watching, linked>> /\ poll' = NoPoll
  BY DEF HearsNothing, disk
<1>2. /\ BookTyped' /\ TreeTyped' /\ BranchTyped' /\ BranchOK' /\ Pushed
      /\ ActiveIsUnfinished' /\ FewerUnfinished
  BY <1>1, BookRead
<1>3. QueueOK' /\ HeadKept
  BY <1>1, <1>2, SameQueue DEF IInv, Typed
<1>4. LockOK'
  BY <1>2, <1>3, LockKept DEF IInv
<1> QED
  BY <1>1, <1>2, <1>3, <1>4 DEF IInv, Typed, PollTyped, ShownTyped

\* The answer may come when another task is active: the news go on the record
\* of the task asked about, which changes nothing about which is unfinished.
LEMMA HearsInv == ASSUME IInv, Hears PROVE IInv'
<1> DEFINE s == poll.slug
           pr == PrState(s)
<1>1. /\ book' = [ReadBook EXCEPT !.tasks[s].pr = pr] \/ UNCHANGED book
      /\ queue' = Append(queue, End(s)) \/ UNCHANGED queue
      /\ UNCHANGED <<tree, branch, watching, linked>> /\ poll' = NoPoll
  BY DEF Hears
<1>2. s \in Slugs /\ pr \in {"none", "open", "merged"}
  BY DEF IInv, Typed, PollTyped, Hears, PrState
<1>3. BookTyped' /\ FewerUnfinished /\ ActiveIsUnfinished'
  <2>1. CASE UNCHANGED book
    BY <1>1, <2>1, BookRead
  <2>2. CASE book' = [ReadBook EXCEPT !.tasks[s].pr = pr]
    <3>1. /\ ReadBook \in [active : Slugs \cup {None}, tasks : [Slugs -> Task]]
          /\ ReadBook.tasks = book.tasks
          /\ \A u \in Unfinished : ReadBook.active = u
      BY ReadingOK DEF IInv, Typed
    <3> DEFINE t == [ReadBook.tasks[s] EXCEPT !.pr = pr]
               tasks == [ReadBook.tasks EXCEPT ![s] = t]
    <3>2. t \in Task /\ t.is = book.tasks[s].is
      BY <1>2, <3>1 DEF Task
    <3>3. tasks \in [Slugs -> Task] /\ \A u \in Slugs : tasks[u].is = book.tasks[u].is
      BY <1>2, <3>1, <3>2
    <3>4. book'.active = ReadBook.active /\ book'.tasks = tasks
          /\ book' = [ReadBook EXCEPT !.tasks = tasks]
      BY <2>2, <3>1
    <3>5. BookTyped'
      BY <3>1, <3>3, <3>4 DEF BookTyped
    <3>6. Unfinished' = Unfinished
      BY <1>1, <3>3, <3>4 DEF Unfinished
    <3> QED
      BY <1>1, <3>1, <3>4, <3>5, <3>6 DEF FewerUnfinished, ActiveIsUnfinished
  <2> QED
    BY <1>1, <2>1, <2>2
<1>4. BranchTyped' /\ TreeTyped' /\ BranchOK' /\ Pushed
  BY <1>1 DEF IInv, Typed, BranchTyped, TreeTyped, BranchOK, Pushed
<1>5. QueueOK' /\ HeadKept
  <2>1. End(s) \in Asked /\ End(s).at = "asked"
    BY <1>2 DEF End, Asked
  <2>2. CASE queue' = Append(queue, End(s))
    BY <1>1, <2>1, <2>2, AskedOK DEF IInv
  <2>3. CASE UNCHANGED queue
    BY <1>4, <2>3, SameQueue DEF IInv, Typed
  <2> QED
    BY <1>1, <2>2, <2>3
<1>6. LockOK'
  BY <1>3, <1>5, LockKept DEF IInv
<1> QED
  BY <1>1, <1>3, <1>4, <1>5, <1>6 DEF IInv, Typed, PollTyped, ShownTyped

-----------------------------------------------------------------------------
(* The agent in its worktree, the remote and the machine.                  *)

\* A step that leaves the book and the queue, and adds no worktree.
LEMMA OutsideInv ==
  ASSUME IInv, UNCHANGED <<book, queue, poll>>, ShownTyped', TreeTyped', BranchTyped', BranchOK', Pushed,
         \A s \in Slugs : tree'[s].there => tree[s].there
  PROVE  IInv'
<1>1. FewerUnfinished
  BY DEF FewerUnfinished, Unfinished
<1>2. QueueOK' /\ HeadKept
  BY SameQueue DEF IInv, Typed
<1>3. LockOK'
  BY <1>1, <1>2, LockKept DEF IInv
<1>4. ActiveIsUnfinished'
  BY <1>1 DEF IInv, ActiveIsUnfinished, FewerUnfinished
<1> QED
  BY <1>2, <1>3, <1>4 DEF IInv, Typed, BookTyped, PollTyped

LEMMA WorktreeInv ==
  ASSUME IInv, NEW s \in Slugs, Works(s) \/ RemovedByHand(s)
  PROVE  IInv'
<1>1. UNCHANGED <<book, queue, poll, branch, watching, linked>>
  BY DEF Works, RemovedByHand, shown
<1>2. PICK r \in [there : BOOLEAN, dirty : BOOLEAN] : tree' = [tree EXCEPT ![s] = r] /\ tree[s].there
  <2>1. CASE Works(s)
    <3> DEFINE r == [tree[s] EXCEPT !.dirty = TRUE]
    <3>1. r \in [there : BOOLEAN, dirty : BOOLEAN]
      BY DEF IInv, Typed, TreeTyped
    <3> QED
      BY <2>1, <3>1 DEF Works
  <2>2. CASE RemovedByHand(s)
    BY <2>2 DEF RemovedByHand, NoTree
  <2> QED
    BY <2>1, <2>2
<1>3. TreeTyped' /\ \A u \in Slugs : tree'[u].there => tree[u].there
  BY <1>2 DEF IInv, Typed, TreeTyped
<1>4. BranchTyped' /\ BranchOK' /\ Pushed
  BY <1>1 DEF IInv, Typed, BranchTyped, BranchOK, Pushed
<1> QED
  BY <1>1, <1>3, <1>4, OutsideInv DEF IInv, Typed, ShownTyped

LEMMA CommitsInv == ASSUME IInv, NEW s \in Slugs, Commits(s) PROVE IInv'
<1>1. /\ UNCHANGED <<book, queue, poll, watching, linked>>
      /\ tree' = [tree EXCEPT ![s].dirty = FALSE]
      /\ branch' = [branch EXCEPT ![s].made = @ + 1]
  BY DEF Commits, shown
<1>2. TreeTyped' /\ \A u \in Slugs : tree'[u].there => tree[u].there
  BY <1>1 DEF IInv, Typed, TreeTyped
<1>3. BranchTyped'
  BY <1>1 DEF IInv, Typed, BranchTyped
<1>4. BranchOK' /\ Pushed
  BY <1>1 DEF IInv, Typed, BranchTyped, BranchOK, Pushed
<1> QED
  BY <1>1, <1>2, <1>3, <1>4, OutsideInv DEF IInv, Typed, ShownTyped

\* The remote: a push, or a merge, which takes no pushed commit back.
LEMMA RemoteInv == ASSUME IInv, NEW s \in Slugs, Pushes(s) \/ Merges(s) PROVE IInv'
<1>1. UNCHANGED <<book, queue, poll, watching, linked, tree>>
  BY DEF Pushes, Merges, shown
<1>2. /\ branch[s].made \in Int /\ branch[s].pushed \in Int /\ branch[s].merged \in Int
      /\ 0 <= branch[s].merged /\ branch[s].merged <= branch[s].pushed
      /\ branch[s].pushed <= branch[s].made
  BY DEF IInv, Typed, BranchTyped, BranchOK
<1>3. BranchTyped' /\ BranchOK' /\ Pushed
  <2>1. CASE Pushes(s)
    <3>1. branch' = [branch EXCEPT ![s].pushed = branch[s].made, ![s].remote = TRUE]
      BY <2>1 DEF Pushes
    <3>2. BranchTyped'
      BY <1>2, <3>1 DEF IInv, Typed, BranchTyped
    <3>3. /\ branch'[s].pushed = branch[s].made /\ branch'[s].made = branch[s].made
          /\ branch'[s].merged = branch[s].merged
          /\ \A u \in Slugs : u # s => branch'[u] = branch[u]
      BY <3>1 DEF IInv, Typed, BranchTyped
    <3> QED
      BY <1>2, <3>2, <3>3 DEF IInv, Typed, BranchTyped, BranchOK, Pushed
  <2>2. CASE Merges(s)
    <3>1. PICK stays \in BOOLEAN :
            branch' = [branch EXCEPT ![s].merged = branch[s].pushed, ![s].remote = stays]
      BY <2>2 DEF Merges
    <3>2. BranchTyped'
      BY <1>2, <3>1 DEF IInv, Typed, BranchTyped
    <3>3. /\ branch'[s].merged = branch[s].pushed /\ branch'[s].made = branch[s].made
          /\ branch'[s].pushed = branch[s].pushed
          /\ \A u \in Slugs : u # s => branch'[u] = branch[u]
      BY <3>1 DEF IInv, Typed, BranchTyped
    <3> QED
      BY <1>2, <3>2, <3>3 DEF IInv, Typed, BranchTyped, BranchOK, Pushed
  <2> QED
    BY <2>1, <2>2
<1>4. TreeTyped' /\ \A u \in Slugs : tree'[u].there => tree[u].there
  BY <1>1 DEF IInv, Typed, TreeTyped
<1> QED
  BY <1>1, <1>3, <1>4, OutsideInv DEF IInv, Typed, ShownTyped

LEMMA DropsInv == ASSUME IInv, Drops PROVE IInv'
<1>1. UNCHANGED <<book, queue, poll, tree, branch>> /\ ShownTyped'
  BY DEF Drops, disk, IInv, Typed, ShownTyped
<1>2. TreeTyped' /\ BranchTyped' /\ BranchOK' /\ Pushed
  BY <1>1 DEF IInv, Typed, TreeTyped, BranchTyped, BranchOK, Pushed
<1> QED
  BY <1>1, <1>2, OutsideInv

LEMMA RejoinsInv == ASSUME IInv, Rejoins PROVE IInv'
<1>1. book' = ReadBook /\ UNCHANGED <<tree, branch, queue, poll>> /\ ShownTyped'
  BY DEF Rejoins, IInv, Typed, ShownTyped
<1>2. /\ BookTyped' /\ TreeTyped' /\ BranchTyped' /\ BranchOK' /\ Pushed
      /\ ActiveIsUnfinished' /\ FewerUnfinished
  BY <1>1, BookRead
<1>3. QueueOK' /\ HeadKept
  BY <1>1, <1>2, SameQueue DEF IInv, Typed
<1>4. LockOK'
  BY <1>2, <1>3, LockKept DEF IInv
<1> QED
  BY <1>1, <1>2, <1>3, <1>4 DEF IInv, Typed, PollTyped

\* Killed in the middle of anything: nobody has the lock, and the book is that
\* of before or after.
LEMMA RestartsInv == ASSUME IInv, Restarts PROVE IInv'
<1>1. /\ book' = ReadBook /\ UNCHANGED <<tree, branch>> /\ queue' = <<>> /\ poll' = NoPoll
      /\ ShownTyped'
  BY DEF Restarts, ShownTyped
<1>2. /\ BookTyped' /\ TreeTyped' /\ BranchTyped' /\ BranchOK' /\ Pushed
      /\ ActiveIsUnfinished' /\ FewerUnfinished
  BY <1>1, BookRead
<1>3. QueueOK' /\ HeadKept
  BY <1>1 DEF QueueOK, QueueTyped, OthersWait, Delivered, HeadKept
<1>4. LockOK'
  BY <1>2, <1>3, LockKept DEF IInv
<1> QED
  BY <1>1, <1>2, <1>3, <1>4 DEF IInv, Typed, PollTyped

-----------------------------------------------------------------------------
LEMMA InitInv == Init => IInv
<1> SUFFICES ASSUME Init PROVE IInv
  OBVIOUS
<1>1. Typed
  <2>1. Unknown \in Task
    BY DEF Unknown, Task, Outcomes
  <2>2. BookTyped
    BY <2>1 DEF Init, BookTyped
  <2>3. TreeTyped /\ BranchTyped
    BY DEF Init, TreeTyped, BranchTyped, NoTree, NoBranch
  <2> QED
    BY <2>2, <2>3 DEF Init, Typed, PollTyped, ShownTyped
<1>2. BranchOK
  BY DEF Init, BranchOK, NoBranch
<1>3. QueueOK /\ LockOK
  BY DEF Init, QueueOK, QueueTyped, OthersWait, Delivered, LockOK
<1>4. ActiveIsUnfinished
  BY DEF Init, ActiveIsUnfinished, Unfinished, Unknown
<1> QED
  BY <1>1, <1>2, <1>3, <1>4 DEF IInv

LEMMA StepInv == IInv /\ [Next]_vars => IInv'
<1> SUFFICES ASSUME IInv, [Next]_vars PROVE IInv'
  OBVIOUS
<1>1. CASE Asks(Begin) \/ Asks(End(None))
  BY <1>1, AsksInv
<1>2. ASSUME NEW i \in 1 .. Len(queue), Op(i) \/ Fails(i) PROVE IInv'
  BY <1>2, OverInv, BeginsInv, CutsInv, RecordsInv, JudgesInv, RemovesInv, EndsInv DEF Op
<1>3. CASE Looks \/ HearsNothing \/ Hears
  BY <1>3, LooksInv, HearsNothingInv, HearsInv
<1>4. ASSUME NEW s \in Slugs, Agent(s) \/ Merges(s) \/ RemovedByHand(s) PROVE IInv'
  BY <1>4, WorktreeInv, CommitsInv, RemoteInv DEF Agent
<1>5. CASE Drops \/ Rejoins \/ Restarts
  BY <1>5, DropsInv, RejoinsInv, RestartsInv
<1>6. CASE UNCHANGED vars
  <2>1. UNCHANGED <<book, queue, poll, tree, branch>> /\ ShownTyped'
    BY <1>6 DEF vars, IInv, Typed, ShownTyped
  <2>2. TreeTyped' /\ BranchTyped' /\ BranchOK' /\ Pushed
    BY <2>1 DEF IInv, Typed, TreeTyped, BranchTyped, BranchOK, Pushed
  <2> QED
    BY <2>1, <2>2, OutsideInv
<1> QED
  BY <1>1, <1>2, <1>3, <1>4, <1>5, <1>6 DEF Next

LEMMA Invariance == Spec => []IInv
BY InitInv, StepInv, PTL DEF Spec

\* One at a time: however begins and ends, the poll's among them, overlap and
\* the harness dies between their steps, one worktree at most is an unfinished
\* task's (beginTask, endTask, #serialised).
THEOREM TasksAreOneAtATime == Spec => []OneAtATime
<1>1. IInv => OneAtATime
  BY DEF IInv, ActiveIsUnfinished, OneAtATime
<1> QED
  BY <1>1, Invariance, PTL

\* A worktree judged fit to be removed had no commit that is not on the remote
\* or in its own merged pull request (worktreeState, cleanupDecision).
THEOREM RemovalIsOfTheDelivered == Spec => []RemovesOnlyDelivered
<1>1. IInv => RemovesOnlyDelivered
  BY DEF IInv, QueueOK, QueueTyped, Delivered, RemovesOnlyDelivered
<1> QED
  BY <1>1, Invariance, PTL

\* Whatever the order of operations, the book, the disk and the lock hold what
\* the code can have put there.
THEOREM TasksAreTyped == Spec => []TypeOK
<1>1. IInv => TypeOK
  <2> SUFFICES ASSUME IInv PROVE TypeOK
    OBVIOUS
  <2>1. \A i \in DOMAIN queue : queue[i].at \in {"asked", "fetched", "cut", "removing", "ending"}
    BY DEF IInv, QueueOK, QueueTyped, Ops, Asked, Cutting, Ending
  <2>2. /\ book.active \in Slugs \cup {None}
        /\ book.tasks \in [Slugs -> [is : Outcomes, pr : {"none", "open", "merged"}]]
    BY DEF IInv, Typed, BookTyped, Task
  <2> QED
    BY <2>1, <2>2 DEF IInv, Typed, TreeTyped, ShownTyped, BranchOK, TypeOK
<1> QED
  BY <1>1, Invariance, PTL

-----------------------------------------------------------------------------
(* The card in the office.                                                 *)

\* The active task is one that was begun, and so is whatever the card shows.
ActiveIsBegun == book.active # None => book.tasks[book.active].is = "begun"
CardTyped == card # NoTask => card.slug \in Slugs
CardOK == ActiveIsBegun /\ CardTyped /\ CardShowsTask

\* No worktree of a begun task comes out of nothing.
NoneAppears == \A s \in Slugs : book.tasks[s].is = "begun" /\ tree'[s].there => tree[s].there

\* Whatever neither writes the book nor publishes leaves the card right.
LEMMA SameCard ==
  ASSUME IInv, CardOK, UNCHANGED <<card, linked>>, book' = ReadBook \/ UNCHANGED book, NoneAppears
  PROVE  CardOK'
<1>1. /\ book.active \in Slugs \cup {None} /\ None \notin Slugs
      /\ Active = IF book.active # None /\ tree[book.active].there THEN book.active ELSE None
      /\ Active' = IF book'.active # None /\ tree'[book'.active].there THEN book'.active ELSE None
  BY DEF IInv, Typed, BookTyped, Active, None, Slugs
<1>2. book'.tasks = book.tasks /\ book'.active \in {book.active, Active}
  BY ReadingOK DEF IInv, Typed
<1>3. book'.active \in {book.active, None}
  BY <1>1, <1>2
<1>4. ActiveIsBegun'
  BY <1>2, <1>3 DEF CardOK, ActiveIsBegun
<1>5. Active' # None => Active' = Active
  <2> SUFFICES ASSUME Active' # None PROVE Active' = Active
    OBVIOUS
  <2>1. Active' = book'.active /\ book'.active # None /\ tree'[book'.active].there
    BY <1>1
  <2>2. book'.active = book.active /\ book.active \in Slugs
    BY <1>1, <1>3, <2>1
  <2>3. tree[book.active].there
    BY <2>1, <2>2 DEF NoneAppears, CardOK, ActiveIsBegun
  <2> QED BY <1>1, <2>1, <2>2, <2>3
<1>6. CardTyped'
  BY DEF CardOK, CardTyped
<1>7. CardShowsTask'
  BY <1>2, <1>5 DEF CardOK, CardShowsTask, ForOffice
<1> QED BY <1>4, <1>6, <1>7 DEF CardOK

\* A card that is published shows the active task, which was begun.
LEMMA PublishedCard ==
  ASSUME book'.active \in Slugs \cup {None}, ActiveIsBegun',
         linked' => card' = ForOffice(Active, book.tasks)', ~linked' => card' \in {card, NoTask}, CardTyped
  PROVE  CardOK'
<1>1. Active' \in {book'.active, None}
  BY DEF Active
<1>2. None \notin Slugs
  BY DEF None, Slugs
<1>3. CASE Active' = None
  <2>1. linked' => card' = NoTask
    BY <1>3 DEF ForOffice
  <2>2. CardTyped'
    BY <2>1 DEF CardTyped
  <2> QED BY <1>3, <2>1, <2>2 DEF CardOK, CardShowsTask
<1>4. CASE Active' # None
  <2>1. Active' = book'.active /\ book'.active \in Slugs
    BY <1>1, <1>4
  <2>2. linked' => card' = [slug |-> book'.active, pr |-> book'.tasks[book'.active].pr]
    BY <1>4, <2>1 DEF ForOffice
  <2>3. linked' => card'.slug = book'.active
    BY <2>2
  <2>4. CardTyped'
    BY <2>1, <2>3 DEF CardTyped
  <2>5. linked' => book'.tasks[card'.slug].is = "begun"
    BY <1>4, <2>1, <2>3 DEF ActiveIsBegun
  <2> QED BY <1>4, <2>4, <2>5 DEF CardOK, CardShowsTask
<1> QED BY <1>3, <1>4

LEMMA RecordsCard == ASSUME IInv, CardOK, NEW i, Records(i) PROVE CardOK'
<1>1. i = 1 /\ queue # <<>> /\ queue[1] \in Ops /\ queue[1].at = "cut"
  BY HeadIsAnOp DEF Records
<1> DEFINE s == queue[1].slug
           tasks == queue[1].read
<1>2. s \in Slugs /\ tasks \in [Slugs -> Task]
  BY <1>1 DEF Ops, Asked, Cutting, Ending
<1>3. /\ book' = [active |-> s, tasks |-> [tasks EXCEPT ![s] = Begun]]
      /\ card' = IF linked THEN ForOffice(s, book'.tasks) ELSE card
      /\ UNCHANGED <<tree, linked>>
  BY <1>1 DEF Records, Published
<1> HIDE DEF s, tasks
<1>4. book'.active = s /\ book'.tasks[s] = Begun
  BY <1>2, <1>3
<1>5. s # None
  BY <1>2 DEF None, Slugs
<1>6. ForOffice(s, book'.tasks) = [slug |-> s, pr |-> "none"]
  BY <1>4, <1>5 DEF ForOffice, Begun
<1>7. ActiveIsBegun'
  BY <1>4 DEF ActiveIsBegun, Begun
<1>8. CardTyped'
  BY <1>2, <1>3, <1>6 DEF CardOK, CardTyped
<1>9. Active' \in {s, None}
  BY <1>4 DEF Active
<1>10. CardShowsTask'
  BY <1>3, <1>4, <1>6, <1>9 DEF CardShowsTask, Begun
<1> QED BY <1>7, <1>8, <1>10 DEF CardOK

LEMMA EndsCard == ASSUME IInv, CardOK, NEW i, Ends(i) PROVE CardOK'
<1>1. book'.active = None /\ card' = Published(NoTask) /\ UNCHANGED linked
  BY DEF Ends
<1>2. Active' = None
  BY <1>1 DEF Active
<1> QED BY <1>1, <1>2 DEF CardOK, ActiveIsBegun, CardTyped, CardShowsTask, Published

\* What a poll hears goes on the card of the task that is still the one.
LEMMA HearsCard == ASSUME IInv, CardOK, Hears PROVE CardOK'
<1> DEFINE s == poll.slug
           pr == PrState(s)
           noted == pr # poll.pr /\ book.tasks[s] # Unknown
<1>1. /\ book' = IF noted THEN [ReadBook EXCEPT !.tasks[s].pr = pr] ELSE book
      /\ card' = IF noted /\ StillTheTask(s) THEN Published(ForOffice(s, book'.tasks)) ELSE card
      /\ UNCHANGED <<tree, linked>> /\ s \in Slugs
  BY DEF Hears, IInv, Typed, PollTyped
<1> HIDE DEF s, pr, noted
<1>2. CASE ~noted
  BY <1>1, <1>2, SameCard DEF NoneAppears
<1>3. CASE noted
  <2>1. /\ ReadBook.active = Active /\ ReadBook.tasks = book.tasks
        /\ book.tasks \in [Slugs -> Task] /\ Active \in Slugs \cup {None} /\ None \notin Slugs
        /\ ReadBook \in [active : Slugs \cup {None}, tasks : [Slugs -> Task]]
    BY ReadingOK DEF IInv, Typed, BookTyped, None, Slugs
  <2>2. book' = [ReadBook EXCEPT !.tasks[s].pr = pr]
    BY <1>1, <1>3
  <2>3. book'.active = Active /\ book'.tasks = [book.tasks EXCEPT ![s].pr = pr]
    BY <2>1, <2>2
  <2>4. /\ \A u \in Slugs : book'.tasks[u].is = book.tasks[u].is
        /\ \A u \in Slugs \ {s} : book'.tasks[u] = book.tasks[u]
    BY <1>1, <2>1, <2>3 DEF Task
  <2>5. Active' = Active /\ (Active # None => Active = book.active)
    BY <1>1, <2>3 DEF Active
  <2>6. ActiveIsBegun'
    BY <2>1, <2>3, <2>4, <2>5 DEF CardOK, ActiveIsBegun
  <2>7. CASE Active = s
    <3>1. card' = Published(ForOffice(s, book'.tasks))
      BY <1>1, <1>3, <2>1, <2>7 DEF StillTheTask
    <3>2. /\ linked' => card' = ForOffice(Active', book'.tasks)
          /\ ~linked' => card' = card
      BY <1>1, <2>5, <2>7, <3>1 DEF Published
    <3> QED BY <2>1, <2>3, <2>6, <3>2, PublishedCard DEF CardOK
  <2>8. CASE Active # s
    <3>1. card' = card
      BY <1>1, <2>1, <2>8 DEF StillTheTask
    <3>2. CardTyped'
      BY <3>1 DEF CardOK, CardTyped
    <3>3. Active # None => ForOffice(Active, book.tasks)' = ForOffice(Active, book.tasks)
      BY <2>1, <2>4, <2>5, <2>8 DEF ForOffice
    <3>4. card # NoTask => book'.tasks[card.slug].is = book.tasks[card.slug].is
      BY <2>4 DEF CardOK, CardTyped
    <3>5. CardShowsTask'
      BY <1>1, <2>5, <3>1, <3>3, <3>4 DEF CardOK, CardShowsTask
    <3> QED BY <2>6, <3>2, <3>5 DEF CardOK
  <2> QED BY <2>7, <2>8
<1> QED BY <1>2, <1>3

\* A socket that is back, and a harness that is, publish what the book says.
LEMMA BackCard == ASSUME IInv, CardOK, Rejoins \/ Restarts PROVE CardOK'
<1>1. /\ book' = ReadBook /\ UNCHANGED tree /\ linked'
      /\ card' = ForOffice(Active, book.tasks)
  BY DEF Rejoins, Restarts, ToldOnRejoin
<1>2. /\ ReadBook.active = Active /\ ReadBook.tasks = book.tasks
      /\ Active \in Slugs \cup {None} /\ Active \in {book.active, None}
  BY ReadingOK DEF IInv, Typed, Active
<1>3. Active' = Active
  BY <1>1, <1>2 DEF Active
<1>4. ActiveIsBegun'
  BY <1>1, <1>2 DEF CardOK, ActiveIsBegun
<1> QED BY <1>1, <1>2, <1>3, <1>4, PublishedCard DEF CardOK

LEMMA DropsCard == ASSUME IInv, CardOK, Drops PROVE CardOK'
BY DEF Drops, disk, CardOK, ActiveIsBegun, CardTyped, CardShowsTask

\* A worktree is cut for a name the book has no record of, under the lock.
LEMMA CutsCard == ASSUME IInv, CardOK, NEW i, Cuts(i) PROVE CardOK'
<1>1. UNCHANGED <<book, card, linked>>
  BY DEF Cuts, shown
<1>2. PICK s \in Slugs : Free(s) /\ (UNCHANGED tree \/ tree' = [tree EXCEPT ![s].there = TRUE])
  BY DEF Cuts
<1>3. book.tasks[s].is # "begun"
  <2>1. book.tasks[s] = Unknown
    BY <1>2 DEF Free
  <2>2. Unknown.is = "no record"
    BY DEF Unknown
  <2> QED BY <2>1, <2>2
<1>4. NoneAppears
  BY <1>2, <1>3 DEF NoneAppears, IInv, Typed, TreeTyped
<1> QED BY <1>1, <1>4, SameCard

LEMMA CardStep == IInv /\ CardOK /\ [Next]_vars => CardOK'
<1> SUFFICES ASSUME IInv, CardOK, [Next]_vars PROVE CardOK'
  OBVIOUS
<1>1. CASE UNCHANGED <<tree, card, linked>> /\ (book' = ReadBook \/ UNCHANGED book)
  BY <1>1, SameCard DEF NoneAppears
<1>2. CASE Asks(Begin) \/ Asks(End(None))
  BY <1>1, <1>2 DEF Asks, disk, shown
<1>3. ASSUME NEW i \in 1 .. Len(queue), Refused(i) \/ Begins(i) \/ Judges(i) \/ Fails(i) PROVE CardOK'
  BY <1>1, <1>3 DEF Refused, Begins, Judges, Fails, disk, shown
<1>4. ASSUME NEW i \in 1 .. Len(queue), Removes(i) PROVE CardOK'
  <2>1. UNCHANGED <<book, card, linked>> /\ tree' = [tree EXCEPT ![queue[i].slug] = NoTree]
    BY <1>4 DEF Removes, shown
  <2>2. NoneAppears
    BY <2>1 DEF NoneAppears, NoTree, IInv, Typed, TreeTyped
  <2> QED BY <2>1, <2>2, SameCard
<1>5. CASE Looks \/ HearsNothing
  BY <1>1, <1>5 DEF Looks, HearsNothing, disk
<1>6. ASSUME NEW s \in Slugs, Agent(s) \/ Merges(s) \/ RemovedByHand(s) PROVE CardOK'
  <2>1. UNCHANGED <<book, card, linked>>
    BY <1>6 DEF Agent, Works, Commits, Pushes, Merges, RemovedByHand, shown
  <2>2. NoneAppears
    BY <1>6 DEF Agent, Works, Commits, Pushes, Merges, RemovedByHand, NoneAppears, NoTree, IInv, Typed, TreeTyped
  <2> QED BY <2>1, <2>2, SameCard
<1>7. CASE UNCHANGED vars
  BY <1>1, <1>7 DEF vars
<1> QED BY <1>2, <1>3, <1>4, <1>5, <1>6, <1>7, CutsCard, RecordsCard, EndsCard, HearsCard,
           DropsCard, BackCard DEF Next, Op

LEMMA CardInit == Init => CardOK
BY DEF Init, CardOK, ActiveIsBegun, CardTyped, CardShowsTask, Active

\* Whatever the socket, the poll and the restarts did, the card of an agent that
\* is online shows its task, with its pull request, and no task that has ended
\* (#publishTask, #reconnect, checkPullRequest).
THEOREM CardsShowTheTask == Spec => []CardShowsTask
<1>1. CardOK => CardShowsTask
  BY DEF CardOK
<1> QED BY <1>1, CardInit, CardStep, InitInv, StepInv, PTL DEF Spec

-----------------------------------------------------------------------------
(* The ledger.                                                             *)

\* A row's link, a row, a note and what is said of a task.
LinkOrNone == Notes \cup {0}
Row == [is : {TRUE}, note : LinkOrNone, pr : PrStates, on : BOOLEAN]
MaybeRow == {NoRow} \cup Row
Statuses == {"open", "in_progress", "done"}
Note == [status : Statuses, whose : {"me", "other", "none"}]
Was == Note \cup [status : {"none"}, whose : {"none"}]
Told == [on : {TRUE}, b : Branches, item : Items, pr : PrStates]
Said == {Nothing} \cup Told

\* A report being taken down, at each of its awaits, and a look at GitHub.
New == [pc : {"new"}, said : Said]
Closing == [pc : {"ending"}]
Found == [pc : {"found"}, said : Told, n : LinkOrNone, was : Was]
Read == [pc : {"read"}, said : Told, n : LinkOrNone, was : Was, saw : MaybeRow]
Noted == [pc : {"noted"}, n : LinkOrNone, was : Was, b : Branches, linked : BOOLEAN,
          merged : BOOLEAN]
Runs == {Idle} \cup New \cup Closing \cup Found \cup Read \cup Noted
Asking == [pc : {"asked"}, b : Branches, n : LinkOrNone, facts : PrStates]
Following == [pc : {"follow"}, n : Notes]
Moving == [pc : {"move"}, n : Notes, was : Statuses]
Looking == {Idle} \cup Asking \cup Following \cup Moving

RowsTyped == rows \in [Branches -> MaybeRow]
NotesTyped == notes \in [Notes -> Note]
HubTyped == hub \in [Branches -> PrStates]
RunsTyped == runs \in [Handlers -> Runs]

LedgerTyped ==
  /\ RowsTyped /\ NotesTyped /\ HubTyped /\ RunsTyped
  /\ task \in Said /\ look \in Looking /\ says \in 0 .. MaxSays /\ moves \in 0 .. MaxMoves

\* Whatever is said of a merge is so, in a report, at a handler's awaits, in a
\* look and in the rows; what they follow is in the ledger.
SaidOfMerge(hs, said) == said.on => (said.pr = "merged" => hs[said.b] = "merged")

RunTrue(rs, hs, r) ==
  /\ r.pc \in {"new", "found", "read"} => SaidOfMerge(hs, r.said)
  /\ r.pc = "read" /\ r.saw.is => rs[r.said.b].is
  /\ r.pc = "noted" => rs[r.b].is /\ (r.merged => hs[r.b] = "merged")

SomeMerged(rs, hs) == \E b \in Branches : rs[b].is /\ hs[b] = "merged"

LookTrue(rs, hs, l) ==
  /\ l.pc = "asked" => rs[l.b].is /\ (l.facts = "merged" => hs[l.b] = "merged")
  /\ l.pc \in {"follow", "move"} => SomeMerged(rs, hs)

LedgerHolds ==
  /\ LedgerTyped /\ MergedIsTrue /\ SaidOfMerge(hub, task) /\ LookTrue(rows, hub, look)
  /\ \A h \in Handlers : RunTrue(rows, hub, runs[h])

\* A row stays; a merge is for good.
RowsStay(rs, rt) == \A b \in Branches : rs[b].is => rt[b].is
MergesStay(hs, ht) == \A b \in Branches : hs[b] = "merged" => ht[b] = "merged"

\* What a handler's place says of its parts.
LEMMA RunParts ==
  ASSUME NEW r \in Runs
  PROVE  /\ r.pc = "new" => r.said \in Said
         /\ r.pc = "found" => r \in Found
         /\ r.pc = "read" => r \in Read
         /\ r.pc = "noted" => r \in Noted
BY DEF Runs, Idle, New, Closing, Found, Read, Noted

\* What a look's place says of its parts.
LEMMA LookParts ==
  ASSUME NEW l \in Looking
  PROVE  /\ l.pc = "asked" => l \in Asking
         /\ l.pc = "follow" => l \in Following
         /\ l.pc = "move" => l \in Moving
BY DEF Looking, Idle, Asking, Following, Moving

\* A finite set of numbers has a greatest: take the least set that has none.
LEMMA FiniteHasGreatest ==
  ASSUME NEW S, IsFiniteSet(S), S \subseteq Nat, S # {}
  PROVE  \E n \in S : \A m \in S : m <= n
<1> DEFINE Bad == {T \in SUBSET S : T # {} /\ ~ \E n \in T : \A m \in T : m <= n}
<1> SUFFICES ASSUME Bad # {} PROVE FALSE
  BY DEF Bad
<1>1. Bad \subseteq FiniteSubsetsOf(S)
  BY FS_Subset DEF FiniteSubsetsOf
<1>2. PICK T \in Bad : \A U \in Bad : ~ (<<U, T>> \in StrictSubsetOrdering(S))
  <2> HIDE DEF Bad
  <2> QED BY <1>1, FS_StrictSubsetOrderingWellFounded, WFMin
<1>3. PICK x \in T : TRUE
  BY <1>2
<1>4. T \ {x} \notin Bad
  BY <1>2, <1>3 DEF StrictSubsetOrdering
<1>5. CASE T \ {x} = {}
  <2>1. x <= x /\ \A m \in T : m = x
    BY <1>3, <1>5
  <2> QED BY <1>2, <1>3, <2>1
<1>6. CASE T \ {x} # {}
  <2>1. PICK y \in T \ {x} : \A m \in T \ {x} : m <= y
    BY <1>4, <1>6
  <2>2. x \in Nat /\ y \in Nat /\ \A m \in T : m \in Nat
    BY <1>2, <1>3
  <2>3. CASE x <= y
    BY <1>2, <2>1, <2>2, <2>3
  <2>4. CASE ~ (x <= y)
    <3>1. \A m \in T : m <= x
      BY <2>1, <2>2, <2>4
    <3> QED BY <1>2, <1>3, <3>1
  <2> QED BY <2>3, <2>4
<1> QED BY <1>5, <1>6

\* The newest note is a note, if there is one.
LEMMA NewestType ==
  ASSUME NEW S \in SUBSET Notes
  PROVE  Newest(S) \in LinkOrNone
<1>1. CASE S = {}
  BY <1>1 DEF Newest, LinkOrNone
<1>2. CASE S # {}
  <2>1. \E n \in S : \A m \in S : m <= n
    BY <1>2, NotesAssumption, FS_Subset, FiniteHasGreatest
  <2> QED BY <1>2, <2>1 DEF Newest, LinkOrNone
<1> QED BY <1>1, <1>2

LEMMA SaidStaysTrue ==
  ASSUME NEW hs, NEW ht, MergesStay(hs, ht), NEW said \in Said, SaidOfMerge(hs, said)
  PROVE  SaidOfMerge(ht, said)
<1>1. CASE said = Nothing
  BY <1>1 DEF SaidOfMerge, Nothing
<1>2. CASE said \in Told
  BY <1>2 DEF Told, MergesStay, SaidOfMerge
<1> QED
  BY <1>1, <1>2 DEF Said

LEMMA RunStaysTrue ==
  ASSUME NEW rs, NEW rt, NEW hs, NEW ht, RowsStay(rs, rt), MergesStay(hs, ht),
         NEW r \in Runs, RunTrue(rs, hs, r)
  PROVE  RunTrue(rt, ht, r)
<1>1. r.pc \in {"new", "found", "read"} => r.said \in Said
  BY DEF Runs, Idle, New, Closing, Found, Read, Noted, Said
<1>2. r.pc \in {"new", "found", "read"} => SaidOfMerge(ht, r.said)
  BY <1>1, SaidStaysTrue DEF RunTrue
<1>3. (r.pc = "noted" => r.b \in Branches) /\ (r.pc = "read" => r.said.b \in Branches)
  BY RunParts DEF Noted, Read, Told
<1> QED
  BY <1>2, <1>3 DEF RunTrue, RowsStay, MergesStay

LEMMA LookStaysTrue ==
  ASSUME NEW rs, NEW rt, NEW hs, NEW ht, RowsStay(rs, rt), MergesStay(hs, ht),
         NEW l \in Looking, LookTrue(rs, hs, l)
  PROVE  LookTrue(rt, ht, l)
<1>1. l.pc = "asked" => l.b \in Branches
  BY DEF Looking, Idle, Asking, Following, Moving
<1> QED
  BY <1>1 DEF LookTrue, SomeMerged, RowsStay, MergesStay

-----------------------------------------------------------------------------
(* The steps, whatever a task says it is for.                              *)

\* A handler's step has to show its own place and the rows.
LEMMA HandlerHolds ==
  ASSUME LedgerHolds, NEW h \in Handlers, NEW r \in Runs, To(h, r),
         RowsTyped', NotesTyped', MergedIsTrue', RowsStay(rows, rows'), RunTrue(rows', hub, r)
  PROVE  LedgerHolds'
<1>1. UNCHANGED <<task, hub, look, says, moves>> /\ MergesStay(hub, hub')
  BY DEF To, counted, MergesStay
<1>2. RunsTyped' /\ runs'[h] = r /\ \A g \in Handlers : g # h => runs'[g] = runs[g]
  BY DEF LedgerHolds, LedgerTyped, RunsTyped, To
<1>3. ASSUME NEW g \in Handlers PROVE RunTrue(rows', hub', runs'[g])
  <2>1. runs[g] \in Runs /\ RunTrue(rows, hub, runs[g])
    BY DEF LedgerHolds, LedgerTyped, RunsTyped
  <2>2. RunTrue(rows', hub', runs[g])
    BY <1>1, <2>1, RunStaysTrue
  <2> QED
    BY <1>1, <1>2, <2>2
<1>4. LookTrue(rows', hub', look')
  BY <1>1, LookStaysTrue DEF LedgerHolds, LedgerTyped
<1> QED
  BY <1>1, <1>2, <1>3, <1>4 DEF LedgerHolds, LedgerTyped, HubTyped

\* So has a step of the look.
LEMMA LookHolds ==
  ASSUME LedgerHolds, NEW l \in Looking, LookTo(l),
         RowsTyped', NotesTyped', MergedIsTrue', RowsStay(rows, rows'), LookTrue(rows', hub, l)
  PROVE  LedgerHolds'
<1>1. UNCHANGED <<task, hub, runs, says, moves>> /\ look' = l /\ MergesStay(hub, hub')
  BY DEF LookTo, counted, MergesStay
<1>2. ASSUME NEW g \in Handlers PROVE RunTrue(rows', hub', runs'[g])
  BY <1>1, RunStaysTrue DEF LedgerHolds, LedgerTyped, RunsTyped
<1> QED
  BY <1>1, <1>2 DEF LedgerHolds, LedgerTyped, HubTyped, RunsTyped

\* The rows are as they were.
LEMMA SameRowsHold ==
  ASSUME LedgerHolds, UNCHANGED rows, MergesStay(hub, hub')
  PROVE  RowsTyped' /\ MergedIsTrue' /\ RowsStay(rows, rows')
BY DEF LedgerHolds, LedgerTyped, RowsTyped, MergedIsTrue, RowsStay, MergesStay

\* One row is put in, true to GitHub.
LEMMA PutHolds ==
  ASSUME LedgerHolds, NEW b \in Branches, NEW row \in Row, UNCHANGED hub,
         row.pr = "merged" => hub[b] = "merged", rows' = [rows EXCEPT ![b] = row]
  PROVE  RowsTyped' /\ MergedIsTrue' /\ RowsStay(rows, rows') /\ rows'[b] = row
<1>1. rows' \in [Branches -> MaybeRow] /\ \A c \in Branches : rows'[c] = IF c = b THEN row ELSE rows[c]
  BY DEF LedgerHolds, LedgerTyped, RowsTyped, MaybeRow
<1>2. row.is
  BY DEF Row
<1> QED
  BY <1>1, <1>2 DEF LedgerHolds, RowsTyped, MergedIsTrue, RowsStay

LEMMA SaysHolds ==
  ASSUME LedgerHolds, NEW next \in Said, SaidOfMerge(hub, next), Says(next)
  PROVE  LedgerHolds'
<1>1. PICK h \in Handlers : runs' = [runs EXCEPT ![h] = [pc |-> "new", said |-> next]]
  BY DEF Says, Report
<1>2. UNCHANGED <<hub, rows, notes, look, moves>> /\ task' = next /\ says' \in 0 .. MaxSays
  BY LedgerBoundsAssumption DEF Says, Report, LedgerHolds, LedgerTyped
<1> DEFINE r == [pc |-> "new", said |-> next]
<1>3. r \in Runs /\ RunTrue(rows, hub, r)
  BY DEF Runs, New, RunTrue
<1>4. RunsTyped' /\ \A g \in Handlers : runs'[g] = IF g = h THEN r ELSE runs[g]
  BY <1>1, <1>3 DEF LedgerHolds, LedgerTyped, RunsTyped
<1>5. \A g \in Handlers : RunTrue(rows, hub, runs'[g])
  BY <1>3, <1>4 DEF LedgerHolds
<1> QED
  BY <1>2, <1>4, <1>5 DEF LedgerHolds, LedgerTyped, RowsTyped, NotesTyped, HubTyped, MergedIsTrue

LEMMA HarnessHolds ==
  ASSUME LedgerHolds, BeginsTask \/ HearsPull \/ LeavesTask
  PROVE  LedgerHolds'
<1> SUFFICES \E next \in Said : SaidOfMerge(hub, next) /\ Says(next)
  BY SaysHolds
<1> USE DEF LedgerHolds, LedgerTyped, HubTyped
<1>1. CASE BeginsTask
  <2>1. PICK b \in Branches, i \in Items : Says([on |-> TRUE, b |-> b, item |-> i, pr |-> hub[b]])
    BY <1>1 DEF BeginsTask
  <2> DEFINE next == [on |-> TRUE, b |-> b, item |-> i, pr |-> hub[b]]
  <2>2. next \in Said
    BY NotesAssumption DEF Said, Told, LinkOrNone
  <2>3. SaidOfMerge(hub, next)
    BY DEF SaidOfMerge
  <2> QED
    BY <2>1, <2>2, <2>3
<1>2. CASE HearsPull
  <2> DEFINE next == [task EXCEPT !.pr = hub[task.b]]
  <2>1. task \in Told /\ Says(next)
    BY <1>2 DEF HearsPull, Said, Nothing
  <2>2. next \in Said /\ next.b = task.b /\ next.pr = hub[task.b]
    BY <2>1 DEF Said, Told
  <2> QED
    BY <2>1, <2>2 DEF SaidOfMerge
<1>3. CASE LeavesTask
  BY <1>3 DEF LeavesTask, Said, SaidOfMerge, Nothing
<1> QED
  BY <1>1, <1>2, <1>3

LEMMA WorldHolds ==
  ASSUME LedgerHolds, (\E b \in Branches : PullMoves(b)) \/ (\E n \in Notes : PersonMoves(n))
  PROVE  LedgerHolds'
<1>1. UNCHANGED <<task, rows, runs, look, says>> /\ HubTyped' /\ NotesTyped'
  BY DEF LedgerHolds, LedgerTyped, HubTyped, NotesTyped, PullMoves, PersonMoves, PrStates,
         Note, Statuses, counted
<1>2. moves' \in 0 .. MaxMoves
  BY LedgerBoundsAssumption DEF LedgerHolds, LedgerTyped, PullMoves, PersonMoves, counted
<1>3. MergesStay(hub, hub')
  BY DEF LedgerHolds, LedgerTyped, HubTyped, PullMoves, PersonMoves, MergesStay
<1>4. RowsTyped' /\ MergedIsTrue' /\ RowsStay(rows, rows')
  BY <1>1, <1>3, SameRowsHold
<1>5. SaidOfMerge(hub', task')
  BY <1>1, <1>3, SaidStaysTrue DEF LedgerHolds, LedgerTyped
<1>6. LookTrue(rows', hub', look')
  BY <1>1, <1>3, <1>4, LookStaysTrue DEF LedgerHolds, LedgerTyped
<1>7. ASSUME NEW g \in Handlers PROVE RunTrue(rows', hub', runs'[g])
  BY <1>1, <1>3, <1>4, RunStaysTrue DEF LedgerHolds, LedgerTyped, RunsTyped
<1> QED
  BY <1>1, <1>2, <1>4, <1>5, <1>6, <1>7 DEF LedgerHolds, LedgerTyped, RunsTyped

LEMMA EndsHold ==
  ASSUME LedgerHolds, NEW h \in Handlers, FindsActive(h) \/ EndsActive(h)
  PROVE  LedgerHolds'
<1>1. CASE FindsActive(h)
  <2> DEFINE r == IF Ongoing = {} THEN Idle ELSE [pc |-> "ending"]
  <2>1. r \in Runs /\ RunTrue(rows', hub, r)
    BY DEF Runs, Idle, Closing, RunTrue
  <2>2. To(h, r) /\ UNCHANGED <<rows, notes>> /\ MergesStay(hub, hub')
    BY <1>1 DEF FindsActive, To, MergesStay
  <2> QED
    BY <2>1, <2>2, SameRowsHold, HandlerHolds DEF LedgerHolds, LedgerTyped, NotesTyped
<1>2. CASE EndsActive(h)
  <2>1. Idle \in Runs /\ RunTrue(rows', hub, Idle) /\ To(h, Idle) /\ NotesTyped' /\ hub' = hub
    BY <1>2 DEF EndsActive, LedgerHolds, LedgerTyped, NotesTyped, Runs, Idle, RunTrue, To
  <2>2. rows' = [b \in Branches |-> IF b \in Ongoing THEN [rows[b] EXCEPT !.on = FALSE] ELSE rows[b]]
    BY <1>2 DEF EndsActive
  <2>3. ASSUME NEW b \in Branches
        PROVE  /\ rows'[b] \in MaybeRow /\ (rows'[b].is <=> rows[b].is)
               /\ rows[b].is => rows'[b].pr = rows[b].pr
    <3>1. rows[b] \in MaybeRow /\ (b \in Ongoing => rows[b] \in Row)
      BY DEF LedgerHolds, LedgerTyped, RowsTyped, MaybeRow, NoRow, Ongoing
    <3> QED
      BY <2>2, <3>1 DEF MaybeRow, Row
  <2>4. RowsTyped' /\ MergedIsTrue' /\ RowsStay(rows, rows')
    BY <2>1, <2>2, <2>3 DEF RowsTyped, LedgerHolds, MergedIsTrue, RowsStay
  <2> QED
    BY <2>1, <2>4, HandlerHolds
<1> QED
  BY <1>1, <1>2

LEMMA FindsHolds ==
  ASSUME LedgerHolds, NEW h \in Handlers, FindsNote(h)
  PROVE  LedgerHolds'
<1> DEFINE said == runs[h].said
           n == NoteForTask(Wanted(said))
           was == IF n = 0 THEN [status |-> "none", whose |-> "none"] ELSE notes[n]
           r == [pc |-> "found", said |-> said, n |-> n, was |-> was]
<1>1. said \in Told /\ SaidOfMerge(hub, said)
  <2>1. runs[h] \in Runs /\ runs[h].pc = "new" /\ said.on /\ RunTrue(rows, hub, runs[h])
    BY DEF LedgerHolds, LedgerTyped, RunsTyped, FindsNote, At
  <2>2. said \in Said
    BY <2>1, RunParts
  <2> QED
    BY <2>1, <2>2 DEF Said, Nothing, RunTrue
<1>2. Newest(Unlinked) \in LinkOrNone
  BY NewestType DEF Unlinked
<1>3. n \in LinkOrNone
  BY <1>1, <1>2, NotesAssumption DEF Wanted, NoteForTask, Told, LinkOrNone
<1>4. was \in Was
  BY <1>3 DEF LedgerHolds, LedgerTyped, NotesTyped, Was, LinkOrNone
<1>5. r \in Runs /\ RunTrue(rows', hub, r)
  BY <1>1, <1>3, <1>4 DEF Runs, Found, RunTrue
<1>6. To(h, r) /\ UNCHANGED <<rows, notes>> /\ MergesStay(hub, hub')
  BY DEF FindsNote, To, MergesStay
<1> QED
  BY <1>5, <1>6, SameRowsHold, HandlerHolds DEF LedgerHolds, LedgerTyped, NotesTyped

LEMMA ReadsHolds ==
  ASSUME LedgerHolds, NEW h \in Handlers, ReadsRow(h)
  PROVE  LedgerHolds'
<1>1. runs[h] \in Found /\ RunTrue(rows, hub, runs[h]) /\ runs[h].pc = "found"
  BY RunParts DEF LedgerHolds, LedgerTyped, RunsTyped, ReadsRow, At
<1> DEFINE r == [pc |-> "read", said |-> runs[h].said, n |-> runs[h].n, was |-> runs[h].was,
                 saw |-> rows[runs[h].said.b]]
<1>2. rows[runs[h].said.b] \in MaybeRow
  BY <1>1 DEF Found, Told, LedgerHolds, LedgerTyped, RowsTyped
<1>3. To(h, r) /\ UNCHANGED <<rows, notes>> /\ MergesStay(hub, hub')
  BY DEF ReadsRow, To, MergesStay
<1>4. r \in Runs
  BY <1>1, <1>2 DEF Runs, Found, Read
<1>5. RunTrue(rows', hub, r)
  BY <1>1, <1>3 DEF RunTrue
<1> QED
  BY <1>3, <1>4, <1>5, SameRowsHold, HandlerHolds DEF LedgerHolds, LedgerTyped, NotesTyped

\* A handler that has written the row of what was said goes on with what it heard.
LEMMA HeardHolds ==
  ASSUME LedgerHolds, NEW h \in Handlers, runs[h] \in Read, RunTrue(rows, hub, runs[h]),
         NEW isLinked \in BOOLEAN, NEW merged \in BOOLEAN, Heard(h, isLinked, merged),
         merged => runs[h].said.pr = "merged", NotesTyped',
         NEW link \in LinkOrNone,
         rows' = [rows EXCEPT ![runs[h].said.b] =
                    [is |-> TRUE, note |-> link, pr |-> runs[h].said.pr, on |-> TRUE]]
  PROVE  LedgerHolds'
<1> DEFINE r == [pc |-> "noted", n |-> runs[h].n, was |-> runs[h].was, b |-> runs[h].said.b,
                 linked |-> isLinked, merged |-> merged]
           row == [is |-> TRUE, note |-> link, pr |-> runs[h].said.pr, on |-> TRUE]
<1>1. To(h, r) /\ UNCHANGED hub
  BY DEF Heard, To
<1>2. r \in Runs
  BY DEF Runs, Read, Noted, Told
<1>3. row \in Row /\ runs[h].said.b \in Branches
  BY DEF Read, Told, Row
<1>4. runs[h].said.pr = "merged" => hub[runs[h].said.b] = "merged"
  BY DEF Read, Told, RunTrue, SaidOfMerge
<1>5. RowsTyped' /\ MergedIsTrue' /\ RowsStay(rows, rows') /\ rows'[runs[h].said.b] = row
  BY <1>1, <1>3, <1>4, PutHolds
<1>6. RunTrue(rows', hub, r)
  BY <1>4, <1>5 DEF RunTrue
<1> QED
  BY <1>1, <1>2, <1>5, <1>6, HandlerHolds

LEMMA WritesHold ==
  ASSUME LedgerHolds, NEW h \in Handlers, Inserts(h) \/ Updates(h)
  PROVE  LedgerHolds'
<1> DEFINE said == runs[h].said  n == runs[h].n  saw == runs[h].saw
<1>1. runs[h] \in Read /\ RunTrue(rows, hub, runs[h]) /\ NotesTyped'
  BY RunParts DEF LedgerHolds, LedgerTyped, RunsTyped, NotesTyped, Inserts, Updates, At
<1>2. said.b \in Branches /\ n \in LinkOrNone /\ rows[said.b] \in MaybeRow
  BY <1>1 DEF Read, Told, LedgerHolds, LedgerTyped, RowsTyped
<1>3. CASE Inserts(h) /\ rows[said.b].is
  <2>1. Idle \in Runs /\ RunTrue(rows', hub, Idle) /\ To(h, Idle) /\ UNCHANGED rows
        /\ MergesStay(hub, hub')
    BY <1>3 DEF Inserts, Runs, Idle, RunTrue, To, MergesStay
  <2> QED
    BY <1>1, <2>1, SameRowsHold, HandlerHolds
<1>4. CASE Inserts(h) /\ ~rows[said.b].is
  <2>1. /\ rows' = [rows EXCEPT ![said.b] = [is |-> TRUE, note |-> n, pr |-> said.pr, on |-> TRUE]]
        /\ Heard(h, n # 0, said.pr = "merged")
    BY <1>4 DEF Inserts
  <2> QED
    BY <1>1, <1>2, <2>1, HeardHolds
<1>5. CASE Updates(h)
  <2> DEFINE link == IF LinkOf(saw, n) # saw.note THEN LinkOf(saw, n) ELSE rows[said.b].note
  <2>1. /\ saw.is
        /\ rows' = [rows EXCEPT ![said.b] = [is |-> TRUE, note |-> link, pr |-> said.pr, on |-> TRUE]]
        /\ Heard(h, saw.note = 0 /\ n # 0, said.pr = "merged" /\ saw.pr # "merged")
    BY <1>5 DEF Updates
  <2>2. link \in LinkOrNone
    <3>1. saw \in Row /\ rows[said.b] \in Row
      BY <1>1, <1>2, <1>5, <2>1 DEF Updates, At, RunTrue, Read, MaybeRow, NoRow
    <3> QED
      BY <1>2, <3>1 DEF LinkOf, Row
  <2> QED
    BY <1>1, <2>1, <2>2, HeardHolds
<1> QED
  BY <1>3, <1>4, <1>5

LEMMA MovesHold ==
  ASSUME LedgerHolds, NEW h \in Handlers, MovesNote(h)
  PROVE  LedgerHolds'
<1>1. Idle \in Runs /\ RunTrue(rows', hub, Idle) /\ To(h, Idle) /\ UNCHANGED rows
      /\ MergesStay(hub, hub')
  BY DEF MovesNote, Runs, Idle, RunTrue, To, MergesStay
<1> DEFINE r == runs[h]  to == StatusAfterTask(r.was.status, r.linked, r.merged)
<1>2. r \in Noted
  BY RunParts DEF LedgerHolds, LedgerTyped, RunsTyped, MovesNote, At
<1>3. to # r.was.status => to \in Statuses
  BY DEF StatusAfterTask, Statuses
<1>4. NotesTyped'
  <2>1. CASE r.n = 0
    BY <2>1 DEF MovesNote, LedgerHolds, LedgerTyped, NotesTyped
  <2>2. CASE r.n # 0
    <3>1. r.n \in Notes /\ notes[r.n] \in Note
      BY <1>2, <2>2 DEF Noted, LinkOrNone, LedgerHolds, LedgerTyped, NotesTyped
    <3> DEFINE status == IF to # r.was.status THEN to ELSE notes[r.n].status
               whose == IF r.linked /\ r.was.whose = "none" THEN "me" ELSE notes[r.n].whose
    <3>2. status \in Statuses /\ whose \in {"me", "other", "none"}
      BY <1>3, <3>1 DEF Note
    <3>3. notes' = [notes EXCEPT ![r.n] = [status |-> status, whose |-> whose]]
      BY <2>2, <3>1 DEF MovesNote, Note, LedgerHolds, LedgerTyped, NotesTyped
    <3> QED
      BY <3>1, <3>2, <3>3 DEF LedgerHolds, LedgerTyped, NotesTyped, Note
  <2> QED
    BY <2>1, <2>2
<1> QED
  BY <1>1, <1>4, SameRowsHold, HandlerHolds

LEMMA LooksHold ==
  ASSUME LedgerHolds, NEW c \in Branches, LooksAt(c)
  PROVE  LedgerHolds'
<1> DEFINE l == [pc |-> "asked", b |-> c, n |-> rows[c].note, facts |-> hub[c]]
<1>1. rows[c].is /\ LookTo(l) /\ UNCHANGED <<rows, notes>> /\ MergesStay(hub, hub')
  BY DEF LooksAt, LookTo, MergesStay
<1>2. rows[c] \in Row /\ hub[c] \in PrStates
  BY <1>1 DEF LedgerHolds, LedgerTyped, RowsTyped, HubTyped, MaybeRow, NoRow
<1>3. l \in Looking
  BY <1>2 DEF Looking, Asking, Row
<1>4. LookTrue(rows', hub, l)
  BY <1>1 DEF LookTrue
<1> QED
  BY <1>1, <1>3, <1>4, SameRowsHold, LookHolds DEF LedgerHolds, LedgerTyped, NotesTyped

LEMMA MarksHold ==
  ASSUME LedgerHolds, Marks
  PROVE  LedgerHolds'
<1>1. look \in Asking /\ LookTrue(rows, hub, look) /\ look.pc = "asked" /\ NotesTyped'
  BY LookParts DEF LedgerHolds, LedgerTyped, NotesTyped, Marks
<1>2. PICK b \in Branches : b = look.b
  BY <1>1 DEF Asking
<1>3. Idle \in Looking /\ LookTrue(rows', hub, Idle) /\ UNCHANGED hub /\ MergesStay(hub, hub')
  BY DEF Looking, Idle, LookTrue, Marks, LookTo, MergesStay
<1>4. CASE rows[b].pr \in {"none", look.facts}
  BY <1>1, <1>2, <1>3, <1>4, SameRowsHold, LookHolds DEF Marks
<1>5. CASE rows[b].pr \notin {"none", look.facts}
  <2> DEFINE l == IF look.facts = "merged" /\ look.n # 0
                  THEN [pc |-> "follow", n |-> look.n] ELSE Idle
             new == [rows[b] EXCEPT !.pr = look.facts]
  <2>1. rows' = [rows EXCEPT ![b] = new] /\ LookTo(l)
    BY <1>2, <1>5 DEF Marks, LedgerHolds, LedgerTyped, RowsTyped
  <2>2. rows[b] \in Row /\ (look.facts = "merged" => hub[b] = "merged")
    BY <1>1, <1>2 DEF LookTrue, LedgerHolds, LedgerTyped, RowsTyped, MaybeRow, NoRow
  <2>3. new \in Row /\ new.pr = look.facts
    BY <1>1, <2>2 DEF Row, Asking
  <2>4. RowsTyped' /\ MergedIsTrue' /\ RowsStay(rows, rows')
    <3> HIDE DEF new
    <3> QED BY <1>3, <2>1, <2>2, <2>3, PutHolds
  <2>5. l \in Looking
    BY <1>1 DEF Looking, Asking, Following, LinkOrNone
  <2>6. LookTrue(rows', hub, l)
    BY <2>2, <2>4 DEF LookTrue, Idle, SomeMerged, RowsStay, Row
  <2> QED
    BY <1>1, <2>1, <2>4, <2>5, <2>6, LookHolds
<1> QED
  BY <1>4, <1>5

LEMMA FollowsHold ==
  ASSUME LedgerHolds, ReadsNote \/ FollowsPull
  PROVE  LedgerHolds'
<1>1. CASE ReadsNote
  <2> DEFINE l == [pc |-> "move", n |-> look.n, was |-> notes[look.n].status]
  <2>1. LookTo(l) /\ UNCHANGED <<rows, notes>> /\ MergesStay(hub, hub')
    BY <1>1 DEF ReadsNote, LookTo, MergesStay
  <2>2. look.n \in Notes /\ SomeMerged(rows, hub)
    BY <1>1, LookParts DEF ReadsNote, LedgerHolds, LedgerTyped, Following, LookTrue
  <2>3. l \in Looking
    BY <2>2 DEF LedgerHolds, LedgerTyped, NotesTyped, Note, Looking, Moving
  <2>4. LookTrue(rows', hub, l)
    BY <2>1, <2>2 DEF LookTrue
  <2> QED
    BY <2>1, <2>3, <2>4, SameRowsHold, LookHolds DEF LedgerHolds, LedgerTyped, NotesTyped
<1>2. CASE FollowsPull
  <2>1. LookTo(Idle) /\ UNCHANGED rows /\ MergesStay(hub, hub')
    BY <1>2 DEF FollowsPull, LookTo, MergesStay
  <2>2. look \in Moving
    BY <1>2, LookParts DEF FollowsPull, LedgerHolds, LedgerTyped
  <2>3. StatusAfterTask(look.was, FALSE, TRUE) \in Statuses
    BY <2>2 DEF Moving, StatusAfterTask, Statuses
  <2>4. NotesTyped'
    BY <1>2, <2>2, <2>3 DEF FollowsPull, LedgerHolds, LedgerTyped, NotesTyped, Note, Moving
  <2>5. Idle \in Looking /\ LookTrue(rows', hub, Idle)
    BY DEF Looking, Idle, LookTrue
  <2> QED
    BY <2>1, <2>4, <2>5, SameRowsHold, LookHolds
<1> QED
  BY <1>1, <1>2

LEMMA LedgerBegins == LedgerInit => LedgerHolds
<1> SUFFICES ASSUME LedgerInit PROVE LedgerHolds
  OBVIOUS
<1>1. NotesTyped
  BY DEF LedgerInit, NotesTyped, Note, Statuses
<1>2. RowsTyped /\ HubTyped /\ RunsTyped /\ task \in Said /\ look \in Looking
      /\ says \in 0 .. MaxSays /\ moves \in 0 .. MaxMoves
  BY LedgerBoundsAssumption DEF LedgerInit, RowsTyped, HubTyped, RunsTyped, MaybeRow, PrStates, Runs,
     Said, Looking
<1>3. SaidOfMerge(hub, task) /\ MergedIsTrue /\ LookTrue(rows, hub, look)
  BY DEF LedgerInit, SaidOfMerge, MergedIsTrue, LookTrue, Nothing, NoRow, Idle
<1>4. \A h \in Handlers : RunTrue(rows, hub, runs[h])
  BY DEF LedgerInit, RunTrue, Idle
<1> QED
  BY <1>1, <1>2, <1>3, <1>4 DEF LedgerHolds, LedgerTyped

LEMMA LedgerStep == LedgerHolds /\ [LedgerNext]_ledgerVars => LedgerHolds'
<1> SUFFICES ASSUME LedgerHolds, [LedgerNext]_ledgerVars PROVE LedgerHolds'
  OBVIOUS
<1>1. CASE UNCHANGED ledgerVars
  BY <1>1 DEF ledgerVars, LedgerHolds, LedgerTyped, RowsTyped, NotesTyped, HubTyped, RunsTyped,
              MergedIsTrue
<1>2. CASE BeginsTask \/ HearsPull \/ LeavesTask
  BY <1>2, HarnessHolds
<1>3. CASE (\E b \in Branches : PullMoves(b)) \/ (\E n \in Notes : PersonMoves(n))
  BY <1>3, WorldHolds
<1>4. CASE \E h \in Handlers : Handles(h)
  BY <1>4, EndsHold, FindsHolds, ReadsHolds, WritesHold, MovesHold DEF Handles
<1>5. CASE Watches
  BY <1>5, LooksHold, MarksHold, FollowsHold DEF Watches
<1> QED
  BY <1>1, <1>2, <1>3, <1>4, <1>5 DEF LedgerNext

\* The rows, the notes and the task keep their shape.
THEOREM LedgerIsTyped == LedgerSpec => []LedgerTypeOK
<1>1. LedgerHolds => LedgerTypeOK
  BY DEF LedgerHolds, LedgerTyped, LedgerTypeOK, RowsTyped, NotesTyped, HubTyped, MaybeRow, Row,
         LinkOrNone, Note, Statuses, Said, Told
<1> QED
  BY <1>1, LedgerBegins, LedgerStep, PTL DEF LedgerSpec

\* The ledger says of no pull request that it merged before it did, whatever
\* late report or old look wrote its row (noteAgentTask,
\* setAgentTaskPullRequestState).
THEOREM MergesAreTrue == LedgerSpec => []MergedIsTrue
<1>1. LedgerHolds => MergedIsTrue
  BY DEF LedgerHolds
<1> QED
  BY <1>1, LedgerBegins, LedgerStep, PTL DEF LedgerSpec

\* What moves a note to `done' is a handler told of a merge or a look that saw one.
LEMMA WhoTakesToDone ==
  ASSUME LedgerHolds, LedgerNext, NEW n \in Notes,
         notes[n].status # "done", notes'[n].status = "done", moves' = moves
  PROVE  \/ \E h \in Handlers : /\ runs[h] \in Noted /\ runs[h].pc = "noted"
                                /\ runs[h].n = n /\ runs[h].merged
         \/ look.pc = "move" /\ look.n = n
<1>1. ~ \E m \in Notes : PersonMoves(m)
  BY DEF PersonMoves, LedgerHolds, LedgerTyped
<1>2. (\E h \in Handlers : MovesNote(h)) \/ FollowsPull
  BY <1>1 DEF LedgerNext, Handles, Watches, BeginsTask, HearsPull, LeavesTask, Says, PullMoves,
     FindsActive, EndsActive, FindsNote, ReadsRow, Inserts, Updates, LooksAt, Marks, ReadsNote
<1>3. ASSUME NEW h \in Handlers, MovesNote(h)
      PROVE  runs[h] \in Noted /\ runs[h].pc = "noted" /\ runs[h].n = n /\ runs[h].merged
  <2> DEFINE r == runs[h]  to == StatusAfterTask(r.was.status, r.linked, r.merged)
  <2>1. r \in Noted /\ r.pc = "noted"
    BY <1>3, RunParts DEF LedgerHolds, LedgerTyped, RunsTyped, MovesNote, At
  <2>2. r.n # 0 /\ r.n = n /\ to # r.was.status /\ to = "done"
    BY <1>3 DEF MovesNote, LedgerHolds, LedgerTyped, NotesTyped, Note
  <2>3. r.merged
    BY <2>2 DEF StatusAfterTask
  <2> QED
    BY <2>1, <2>2, <2>3
<1>4. ASSUME FollowsPull PROVE look.pc = "move" /\ look.n = n
  BY <1>4 DEF FollowsPull, LedgerHolds, LedgerTyped, NotesTyped, Note
<1> QED
  BY <1>2, <1>3, <1>4

\* Whichever note it takes for the task's, the office takes none to `done'
\* before a pull request of the agent's has merged (boardStatusAfterTask).
THEOREM MergesComeFirst == LedgerSpec => MergeComesFirst
<1> DEFINE First == \A n \in Notes :
                      notes[n].status # "done" /\ notes'[n].status = "done" /\ moves' = moves
                      => \E b \in Branches : rows[b].is /\ hub[b] = "merged"
<1>1. LedgerHolds /\ LedgerNext => First
  <2> SUFFICES ASSUME LedgerHolds, LedgerNext, NEW n \in Notes,
                      notes[n].status # "done", notes'[n].status = "done", moves' = moves
               PROVE  SomeMerged(rows, hub)
    BY DEF SomeMerged
  <2>1. CASE \E h \in Handlers : /\ runs[h] \in Noted /\ runs[h].pc = "noted"
                                 /\ runs[h].n = n /\ runs[h].merged
    BY <2>1 DEF LedgerHolds, RunTrue, SomeMerged, Noted
  <2>2. CASE look.pc = "move" /\ look.n = n
    BY <2>2 DEF LedgerHolds, LookTrue
  <2> QED BY <2>1, <2>2, WhoTakesToDone
<1>2. LedgerHolds /\ [LedgerNext]_ledgerVars => LedgerHolds' /\ [First]_ledgerVars
  BY <1>1, LedgerStep
<1> QED
  BY <1>2, LedgerBegins, PTL DEF LedgerSpec, MergeComesFirst

-----------------------------------------------------------------------------
(* The ledger, when each branch's task is for one note, the one f gives it *)
(* (an agent cuts a branch for each task; what breaks this is a task that  *)
(* names no note).                                                         *)

TaskIsFor(f) == task.on => task.item = f[task.b]

SaidFor(f, said) == said.on => said.item = f[said.b]
Linked(rs, b, n) == rs[b].is /\ rs[b].note = n
Earned(rs, hs, n) == \E b \in Branches : Linked(rs, b, n) /\ hs[b] = "merged"

RowsFor(f) == \A b \in Branches : rows[b].is => rows[b].note \in {0, f[b]}

\* A handler holds a note that is the branch's or none, the link it saw, and
\* then the link there is.
RunFor(f, rs, r) ==
  /\ r.pc \in {"new", "found", "read"} => SaidFor(f, r.said)
  /\ r.pc \in {"found", "read"} => r.n \in {0, f[r.said.b]}
  /\ r.pc = "read" /\ r.saw.is => /\ r.saw.note \in {0, f[r.said.b]}
                                  /\ r.saw.note # 0 => rs[r.said.b].note = r.saw.note
  /\ r.pc = "noted" /\ r.n # 0 => Linked(rs, r.b, r.n)

\* So does a look.
LookFor(rs, hs, l) ==
  /\ l.pc = "asked" /\ l.n # 0 => Linked(rs, l.b, l.n)
  /\ l.pc \in {"follow", "move"} => Earned(rs, hs, l.n)

LedgerFor(f) ==
  /\ SaidFor(f, task) /\ RowsFor(f) /\ LookFor(rows, hub, look)
  /\ \A h \in Handlers : RunFor(f, rows, runs[h])

\* A row stays, with the note it is linked to.
LinksStay(rs, rt) ==
  \A b \in Branches : rs[b].is => /\ rt[b].is
                                  /\ rs[b].note # 0 => rt[b].note = rs[b].note

LEMMA LinkStays ==
  ASSUME NEW rs, NEW rt, LinksStay(rs, rt), NEW b \in Branches, NEW n \in Notes, Linked(rs, b, n)
  PROVE  Linked(rt, b, n)
BY NotesAssumption DEF LinksStay, Linked

LEMMA RunStays ==
  ASSUME NEW f, NEW rs, NEW rt, NEW hs, LinksStay(rs, rt), NEW r \in Runs, RunFor(f, rs, r),
         RunTrue(rs, hs, r)
  PROVE  RunFor(f, rt, r)
<1>1. r.pc = "read" => r.said.b \in Branches
  BY RunParts DEF Read, Told
<1>2. r.pc = "read" /\ r.saw.is => /\ r.saw.note \in {0, f[r.said.b]}
                                   /\ r.saw.note # 0 => rt[r.said.b].note = r.saw.note
  BY <1>1 DEF RunFor, RunTrue, LinksStay
<1>3. r.pc = "noted" => r.b \in Branches /\ r.n \in LinkOrNone
  BY RunParts DEF Noted
<1>4. r.pc = "noted" /\ r.n # 0 => Linked(rt, r.b, r.n)
  BY <1>3, LinkStays DEF RunFor, LinkOrNone
<1> QED
  BY <1>2, <1>4 DEF RunFor

LEMMA LookStays ==
  ASSUME NEW rs, NEW rt, NEW hs, NEW ht, LinksStay(rs, rt), MergesStay(hs, ht),
         NEW l \in Looking, LookFor(rs, hs, l)
  PROVE  LookFor(rt, ht, l)
<1>1. l.pc = "asked" => l.b \in Branches /\ l.n \in LinkOrNone
  BY LookParts DEF Asking
<1>2. l.pc \in {"follow", "move"} => l.n \in Notes
  BY LookParts DEF Following, Moving
<1>3. l.pc = "asked" /\ l.n # 0 => Linked(rt, l.b, l.n)
  BY <1>1, LinkStays DEF LookFor, LinkOrNone
<1>4. l.pc \in {"follow", "move"} => Earned(rt, ht, l.n)
  BY <1>2, LinkStays DEF LookFor, MergesStay, Earned
<1> QED
  BY <1>3, <1>4 DEF LookFor

\* A handler's step has to show its own place, the rows, and that links stay.
LEMMA HandlerStep ==
  ASSUME NEW f, LedgerHolds, LedgerFor(f), NEW h \in Handlers, NEW r, To(h, r),
         RowsFor(f)', LinksStay(rows, rows'), RunFor(f, rows', r)
  PROVE  LedgerFor(f)' /\ LinksStay(rows, rows')
<1>1. UNCHANGED <<task, hub, look>> /\ MergesStay(hub, hub')
  BY DEF To, MergesStay
<1>2. runs'[h] = r /\ \A g \in Handlers : g # h => runs'[g] = runs[g]
  BY DEF LedgerHolds, LedgerTyped, RunsTyped, To
<1>3. ASSUME NEW g \in Handlers PROVE RunFor(f, rows', runs'[g])
  <2>1. RunFor(f, rows', runs[g])
    BY RunStays DEF LedgerHolds, LedgerTyped, RunsTyped, LedgerFor
  <2> QED
    BY <1>2, <2>1
<1>4. LookFor(rows', hub', look')
  BY <1>1, LookStays DEF LedgerHolds, LedgerTyped, LedgerFor
<1> QED
  BY <1>1, <1>3, <1>4 DEF LedgerFor

\* So has a step of the look, which changes no link.
LEMMA LookStep ==
  ASSUME NEW f, LedgerHolds, LedgerFor(f), NEW l, LookTo(l), LookFor(rows', hub, l),
         \A b \in Branches : (rows'[b].is <=> rows[b].is) /\ (rows[b].is => rows'[b].note = rows[b].note)
  PROVE  LedgerFor(f)' /\ LinksStay(rows, rows')
<1>1. UNCHANGED <<task, hub, runs>> /\ look' = l
  BY DEF LookTo
<1>2. RowsFor(f)' /\ LinksStay(rows, rows')
  BY DEF LedgerFor, RowsFor, LinksStay
<1>3. ASSUME NEW g \in Handlers PROVE RunFor(f, rows', runs'[g])
  BY <1>1, <1>2, RunStays DEF LedgerHolds, LedgerTyped, RunsTyped, LedgerFor
<1> QED
  BY <1>1, <1>2, <1>3 DEF LedgerFor

\* The rows are as they were.
LEMMA SameRows ==
  ASSUME NEW f, LedgerFor(f), UNCHANGED rows
  PROVE  RowsFor(f)' /\ LinksStay(rows, rows')
BY DEF LedgerFor, RowsFor, LinksStay

LEMMA HarnessOK ==
  ASSUME NEW f, LedgerHolds, LedgerFor(f), TaskIsFor(f)', BeginsTask \/ HearsPull \/ LeavesTask
  PROVE  LedgerFor(f)' /\ LinksStay(rows, rows')
<1>1. PICK next : Says(next)
  BY DEF BeginsTask, HearsPull, LeavesTask
<1>2. UNCHANGED <<hub, rows, look>> /\ SaidFor(f, next) /\ task' = next
  BY <1>1 DEF Says, TaskIsFor, SaidFor
<1>3. PICK h \in Handlers : runs' = [runs EXCEPT ![h] = [pc |-> "new", said |-> next]]
  BY <1>1 DEF Says, Report
<1>4. RunFor(f, rows, [pc |-> "new", said |-> next])
  BY <1>2 DEF RunFor
<1>5. \A g \in Handlers : RunFor(f, rows, runs'[g])
  BY <1>3, <1>4 DEF LedgerFor, LedgerHolds, LedgerTyped, RunsTyped
<1> QED
  BY <1>2, <1>5, SameRows DEF LedgerFor

LEMMA WorldOK ==
  ASSUME NEW f, LedgerHolds, LedgerFor(f),
         (\E b \in Branches : PullMoves(b)) \/ (\E n \in Notes : PersonMoves(n))
  PROVE  LedgerFor(f)' /\ LinksStay(rows, rows')
<1>1. UNCHANGED <<task, rows, runs, look>>
  BY DEF PullMoves, PersonMoves
<1>2. MergesStay(hub, hub')
  BY DEF LedgerHolds, LedgerTyped, HubTyped, PullMoves, PersonMoves, MergesStay
<1>3. RowsFor(f)' /\ LinksStay(rows, rows')
  BY <1>1, SameRows
<1>4. LookFor(rows', hub', look')
  BY <1>1, <1>2, <1>3, LookStays DEF LedgerHolds, LedgerTyped, LedgerFor
<1> QED
  BY <1>1, <1>3, <1>4 DEF LedgerFor

LEMMA EndsOK ==
  ASSUME NEW f, LedgerHolds, LedgerFor(f), NEW h \in Handlers, FindsActive(h) \/ EndsActive(h)
  PROVE  LedgerFor(f)' /\ LinksStay(rows, rows')
<1>1. PICK r \in {Idle, [pc |-> "ending"]} : To(h, r)
  BY DEF FindsActive, EndsActive
<1>2. RunFor(f, rows', r)
  BY DEF RunFor, Idle
<1>3. RowsFor(f)' /\ LinksStay(rows, rows')
  <2>1. CASE FindsActive(h)
    BY <2>1, SameRows DEF FindsActive
  <2>2. CASE EndsActive(h)
    <3>1. rows' = [b \in Branches |-> IF b \in Ongoing THEN [rows[b] EXCEPT !.on = FALSE] ELSE rows[b]]
      BY <2>2 DEF EndsActive
    <3>2. ASSUME NEW b \in Branches
          PROVE  (rows'[b].is <=> rows[b].is) /\ (rows[b].is => rows'[b].note = rows[b].note)
      <4>1. b \in Ongoing => rows[b] \in Row
        BY DEF LedgerHolds, LedgerTyped, RowsTyped, MaybeRow, NoRow, Ongoing
      <4> QED
        BY <3>1, <4>1 DEF Row
    <3> QED
      BY <3>2 DEF LedgerFor, RowsFor, LinksStay
  <2> QED
    BY <2>1, <2>2
<1> QED
  BY <1>1, <1>2, <1>3, HandlerStep

LEMMA FindsOK ==
  ASSUME NEW f \in [Branches -> Notes], LedgerHolds, LedgerFor(f), NEW h \in Handlers, FindsNote(h)
  PROVE  LedgerFor(f)' /\ LinksStay(rows, rows')
<1> DEFINE said == runs[h].said
           n == NoteForTask(Wanted(said))
           r == [pc |-> "found", said |-> said, n |-> n,
                 was |-> IF n = 0 THEN [status |-> "none", whose |-> "none"] ELSE notes[n]]
<1>1. said \in Told /\ SaidFor(f, said)
  <2>1. runs[h] \in Runs /\ runs[h].pc = "new" /\ said.on /\ RunFor(f, rows, runs[h])
    BY DEF LedgerHolds, LedgerTyped, RunsTyped, LedgerFor, FindsNote, At
  <2>2. said \in Said
    BY <2>1, RunParts
  <2> QED
    BY <2>1, <2>2 DEF Said, Nothing, RunFor
<1>2. said.item = f[said.b] /\ f[said.b] # 0
  BY <1>1, NotesAssumption DEF SaidFor, Told
<1>3. n \in {0, f[said.b]}
  BY <1>2 DEF Wanted, NoteForTask
<1>4. RunFor(f, rows', r)
  BY <1>1, <1>3 DEF RunFor
<1>5. To(h, r) /\ UNCHANGED rows
  BY DEF FindsNote
<1> QED
  BY <1>4, <1>5, SameRows, HandlerStep

LEMMA ReadsOK ==
  ASSUME NEW f, LedgerHolds, LedgerFor(f), NEW h \in Handlers, ReadsRow(h)
  PROVE  LedgerFor(f)' /\ LinksStay(rows, rows')
<1>1. runs[h] \in Found /\ RunFor(f, rows, runs[h]) /\ runs[h].pc = "found"
  BY RunParts DEF LedgerHolds, LedgerTyped, RunsTyped, LedgerFor, ReadsRow, At
<1> DEFINE r == [pc |-> "read", said |-> runs[h].said, n |-> runs[h].n, was |-> runs[h].was,
                 saw |-> rows[runs[h].said.b]]
<1>2. runs[h].said.b \in Branches
  BY <1>1 DEF Found, Told
<1>3. rows[runs[h].said.b].is => rows[runs[h].said.b].note \in {0, f[runs[h].said.b]}
  BY <1>2 DEF LedgerFor, RowsFor
<1>4. To(h, r) /\ UNCHANGED rows
  BY DEF ReadsRow
<1>5. RunFor(f, rows', r)
  BY <1>1, <1>3, <1>4 DEF RunFor
<1> QED
  BY <1>4, <1>5, SameRows, HandlerStep

\* A handler has put a row in the place of one that is not there, or that keeps
\* its link, and goes on with what it heard.
LEMMA HeardOK ==
  ASSUME NEW f \in [Branches -> Notes], LedgerHolds, LedgerFor(f), NEW h \in Handlers,
         NEW isLinked, NEW merged, Heard(h, isLinked, merged),
         NEW b \in Branches, b = runs[h].said.b, NEW row \in Row, row.note \in {0, f[b]},
         rows[b].is /\ rows[b].note # 0 => row.note = rows[b].note,
         runs[h].n # 0 => row.note = runs[h].n,
         rows' = [rows EXCEPT ![b] = row]
  PROVE  LedgerFor(f)' /\ LinksStay(rows, rows')
<1> DEFINE r == [pc |-> "noted", n |-> runs[h].n, was |-> runs[h].was, b |-> runs[h].said.b,
                 linked |-> isLinked, merged |-> merged]
<1>1. \A c \in Branches : rows'[c] = IF c = b THEN row ELSE rows[c]
  BY DEF LedgerHolds, LedgerTyped, RowsTyped
<1>2. row.is
  BY DEF Row
<1>3. RowsFor(f)' /\ LinksStay(rows, rows')
  BY <1>1, <1>2 DEF LedgerFor, RowsFor, LinksStay
<1>4. RunFor(f, rows', r)
  BY <1>1, <1>2 DEF RunFor, Linked
<1>5. To(h, r)
  BY DEF Heard
<1> QED
  BY <1>3, <1>4, <1>5, HandlerStep

LEMMA WritesOK ==
  ASSUME NEW f \in [Branches -> Notes], LedgerHolds, LedgerFor(f), NEW h \in Handlers,
         Inserts(h) \/ Updates(h)
  PROVE  LedgerFor(f)' /\ LinksStay(rows, rows')
<1> DEFINE said == runs[h].said  n == runs[h].n  saw == runs[h].saw
<1>1. /\ runs[h] \in Read /\ runs[h].pc = "read"
      /\ RunFor(f, rows, runs[h]) /\ RunTrue(rows, hub, runs[h])
  BY RunParts DEF LedgerHolds, LedgerTyped, RunsTyped, LedgerFor, Inserts, Updates, At
<1>2. PICK b \in Branches : b = said.b
  BY <1>1 DEF Read, Told
<1>3. n \in {0, f[b]} /\ n \in LinkOrNone /\ f[b] \in Notes /\ f[b] # 0 /\ said.pr \in PrStates
  BY <1>1, <1>2, NotesAssumption DEF Read, Told, RunFor
<1>4. CASE Inserts(h) /\ rows[b].is
  <2>1. To(h, Idle) /\ UNCHANGED rows /\ RunFor(f, rows', Idle)
    BY <1>2, <1>4 DEF Inserts, RunFor, Idle
  <2> QED
    BY <2>1, SameRows, HandlerStep
<1>5. CASE Inserts(h) /\ ~rows[b].is
  <2>1. PICK row \in Row : row = [is |-> TRUE, note |-> n, pr |-> said.pr, on |-> TRUE]
    BY <1>3 DEF Row
  <2>2. rows' = [rows EXCEPT ![b] = row] /\ Heard(h, n # 0, said.pr = "merged") /\ row.note = n
    BY <1>2, <1>5, <2>1 DEF Inserts
  <2> QED
    BY <1>2, <1>3, <1>5, <2>2, HeardOK
<1>6. CASE Updates(h)
  <2> DEFINE note == IF LinkOf(saw, n) # saw.note THEN LinkOf(saw, n) ELSE rows[b].note
  <2>1. saw.is /\ rows[b].is /\ saw.note \in {0, f[b]} /\ (saw.note # 0 => rows[b].note = saw.note)
    BY <1>1, <1>2, <1>6 DEF Updates, RunFor, RunTrue
  <2>2. rows[b].note \in {0, f[b]}
    BY <2>1 DEF LedgerFor, RowsFor
  <2>3. /\ note \in {0, f[b]} /\ (n # 0 => note = n)
        /\ rows[b].note # 0 => note = rows[b].note
    BY <1>3, <2>1, <2>2 DEF LinkOf
  <2>4. PICK row \in Row : row = [is |-> TRUE, pr |-> said.pr, on |-> TRUE, note |-> note]
    BY <1>3, <2>3 DEF Row, LinkOrNone
  <2>5. /\ rows' = [rows EXCEPT ![b] = row] /\ row.note = note
        /\ Heard(h, saw.note = 0 /\ n # 0, said.pr = "merged" /\ saw.pr # "merged")
    BY <1>2, <1>6, <2>4 DEF Updates
  <2> QED
    BY <1>2, <2>3, <2>5, HeardOK
<1> QED
  BY <1>4, <1>5, <1>6

LEMMA MovesOK ==
  ASSUME NEW f, LedgerHolds, LedgerFor(f), NEW h \in Handlers, MovesNote(h)
  PROVE  LedgerFor(f)' /\ LinksStay(rows, rows')
<1>1. RunFor(f, rows', Idle) /\ To(h, Idle) /\ UNCHANGED rows
  BY DEF MovesNote, Idle, RunFor
<1> QED
  BY <1>1, SameRows, HandlerStep

LEMMA WatchesOK ==
  ASSUME NEW f, LedgerHolds, LedgerFor(f), Watches
  PROVE  LedgerFor(f)' /\ LinksStay(rows, rows')
<1>1. \A l : LookTo(l) /\ UNCHANGED rows /\ LookFor(rows, hub, l)
             => LedgerFor(f)' /\ LinksStay(rows, rows')
  BY LookStep
<1>2. ASSUME NEW c \in Branches, LooksAt(c) PROVE LedgerFor(f)' /\ LinksStay(rows, rows')
  <2> DEFINE l == [pc |-> "asked", b |-> c, n |-> rows[c].note, facts |-> hub[c]]
  <2>1. LookTo(l) /\ UNCHANGED rows /\ LookFor(rows, hub, l)
    BY <1>2 DEF LooksAt, LookFor, Linked
  <2> QED
    BY <1>1, <2>1
<1>3. CASE ReadsNote
  <2> DEFINE l == [pc |-> "move", n |-> look.n, was |-> notes[look.n].status]
  <2>1. LookTo(l) /\ UNCHANGED rows /\ LookFor(rows, hub, l)
    BY <1>3 DEF ReadsNote, LedgerFor, LookFor
  <2> QED
    BY <1>1, <2>1
<1>4. LookFor(rows, hub, Idle)
  BY DEF LookFor, Idle
<1>5. CASE FollowsPull
  BY <1>1, <1>4, <1>5 DEF FollowsPull
<1>6. CASE Marks /\ UNCHANGED rows /\ look' = Idle
  BY <1>1, <1>4, <1>6 DEF Marks, LookTo
<1>7. CASE Marks /\ ~(UNCHANGED rows /\ look' = Idle)
  <2> DEFINE l == IF look.facts = "merged" /\ look.n # 0
                  THEN [pc |-> "follow", n |-> look.n] ELSE Idle
  <2>1. rows' = [rows EXCEPT ![look.b].pr = look.facts] /\ LookTo(l) /\ look.pc = "asked"
    BY <1>7 DEF Marks, LookTo
  <2>2. look \in Asking /\ LookTrue(rows, hub, look) /\ LookFor(rows, hub, look)
    BY <2>1, LookParts DEF LedgerHolds, LedgerTyped, LedgerFor
  <2>3. look.b \in Branches /\ rows[look.b] \in Row
    BY <2>1, <2>2 DEF Asking, LookTrue, LedgerHolds, LedgerTyped, RowsTyped, MaybeRow, NoRow
  <2>4. \A b \in Branches : (rows'[b].is <=> rows[b].is) /\ (rows[b].is => rows'[b].note = rows[b].note)
    BY <2>1, <2>3 DEF LedgerHolds, LedgerTyped, RowsTyped, Row
  <2>5. l.pc = "follow" => Linked(rows', look.b, look.n) /\ hub[look.b] = "merged"
    BY <2>1, <2>2, <2>3, <2>4 DEF LookFor, LookTrue, Linked, Idle
  <2>6. LookFor(rows', hub, l)
    BY <2>3, <2>5 DEF LookFor, Earned, Idle
  <2> QED
    BY <2>1, <2>4, <2>6, LookStep
<1> QED
  BY <1>2, <1>3, <1>5, <1>6, <1>7 DEF Watches

LEMMA LedgerGoesOn ==
  ASSUME NEW f \in [Branches -> Notes], LedgerHolds, LedgerFor(f), TaskIsFor(f)',
         [LedgerNext]_ledgerVars
  PROVE  LedgerFor(f)' /\ LinksStay(rows, rows')
<1>1. CASE UNCHANGED ledgerVars
  BY <1>1 DEF ledgerVars, LedgerFor, RowsFor, LinksStay
<1>2. CASE BeginsTask \/ HearsPull \/ LeavesTask
  BY <1>2, HarnessOK
<1>3. CASE (\E b \in Branches : PullMoves(b)) \/ (\E n \in Notes : PersonMoves(n))
  BY <1>3, WorldOK
<1>4. CASE \E h \in Handlers : Handles(h)
  BY <1>4, EndsOK, FindsOK, ReadsOK, WritesOK, MovesOK DEF Handles
<1>5. CASE Watches
  BY <1>5, WatchesOK
<1> QED
  BY <1>1, <1>2, <1>3, <1>4, <1>5 DEF LedgerNext

LEMMA ForBegins == \A f : LedgerInit => LedgerFor(f)
BY DEF LedgerInit, LedgerFor, SaidFor, RowsFor, LookFor, RunFor, Nothing, NoRow, Idle

\* While every task names the note of its branch, a row never gives up the note
\* it is linked to, however handlers and looks overlap (noteAgentTask).
THEOREM BranchesKeepTheirNote ==
  ASSUME NEW f \in [Branches -> Notes]
  PROVE  LedgerSpec /\ []TaskIsFor(f) => LinkKept
<1> DEFINE Keeps == \A b \in Branches : rows[b].is /\ rows[b].note # 0
                                        => rows'[b].is /\ rows'[b].note = rows[b].note
<1>1. LedgerInit => LedgerHolds /\ LedgerFor(f)
  BY LedgerBegins, ForBegins
<1>2. LedgerHolds /\ LedgerFor(f) /\ TaskIsFor(f)' /\ [LedgerNext]_ledgerVars
      => LedgerHolds' /\ LedgerFor(f)' /\ [Keeps]_ledgerVars
  BY LedgerStep, LedgerGoesOn DEF LinksStay
<1> QED
  BY <1>1, <1>2, PTL DEF LedgerSpec, LinkKept

\* While every task names the note of its branch, the office takes a note to
\* `done' only if the pull request of a branch linked to it has merged
\* (#ledgerTask, #followPulls).
THEOREM DoneNotesAreEarned ==
  ASSUME NEW f \in [Branches -> Notes]
  PROVE  LedgerSpec /\ []TaskIsFor(f) => DoneIsEarned
<1> DEFINE Earns == \A n \in Notes :
                      notes[n].status # "done" /\ notes'[n].status = "done" /\ moves' = moves
                      => \E b \in Branches : rows[b].is /\ rows[b].note = n /\ hub[b] = "merged"
<1>1. LedgerInit => LedgerHolds /\ LedgerFor(f)
  BY LedgerBegins, ForBegins
<1>2. LedgerHolds /\ LedgerFor(f) /\ TaskIsFor(f)' /\ [LedgerNext]_ledgerVars
      => LedgerHolds' /\ LedgerFor(f)'
  BY LedgerStep, LedgerGoesOn
<1>3. LedgerHolds /\ LedgerFor(f) /\ [LedgerNext]_ledgerVars => [Earns]_ledgerVars
  <2> SUFFICES ASSUME LedgerHolds, LedgerFor(f), LedgerNext, NEW n \in Notes,
                      notes[n].status # "done", notes'[n].status = "done", moves' = moves
               PROVE  Earned(rows, hub, n)
    BY DEF Earned, Linked
  <2>1. CASE \E h \in Handlers : /\ runs[h] \in Noted /\ runs[h].pc = "noted"
                                 /\ runs[h].n = n /\ runs[h].merged
    <3>1. n # 0
      BY NotesAssumption
    <3> QED
      BY <2>1, <3>1 DEF LedgerHolds, RunTrue, LedgerFor, RunFor, Earned, Noted
  <2>2. CASE look.pc = "move" /\ look.n = n
    BY <2>2 DEF LedgerFor, LookFor
  <2> QED BY <2>1, <2>2, WhoTakesToDone
<1> QED
  BY <1>1, <1>2, <1>3, PTL DEF LedgerSpec, DoneIsEarned
=============================================================================
