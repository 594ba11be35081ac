-------------------------------- MODULE Tasks --------------------------------
(***************************************************************************)
(* Tasks: a git worktree and a branch each, one active at a time           *)
(* (runner/tasks.ts; AgentRunner.ts, #serialised to checkPullRequest).     *)
(*                                                                         *)
(* Beginning and ending run one at a time behind the task lock, each a     *)
(* chain of git commands with awaits between.  The poll of the pull        *)
(* request asks `gh' outside the lock and acts on the answer inside it.    *)
(* Meanwhile the agent goes on writing, committing and pushing in its      *)
(* worktree, the pull request is merged, a directory is removed by hand,   *)
(* the socket drops and the harness is killed; the book is on disk.        *)
(*                                                                         *)
(* Abstracted: titles, repositories, base branches (every branch has work  *)
(* of its own only), renames of the agent, other agents' tasks.            *)
(***************************************************************************)
EXTENDS Integers, Sequences, FiniteSets

CONSTANTS
  MaxTasks,    \* bound: worktrees ever cut
  MaxCommits,  \* bound: commits on a branch
  MaxAsks,     \* bound: begins and ends asked for by the owner or the model
  MaxQueue,    \* bound: operations waiting when a poll of a pull request begins
  MaxTroubles  \* bound: git failures, crashes, drops, directories removed by hand

Slugs == 1..MaxTasks
None == 0

VARIABLES
  book,     \* tasks.json: the active slug, and the record of each
  tree,     \* the worktrees: is it there, has it uncommitted changes
  branch,   \* per slug: commits on it, on the remote (none: 0), and merged
  queue,    \* operations behind the task lock, the first one running
  poll,     \* the look at a pull request under way, and what `gh' said
  watching, \* #prPoll
  card,     \* the task on the agent's card in the office
  linked,   \* the socket
  lost,     \* ghost: slugs whose worktree went with work in it
  endedBy,  \* ghost: per slug, whose pull request ended it
  left      \* bounds

vars == <<book, tree, branch, queue, poll, watching, card, linked, lost, endedBy, left>>
disk == <<book, tree, branch>>
shown == <<watching, card, linked>>
ghosts == <<lost, endedBy>>

Begin == [op |-> "begin", at |-> "asked", pr |-> None]
End(pr) == [op |-> "end", at |-> "asked", pr |-> pr]
NoPoll == [at |-> "idle"]
Unknown == [is |-> "no record", pr |-> "none"]
Begun == [is |-> "begun", pr |-> "none"]

\* taskForOffice, of a record of the book
NoTask == [slug |-> None, pr |-> "none"]
ForOffice(s, tasks) == IF s = None THEN NoTask ELSE [slug |-> s, pr |-> tasks[s].pr]
NoTree == [there |-> FALSE, dirty |-> FALSE]
NoBranch == [cut |-> FALSE, made |-> 0, pushed |-> 0, merged |-> 0, remote |-> FALSE]

Init ==
  /\ book = [active |-> None, tasks |-> [s \in Slugs |-> Unknown]]
  /\ tree = [s \in Slugs |-> NoTree] /\ branch = [s \in Slugs |-> NoBranch]
  /\ queue = <<>> /\ poll = NoPoll /\ watching = FALSE /\ card = NoTask /\ linked = TRUE
  /\ lost = {} /\ endedBy = [s \in Slugs |-> None]
  /\ left = [asks |-> MaxAsks, troubles |-> MaxTroubles]

Spend(what) == left[what] > 0 /\ left' = [left EXCEPT ![what] = @ - 1]

\* activeTask: a record whose worktree is gone is not active, and reading it says so
Active == IF book.active # None /\ tree[book.active].there THEN book.active ELSE None
ReadBook == [book EXCEPT !.active = Active]

\* #publishTask: dropped when the socket is down
Published(shows) == IF linked THEN shows ELSE card

-----------------------------------------------------------------------------
(* Beginning and ending, behind the lock.                                  *)

\* beginTask and endTask of the runner: queued behind whatever is running.
Asks(op) ==
  /\ Spend("asks") /\ queue' = Append(queue, op)
  /\ UNCHANGED disk /\ UNCHANGED shown /\ UNCHANGED ghosts /\ UNCHANGED poll

\* Mutant: nothing is serialised; any operation may take its next step.
AnyTurn(i) == i \in DOMAIN queue
MyTurn(i) == i = 1 /\ queue # <<>>

Moves(i, at) == queue' = [queue EXCEPT ![i].at = at]
Done(i) == queue' = [j \in 1..Len(queue) - 1 |-> IF j < i THEN queue[j] ELSE queue[j + 1]]

\* The operation is refused before it did anything: a task is active already,
\* or none is.
Refused(i) ==
  /\ MyTurn(i) /\ queue[i].at = "asked"
  /\ (Active = None) = (queue[i].op = "end")
  /\ Done(i) /\ book' = ReadBook
  /\ UNCHANGED <<tree, branch, poll, left>> /\ UNCHANGED shown /\ UNCHANGED ghosts

\* beginTask: none is active; then the base is fetched.
Begins(i) ==
  /\ MyTurn(i) /\ queue[i] = Begin /\ Active = None
  /\ Moves(i, "fetched") /\ book' = ReadBook
  /\ UNCHANGED <<tree, branch, poll, left>> /\ UNCHANGED shown /\ UNCHANGED ghosts

\* freeSlug: neither the book nor the disk has it
Free(s) == book.tasks[s] = Unknown /\ ~tree[s].there

\* ... the book is read, a free name taken, and `git worktree add -b' cuts the
\* branch and its worktree; git refuses a branch that is there already.
Cuts(i) ==
  /\ MyTurn(i) /\ queue[i].at = "fetched"
  /\ \E s \in Slugs :
       /\ Free(s) /\ \A u \in 1..s - 1 : ~Free(u)
       /\ IF branch[s].cut THEN Done(i) /\ UNCHANGED <<tree, branch>>
          ELSE /\ tree' = [tree EXCEPT ![s].there = TRUE]
               /\ branch' = [branch EXCEPT ![s].cut = TRUE]
               /\ queue' = [queue EXCEPT ![i] = [op |-> "begin", at |-> "cut", pr |-> None,
                                                 slug |-> s, read |-> book.tasks]]
  /\ UNCHANGED <<book, poll, left>> /\ UNCHANGED shown /\ UNCHANGED ghosts

\* ... and the book is written from what was read before it; the runner then
\* publishes the task and watches its pull request.
Records(i) ==
  /\ MyTurn(i) /\ queue[i].at = "cut"
  /\ book' = [active |-> queue[i].slug,
              tasks |-> [queue[i].read EXCEPT ![queue[i].slug] = Begun]]
  /\ card' = Published(ForOffice(queue[i].slug, book'.tasks))
  /\ watching' = TRUE /\ Done(i)
  /\ UNCHANGED <<tree, branch, poll, linked, left>> /\ UNCHANGED ghosts

\* worktreeState: commits no remote has, those up to the merged head excluded
Unpushed(s, pr) ==
  LET b == branch[s]
      known == IF b.remote THEN b.pushed ELSE 0
      delivered == IF pr = s THEN b.merged ELSE 0 IN
  b.made > known /\ b.made > delivered

\* Mutant: only uncommitted changes keep a worktree.
DirtyOnly(s, pr) == IF tree[s].dirty THEN "kept" ELSE "removed"
\* cleanupDecision
Cleanup(s, pr) == IF tree[s].dirty \/ Unpushed(s, pr) THEN "kept" ELSE "removed"

\* endTask: the active task, and whether anything in it is nowhere else (`git
\* status', a fetch and `git rev-list', as one look).
Judges(i) ==
  /\ MyTurn(i) /\ queue[i].op = "end" /\ queue[i].at = "asked" /\ Active # None
  /\ LET s == Active
         outcome == Cleanup(s, queue[i].pr) IN
     queue' = [queue EXCEPT ![i] =
       [op |-> "end", pr |-> queue[i].pr, slug |-> s, task |-> book.tasks[s], had |-> branch[s].made,
        outcome |-> outcome, at |-> IF outcome = "removed" THEN "removing" ELSE "ending"]]
  /\ book' = ReadBook
  /\ UNCHANGED <<tree, branch, poll, left>> /\ UNCHANGED shown /\ UNCHANGED ghosts

\* `git worktree remove --force', and `git branch -D' where git will
Removes(i) ==
  /\ MyTurn(i) /\ queue[i].at = "removing"
  /\ LET s == queue[i].slug IN
       /\ tree' = [tree EXCEPT ![s] = NoTree]
       /\ \E gone \in BOOLEAN : branch' = [branch EXCEPT ![s].cut = ~gone]
       /\ lost' = IF tree[s].dirty \/ branch[s].made > branch[s].pushed THEN lost \cup {s} ELSE lost
  /\ Moves(i, "ending")
  /\ UNCHANGED <<book, poll, endedBy, left>> /\ UNCHANGED shown

\* ... the record as it was read, with how it ended, goes into the book as it is
\* by now; the card comes down, the poll stops.
Ends(i) ==
  /\ MyTurn(i) /\ queue[i].at = "ending"
  /\ LET s == queue[i].slug IN
       /\ book' = [active |-> None,
                   tasks |-> [book.tasks EXCEPT ![s] = [queue[i].task EXCEPT !.is = queue[i].outcome]]]
       /\ endedBy' = [endedBy EXCEPT ![s] = IF queue[i].pr = None THEN s ELSE queue[i].pr]
  /\ card' = Published(NoTask) /\ watching' = FALSE /\ Done(i)
  /\ UNCHANGED <<tree, branch, poll, linked, lost, left>>

\* A git command fails: the operation is over, the lock goes to the next.
Fails(i) ==
  /\ MyTurn(i) /\ queue[i].at \in {"asked", "fetched", "removing"} /\ Spend("troubles")
  /\ Done(i)
  /\ UNCHANGED disk /\ UNCHANGED shown /\ UNCHANGED ghosts /\ UNCHANGED poll

-----------------------------------------------------------------------------
(* The poll of the pull request.                                           *)

\* checkPullRequest: with no task the poll stops; else `gh' is asked.
Looks ==
  /\ watching /\ poll = NoPoll /\ Len(queue) < MaxQueue
  /\ IF Active = None THEN watching' = FALSE /\ UNCHANGED poll
     ELSE poll' = [at |-> "asked", slug |-> Active, pr |-> book.tasks[Active].pr] /\ UNCHANGED watching
  /\ book' = ReadBook
  /\ UNCHANGED <<tree, branch, queue, card, linked, left>> /\ UNCHANGED ghosts

\* `gh' fails, or the branch has no pull request
HearsNothing ==
  /\ poll # NoPoll /\ poll' = NoPoll
  /\ IF branch[poll.slug].pushed = 0 THEN UNCHANGED left ELSE Spend("troubles")
  /\ UNCHANGED <<queue, watching, card, linked>> /\ UNCHANGED disk /\ UNCHANGED ghosts

PrState(s) == IF branch[s].merged > 0 THEN "merged" ELSE "open"

\* Mutant: a merge that was noted before is no reason to end the task.
EndsOnNews(state, before) == state = "merged" /\ before # "merged"
EndsTask(state, before) == state = "merged"

StillTheTask(s) == ReadBook.active = s

\* `gh' tells of it: news go on the record, and on the card while it is still
\* the task; a merge queues the end of the task.
Hears ==
  /\ poll # NoPoll /\ branch[poll.slug].pushed > 0 /\ poll' = NoPoll
  /\ LET s == poll.slug
         pr == PrState(s)
         noted == pr # poll.pr /\ book.tasks[s] # Unknown IN
       /\ book' = IF noted THEN [ReadBook EXCEPT !.tasks[s].pr = pr] ELSE book
       /\ card' = IF noted /\ StillTheTask(s) THEN Published(ForOffice(s, book'.tasks)) ELSE card
       /\ queue' = IF EndsTask(pr, poll.pr) THEN Append(queue, End(s)) ELSE queue
  /\ UNCHANGED <<tree, branch, watching, linked, left>> /\ UNCHANGED ghosts

-----------------------------------------------------------------------------
(* The work, the office and the machine.                                   *)

Works(s) ==
  /\ book.tasks[s] # Unknown /\ tree[s].there /\ ~tree[s].dirty /\ branch[s].made < MaxCommits
  /\ tree' = [tree EXCEPT ![s].dirty = TRUE]
  /\ UNCHANGED <<book, branch, queue, poll, left>> /\ UNCHANGED shown /\ UNCHANGED ghosts

Commits(s) ==
  /\ tree[s].there /\ tree[s].dirty
  /\ tree' = [tree EXCEPT ![s].dirty = FALSE]
  /\ branch' = [branch EXCEPT ![s].made = @ + 1]
  /\ UNCHANGED <<book, queue, poll, left>> /\ UNCHANGED shown /\ UNCHANGED ghosts

Pushes(s) ==
  /\ tree[s].there /\ branch[s].made > branch[s].pushed
  /\ branch' = [branch EXCEPT ![s].pushed = branch[s].made, ![s].remote = TRUE]
  /\ UNCHANGED <<book, tree, queue, poll, left>> /\ UNCHANGED shown /\ UNCHANGED ghosts

\* Its pull request is merged (squashed: the commits themselves are on no
\* branch), and the remote branch goes or stays.
Merges(s) ==
  /\ branch[s].remote /\ branch[s].merged = 0
  /\ \E stays \in BOOLEAN :
       branch' = [branch EXCEPT ![s].merged = branch[s].pushed, ![s].remote = stays]
  /\ UNCHANGED <<book, tree, queue, poll, left>> /\ UNCHANGED shown /\ UNCHANGED ghosts

RemovedByHand(s) ==
  /\ tree[s].there /\ Spend("troubles")
  /\ tree' = [tree EXCEPT ![s] = NoTree]
  /\ UNCHANGED <<book, branch, queue, poll>> /\ UNCHANGED shown /\ UNCHANGED ghosts

\* The office clears the card of an agent whose socket went.
Drops ==
  /\ linked /\ Spend("troubles") /\ linked' = FALSE /\ card' = NoTask
  /\ UNCHANGED <<watching, queue, poll>> /\ UNCHANGED disk /\ UNCHANGED ghosts

ToldOnRejoin(s) == ForOffice(s, book.tasks)

\* #reconnect: the task is published again
Rejoins ==
  /\ ~linked /\ linked' = TRUE /\ card' = ToldOnRejoin(Active) /\ book' = ReadBook
  /\ UNCHANGED <<tree, branch, watching, queue, poll, left>> /\ UNCHANGED ghosts

\* The harness is killed and started again: what the book says is taken up.
Restarts ==
  /\ Spend("troubles") /\ queue' = <<>> /\ poll' = NoPoll
  /\ linked' = TRUE /\ card' = ForOffice(Active, book.tasks) /\ watching' = (Active # None)
  /\ book' = ReadBook
  /\ UNCHANGED <<tree, branch>> /\ UNCHANGED ghosts

Op(i) == \/ Refused(i) \/ Begins(i) \/ Cuts(i) \/ Records(i)
         \/ Judges(i) \/ Removes(i) \/ Ends(i)

Agent(s) == Works(s) \/ Commits(s) \/ Pushes(s)

Next ==
  \/ Asks(Begin) \/ Asks(End(None))
  \/ \E i \in 1..Len(queue) : Op(i) \/ Fails(i)
  \/ Looks \/ HearsNothing \/ Hears
  \/ \E s \in Slugs : Agent(s) \/ Merges(s) \/ RemovedByHand(s)
  \/ Drops \/ Rejoins \/ Restarts

Spec == Init /\ [][Next]_vars
\* git answers or fails, the interval timer fires, `gh' answers in the end.
FairSpec ==
  /\ Spec /\ WF_vars(\E i \in 1..Len(queue) : Op(i))
  /\ WF_vars(Looks) /\ SF_vars(Hears) /\ WF_vars(HearsNothing)

-----------------------------------------------------------------------------
(* Properties.                                                             *)

Outcomes == {"no record", "begun", "kept", "removed"}

\* The book, the disk and the lock hold what the code can have put there.
TypeOK ==
  /\ book.active \in Slugs \cup {None}
  /\ book.tasks \in [Slugs -> [is : Outcomes, pr : {"none", "open", "merged"}]]
  /\ tree \in [Slugs -> [there : BOOLEAN, dirty : BOOLEAN]]
  /\ \A s \in Slugs : branch[s].merged <= branch[s].pushed /\ branch[s].pushed <= branch[s].made
  /\ \A i \in DOMAIN queue : queue[i].at \in {"asked", "fetched", "cut", "removing", "ending"}
  /\ watching \in BOOLEAN /\ linked \in BOOLEAN

Unfinished == {s \in Slugs : book.tasks[s].is = "begun" /\ tree[s].there}

\* One at a time (beginTask): however begins and ends, the poll's among them,
\* overlap, one worktree at most is an unfinished task's.
OneAtATime == \A s, u \in Unfinished : s = u

\* A worktree about to be removed had no commit, when it was judged, that is
\* not on the remote or in its own merged pull request (worktreeState).
RemovesOnlyDelivered ==
  \A i \in DOMAIN queue : queue[i].at = "removing" => queue[i].had <= branch[queue[i].slug].pushed

\* The card in the office shows the task there is, with its pull request, and
\* none that has ended, whatever the socket and the poll did (#publishTask).
CardShowsTask ==
  linked => /\ Active # None => card = ForOffice(Active, book.tasks)
            /\ card # NoTask => book.tasks[card.slug].is = "begun"

\* A task whose pull request is merged ends, although ending it failed before,
\* the agent goes on working or the harness restarts (checkPullRequest).
MergedEnds == \A s \in Slugs : Active = s /\ branch[s].merged > 0 ~> Active # s

\* runner/tasks.ts:31: "Ending never loses work. A worktree with uncommitted
\* changes, or with commits no remote has, is kept".
NothingLost == lost = {}

\* AgentRunner.ts:1317-1318, of a poll's answer: "A `!done` that landed meanwhile
\* has ended the task, and `endTask` then refuses, which is right".
EndedByItsOwn == \A s \in Slugs : endedBy[s] \in {None, s}
=============================================================================
