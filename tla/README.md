# A TLA+ verification of Quintal

Quintal is an office for people and coding agents.  A person opens the office
in a browser; an agent is a program on somebody's machine, the *harness*
(`packages/acp-harness`), that runs a coding tool over the Agent Client
Protocol (the *runtime*), and speaks for it in the office.  The office is a
Colyseus room (`apps/server`), the browser is a Next.js and Phaser application
(`apps/web`), and what lasts is in a SQL database (`packages/shared/src/db`).

What is hard about this system lies between the parts: one agent answers many
conversations with few processes, any of which may crash, hang or be replaced
while a turn runs on it; the socket to the office drops and comes back; the
office restarts; a person's answer to a question races the question's deadline.
The modules here model that, each from the code it names, and say what must
hold whatever the order.

Line numbers below are those of the commit the modules were written against.
`AR` stands for `packages/acp-harness/src/runner/AgentRunner.ts`, `WK` for
`runner/worker.ts` beside it, `OR` for `apps/server/src/rooms/OfficeRoom.ts`.

## 1. The system's components

| Component | State it keeps | Operations | Hard behaviour |
|---|---|---|---|
| Turn loop (`AR`, `runner/pool.ts`) | `#queues`, `#inFlight`, `#turns`, `#steerPending`, `#queuedActivity`, `#reloadPending`, `#modelRefusal`, the attempts of a message | enqueue, drain, claim, run a turn, fail, put back, refuse, `!cancel`, reload, stop | every handler drains; a turn has four awaits; workers die under it; the gateway is replaced |
| Worker and process (`WK`, `acp/agent-process.ts`) | `#process`, `#starting`, `#replaced`, `dead`, `restarts` | start, handshake, exit, restart, reload, stop | two handlers hear of one death, in either order; a stopped process lives on for three seconds |
| Sessions of a worker (`WK`, `runner/sessions.ts`) | `sessions`, `unprimed`, `#creating`, `#resumable` | open, join an open, resume, prime, re-prime, rotate, move, save on reload | every open awaits a process that may be replaced meanwhile |
| Tool approvals (`AR`, `runner/approvals.ts`; `OR`, `rooms/approvals.ts`) | harness: `#approvals`, `#resolvedApprovals`; office: `#approvals` | ask, card, click, typed answer, deadline, sweep, replay, forget | the socket and the office restart under a question that goes on waiting |
| Gateway client (`gateway/client.ts`) | socket, ready info, requests awaiting a reply | connect, request, reconnect | what is sent on a closed socket vanishes; a reconnect is a new client |
| Core memory (`AR`, `runner/forget.ts`, `db/agents.ts`) | the text, its version, which sessions were told | write, `!forget`, `memory_set`, re-prime | two sessions write from one read; a write lands during a prompt |
| Tasks and worktrees (`runner/tasks.ts`, `runner/workspace.ts`, `AR` 1117-1340) | the task in hand, the directory of work, PR polls | begin, end, open a PR, poll | a poll answers for a task that is over |
| Routines (`OR` 4590-4750, `db/routines.ts`) | schedules, the slots claimed, their outcome | tick, claim, speak, settle, make up | two rooms of one office tick at once; crash between settling and speaking |
| Desks (`rooms/seating.ts`, `OR` 2672-2805) | reservations, arrivals | reserve, arrive, release, sweep | an await between judging and reserving |
| Board, pull requests (`rooms/board-view.ts`, `github/pulls.ts`, `db/agent-tasks.ts`) | the last good read, the task ledger | read, report, poll | overlapping reads; an insert race |
| Fleet (`supervisor.ts`, `cli.ts`, `host.ts`) | running agents by configuration | reconcile, start, stop | overlapping reconciles; a failed start |
| Office presence (`OR` 1325-6413, `rooms/last-places.ts`) | players, sessions held for a return | join, drop, return, kick | grace of a dropped socket beside a second join |
| Browser recovery (`apps/web/src/game/net/recovery.ts`) | phase, stray room | resume, rejoin, cancel | leave while a join is in flight |
| Chat delivery (`rooms/mentions.ts`, `rooms/hops.ts`, `rooms/audience.ts`) | hop budgets | route, count hops | two agents that answer each other for ever |
| MCP bridge (`mcp/bridge.ts`, `mcp/server.ts`) | none but the gateway it was given | forward a tool call | the gateway it holds is replaced |
| Permission catalogue (`runner/approvals.ts`, `runtime-permissions.ts`) | none | pick the option an answer means | none: pure functions |
| Accounts, invites, challenges (`db/challenges.ts`, `auth/`) | rows | issue, consume once | double use |
| Voice (`shared/src/voice.ts`, `voice/relay.ts`, `game/voice/client.ts`) | pairs in earshot, per socket a table of bytes, the page's peers | sweep, bind, forward, replace, watch | a byte stands for another sender while frames are on their way |
| Read cursors (`game/unread.ts`, `game/readReports.ts`, `OR` 1130-1170 and 3060-3100, `db/reads.ts`) | the page's account, the room's cursors, the database's | look, report, load, refresh the list | a report and a load each await the database while pages come and go |
| Idle life, movement, maps, web UI, desktop shell, website | - | - | not modelled (section 8) |

How they interact: a chat line reaches the harness over the gateway and is
*enqueued* in the turn loop, which *claims* a worker, which *opens* a session
in its process, *primes* it with the standing instructions (asking the office
for the core memory) and *prompts* it.  A tool the runtime wants to run becomes
a question, which the harness sends to the office as a card; a click comes back
as a decision.  A reload (a changed configuration) replaces every worker's
process, at once if it is idle, at the end of its turn if it is not.

What makes each component correct is stated as the properties of its module
(section 3); what is modelled of none, in section 8.


## 2. How the project is laid out

| Module | Role |
|---|---|
| `TurnLoop`, `Mailbox` | the turn loop of one agent over all its conversations and workers; what it promises a message |
| `WorkerLife` | the processes of one worker: exits, handshakes, signals |
| `WorkerSessions`, `Memory` | the sessions of one worker and what each was told; the core memory and all who write it |
| `Approvals`, `Consent` | a tool approval in the harness, on the wire and in the office; what it promises |
| `Gateway` | an agent's connection and the loops that make it again |
| `Tasks`, `Ledger` | the tasks of an agent on its machine; the office's ledger of them and the notes that follow |
| `Fleet` | the supervisor of a machine and its polls |
| `Desks`, `Routines`, `Mentions` | the office's seats, its standing requests, and whom a line wakes |
| `Board`, `Voice` | what the office shows people, and whom it lets them hear |
| `Presence`, `Reading` | a person's pages and seats; how far they have read |
| `MCTurnLoop`, `MCAgent`, `MCSessions`, `MCWorkerSessions`, `MCGateway`, `MCAlive`, `MCMachine`, `MCOffice`, `MCBoard` | small instances for TLC |
| `TurnLoopProofs`, `WorkerLifeProofs`, `SessionsProofs`, `ApprovalsVoiceProofs`, `GatewayFleetProofs`, `TasksLedgerProofs`, `DesksRoutinesProofs`, `BoardReadingProofs` | theorems and proofs |

`TurnLoop`, `WorkerLife` and `WorkerSessions` are three views of one agent, and
share the code they cut.  A start of a worker is one step of `TurnLoop`
(`StartOk`, `StartFails`); `WorkerLife` opens that step into a process, its
handshake, its exit and its signals.  The opening of a session is one step of
`TurnLoop` (`Opened`, `OpenFails`); `WorkerSessions` opens that one.  `Tasks`
and `Ledger` cut one wire in the same way, and so do `Desks` (an agent's
sessions) and `Presence` (a person's).  Each says in its header what it leaves
to the others.

**The rule for steps.**  The harness, the office and the page are
single-threaded: a handler runs to its next `await` without another in between.
An action is therefore exactly one stretch of code between two awaits, with
everything it calls (a turn that ends also drains, reloads and refuses in the
same action, because `finally` does).  The steps of a runtime, of a socket, of
git, of the database and of a person are actions of their own, and may come at
any point.

**Sums, not products.**  Most MC modules put two or three components that share
no state into one run: a variable `of` (or `part`) says which of them a
behaviour is of, only that one moves, and the run explores the sum of their
state spaces.  Each has the fairness its own module states, repeated there for
its steps.  This is for economy only; a component can be run on its own with
the constants given below.  Where components are in one run, and in one module
of proofs, the names of one carry a prefix (`CoreSpec`, `VoiceSpec`,
`RoutinesSpec`, `LedgerSpec`, `ReadingSpec`).

**Definitions named as mutants.**  Some definitions carry a comment *Mutant*:
they are a definition with a plausible mistake in it (a guard dropped, an order
swapped), named beside it.  Nothing uses them; put in the place of the
definition they vary, each makes TLC refute the property it is for, which shows
that the property can see that mistake.

**Bounds.**  Whatever would grow for ever has a bound: a constant named
`Max...` or a budget (`Limit`, `Limits`) of how often each kind of disturbance
may happen, spent by a variable `left` (`allowed`, `spare`).  The theorems hold
for every value of the bounds, that is, of runs of any length and with any
number of disturbances.

## 3. The modules, their runs and their theorems

Every property below is said in words where it is defined.  In the tables, *T*
is a theorem of the module's proofs (for every value of the constants), *R* a
run that checks it on a small instance.

### 3.1 `TurnLoop` and `Mailbox`

State and code: `queue` is `#queues`, with `ahead` the insertion order of that
`Map`, which decides which conversation a drain serves first; `inFlight`,
`steer`, `activity` (`#queuedActivity`), `pending` (`#reloadPending`),
`refusalSaid` and `stopping` are the fields of those names; `turns[w]` is
`worker.turn` with the phase of `#runTurn` it is in:

    starting --Begin--> opening --Opened--> priming --Prompt--> prompted --> over
             (await ready)     (await session)    (await instructions)   (await prompt)

`Prompt` may also be taken from `opening`, by a session that was told already.
`Drained` is `#drain`, `Refused` `#refuseQueued`, `Claims` `pool.claim`,
`TurnEnds` the `finally` of a turn, `TurnFails` `#turnFailed`.  These are
operators over a record of the variables they touch (`Now`, `Become`), so that
one action composes them as the code calls them.

`Mailbox` is what all this promises a message: it waits, a turn holds it, it is
put to the runtime, it is over; only a turn that has put nothing to the runtime
may hand it back.  `IsAMailbox` is the refinement, with `Life` as the mapping.

| Property | | What it says |
|---|---|---|
| `OneTurnPerScope` | R T | a conversation has at most one turn, and `#inFlight` is exactly those with one |
| `IsAMailbox` | R T | the turn loop implements the mailbox: nothing is put to the runtime twice |
| `ScopeOrder` | R T | what a turn holds and what waits behind it is in the order it came, after retries too |
| `NeverSilent` | R T | a message that is gone was answered, explained or called off, or its conversation had been told before that the model was refused (before any socket drops) |
| `WorkConserving` | R T | nothing waits beside a worker that could run it |
| `NothingShownAfterStop` | R T | a stopped agent puts nothing to its runtime |
| `LiveWithinCeiling` | T | no more workers live than the agent's parallelism, dead slots and all |
| `ShownOnce` | T | no message is put to a runtime twice |
| `EveryoneIsAnswered` | R | every message is in the end answered, explained, called off, or over in a conversation that had been told that the model was refused |

That the office refused the agent's model is said once in a conversation, and
what is asked there afterwards ends without a word (`AR` 1817-1819: "a person who
asks twice does not need telling twice").  `ToldBefore` is exactly those
messages: over, and of a conversation in which the refusal was said and a line
was said for some message.

Run `turnloop_safety`: two conversations, one of them banter, a parallelism of
two over four worker objects, two messages, and of the disturbances two faults
and one each of `!cancel`, reload, drop and stop.  Two conversations and a
parallelism of two are the least at which two workers can compete for one
conversation and one worker be left idle beside another; two faults allow a
crash and the failure of its restart; two messages let one be in flight, put
back and overtaken by the other.  Workers are interchangeable (`WorkerSymmetry`).
`EveryoneIsAnswered` is in run `gateway`, with a crash and a reload and three
workers, one of which is up first (`status[w1] = "up"`, without loss of
generality, since symmetry is not sound for liveness).

### 3.2 `WorkerLife`

State: per process `life` (none, booting, up, gone) and `settling`, the state
of the promise of its start; `exitDue`, processes whose `exit` event is still to
be handled; `owner`, who awaits the start (`ready()`, the restart of
`#onWorkerExit`, or `reload`).  `Exit` is `#onWorkerExit` with the worker's own
handler, `StartFails` the catch of whoever awaits, `Falls` what a dying process
leaves behind: the event and, in its handshake, the rejection, which are two
steps that may come in either order.

| Property | | What it says |
|---|---|---|
| `NoForgottenProcess` | R T | a process that lives is its worker's own or was told to stop |
| `RestartIsForACrash` | R T | the quiet restart is spent on the crash of a process that no reload replaced |
| `TurnKeepsItsProcess` | T | no reload takes the process from under a running turn |
| `ReloadEnds` | R | a reload is over in the end |

Run `alive`: two crashes, a refused handshake, two reloads and a stop over six
processes, one per crash and reload and the first (`BoundAssumption`, so that
no step is refused for want of a number).

### 3.3 `WorkerSessions` and `Memory`

State of `WorkerSessions`: `book` and `cwdOf` are `worker.sessions`, `unprimed`
and `resumable` the fields of those names, `creating` with `opens` the map
`#creating` and the creations it holds, each with the process it was sent to and
what it awaits (the open, or the choice of mode after it).  Ghosts say which
processes know a session (`home`), where it is really rooted (`rootOf`), which
version of the core memory it was last told (`knows`) and which conversation a
reload was to keep (`kept`).

State of `Memory`: the row of `agent_memory`, and per writer (`!remember`,
`!forget`, `memory_set`) what it read, what it makes of it and the await it is
in; the office checks the condition of a write in one await and writes in the
next, and a reply may be lost while the write goes on.

| Property | | What it says |
|---|---|---|
| `DroppedStaysDropped` | R T | what `!rotate` dropped is never used again, by no reload, resume or open |
| `OneOpenPerScope` | T | until a reload, one `session/new` per conversation and process |
| `SessionsKnowTheMemory` | R T* | until a reload, a session not marked to be told again was told the memory of now |
| `ReloadKeepsConversations` | R T* | after a reload a conversation that was spoken in comes back in its session |
| `NothingUnseenIsErased` | R T | a note leaves the memory only by the owner's page, an unconditional write, or somebody who had read it |
| `NothingComesBack` | T | no conditional write adds a note but its writer's own |

T*: under hypotheses, see section 5.  Run `sessions`: two conversations and two
directories, three processes, four sessions and three opens (never exhausted
before the budget is), and one of two budgets, a crash with a write of the owner
or a reload with a change of root, each with a rotation, a prewarm and a failure.
Memory: two notes, two writers, room for both, one edit, one lost reply.

### 3.4 `Approvals` and `Consent`

State: `told` is the harness's side of a question (open while `#approvals` has
it; then what the runtime was told), `outbox` is `#resolvedApprovals`, `link`
the session the harness speaks on.  `toOffice` and `toAgent` are the frames on
their way, per socket.  The office has `cards`, `here` (the clients it has),
`reading` (requests in the await of a zone's conversation).  `late` are the
questions past their deadline, on whichever clock, and `away` those asked in a
place the agent has been out of since: a zone, which a new session never stands
in (it wakes up in the Agent Bay, `OR` 1175-1185), or a channel or zone the agent
was taken out of.  The office drops a request of such a question without a word
(`OutOfPlace`, `OR` 3569-3581).

`Drop` loses what was on its way to the agent and any suffix of what was on its
way to the office; the office learns of it only later (`Leaves`).  `Rejoin` is a
new session on which the open questions and the outbox are said again.  `Restart`
empties the office.  Frames of one socket are read in order, the requests that
await the zones' conversations go on in the order they came (they await one
promise), and what a dead socket still holds is read before anything of a later
one (`Reads`): the bytes had arrived before the next socket was made.

`Consent` leaves out the sockets, the cards and the clocks: a question is
answered once, with a yes only if its owner gave that question a yes.

| Property | | What it says |
|---|---|---|
| `ImplementsConsent` | R T | harness, wire and office together implement consent |
| `OpenQuestionsAreShown` | R T | when nothing is on its way, an open question has its card, if the agent has not been out of the place it was asked in |
| `ButtonsReachTheRuntime` | R T | ... and a card that waits (outside a zone) is of a question that does |
| `AllowedByTheOwner`, `AnsweredOnce` | T | what consent says of one question, as an invariant and as an action property |

Run `agent`: two questions, one of them in a zone, a cap of one card, an outbox
of one, two sockets and one upset, a restart of the office or a time the agent is
out of place: both limits are in reach, and one drop, one reconnect and one
restart are what every race here needs.

### 3.5 `Gateway`

State: every client ever made and who waits in its `connect()`, the runner's
`#gateway`, the reconnect loops in their delay, where `start()` and `stop()`
stand, and which client each worker's tools were opened with.  A client's clock
runs on its last wait only, and leaving the room stops neither.

| Property | | What it says |
|---|---|---|
| `OneConnection` | R T | the agent is in the office at most once, unless a handshake was cut between joining and `agent:ready` |
| `StoppedIsGone` | R T | a stopped agent is out, unless `stop()` met a connect under way |
| `NeverStranded` | T | a running agent is connected, connecting, or has a loop that will connect it |
| `ComesBack` | R | a running agent is in the office again in the end |

Run `gateway`: two workers, three troubles (drops, refusals, time-outs): one
more than a loop beside a loop takes.  What the two excuses excuse, the code
does: see section 4.

### 3.6 `Tasks` and `Ledger`

`Tasks`: the book on disk, the worktrees, branches with what is on the remote
and merged, the operations behind the task lock, the poll outside it, the card.
`Ledger`: the rows of `agent_tasks`, the board's notes, the handlers of reports
under way (nothing keeps them apart), and the office's look at GitHub.

| Property | | What it says |
|---|---|---|
| `OneAtATime` | R T | however begins, ends and the poll's ends overlap, one worktree at most is an unfinished task's |
| `RemovesOnlyDelivered` | R T | a worktree about to be removed was judged to have nothing of its own |
| `CardShowsTask` | T | the card in the office shows the task there is, with its pull request, and none that has ended |
| `MergedEnds` | R | a task whose pull request is merged ends, although ending it failed before |
| `DoneIsEarned` | R T* | the office takes a note to done only if a pull request of a branch linked to it has merged |
| `MergeComesFirst` | T | whichever note it takes for the task's, it takes none to done before a pull request has merged |
| `MergedIsTrue` | T | the ledger says of no pull request that it merged before it did |
| `LinkKept` | T* | a row keeps the note it was first linked to |
| `MergedIsDone` | R | a merge takes its note to done (one report at a time, nobody moving notes) |

T*: under a hypothesis, see section 5.  Run `machine`: two tasks, one commit
each, three begins or ends, an end that fails or a crash; one branch and two
notes, two handlers at once, three reports, one note moved by a person.  Two
handlers are the least that overlap; the second note is the one that is not
linked.

### 3.7 `Fleet`

The supervisor's entries by name, the runners made, and polls with the reconcile
each leads to: nothing keeps two apart.  `InLine` (R): once the office's list
rests, what runs comes to be that list, though reconciles overlap and hold old
answers.  `NoneOrphaned`, `OneEach` (T): until two reconciles meet, or a stop a
start, whoever runs can be stopped, and nobody runs twice.  `FleetTypeOK` (T)
holds without that excuse: an entry is a runner of its name that is there.  Run `machine`: two polls at a time, two
edits, four runners, one agent whose configuration changes and one whose does
not.

### 3.8 `Desks`, `Routines` and `Mentions`

`Desks`: the seat book with the order in which its holders left, the sessions of
each agent (two at a time: a fresh one beside one in its grace), the begins from
the station with their awaits.  `Routines`: the table of routines and the rows of
`routine_runs`, per room the await its tick is in, per editor the write under
way; a ghost says what was spoken.  `Mentions`: the hop of the line that last
woke an agent, per conversation.

| Property | | What it says |
|---|---|---|
| `PresentKeepsDesk` | R T | only a begin of its own moves an agent that is there from its desk |
| `OneHolder` | T | a desk has one holder |
| `DeskComes` | R | an agent at work without a desk does not stay so while one is to be had |
| `SpokenOnce` | R T | a slot of a routine is spoken at most once, whoever ticks and wherever they stop |
| `NoSlotSkipped` | R T | a tick passes a slot only if it has its run |
| `MissedIsMadeUp` | R | a missed slot is made up once its agent is back and free |
| `ChainEnds` | R | agents that name each other in a channel fall silent once people do |

Run `office`: two agents on one desk, a begin whose write may fail, two sessions
at once; two rooms over one routine (a cron or a single moment), one editor, two
moments, one mishap; two agents in a channel, two hops, two lines of people and
an agent that leaves.  Two rooms are the least that race for a slot.  Nobody is
in earshot on the floor (`Earshot = {}`): with that, `ChainEnds` fails, see
section 4.

### 3.9 `Board` and `Voice`

`Board`: the version of each table, the reads under way with what each has of
each table so far, what the room holds, what was last sent to everybody, who is
being sent it.  `Voice`: the pairs in earshot, the relay's sockets with their
tables of bytes and what is on the wire, the page's socket and peers; a pair is
in one of the four bands the two margins make.

| Property | | What it says |
|---|---|---|
| `NeverBack` | R T | neither the room's board nor what a person is shown goes back to an older version of any table |
| `NewestIsNewest` | T | the room's board is never older than a read that has landed |
| `ReachesEverybody` | R | what is written reaches everybody who stays, if their role was read |
| `VoiceIsTheirs` | R T | a frame that comes to a page stands under the byte the page knows its sender by |
| `OneGraph` | T | the office's pairs and the relay's lists of hearers are one graph |
| `TablesFollowTheGraph` | T | a socket's table of bytes names those its session hears, and nobody else |
| `NeighboursAreHeard` | R | two people who stay near each other come to hear each other |

Run `board`: two tables, two reads at once, one write each, one failure; two
people, two sockets, two moves, a cut and a refused token.  `VoiceIsTheirs` is in
run `agent`, with three people (of whom one meets both others) and two bytes:
with three, a byte one gave up is another's next.

### 3.10 `Presence` and `Reading`

`Presence`: a person's pages, what each is at (here, asking for its seat, joining
afresh), the office's seats with their sockets, the place kept.  `Reading`: what
a page has seen and shows as unread, the reports it owes, the room's cursors and
the database's, the loads and reports in their awaits, the list of channels with
its fingerprint, which pages have had that list (`listed`: nothing else can be
selected) and which conversations a page lacks the newest line of (`missed`).
Ghosts say up to when a page that had what was said showed it (`onScreen`), and
up to when a page that had not got it read it all the same (`blind`).

| Property | | What it says |
|---|---|---|
| `EverybodyComesBack` | R | an open page that lost its connection plays again |
| `SeatsAreGivenUp` | R | a seat no page plays is given up, or played again |
| `UnreadIsShown` | R T | a line that was on no screen is shown as unread on every page that is up, unless a page that had not got it has looked at its conversation since |
| `NotUnreadAgain` | T | what was looked at on a page does not come back as unread there |
| `RowsComeDown` | R | a row goes down on every page once the office has it that it was read |

Run `alive` has `Presence` with one page opened twice, and one each of a cut, a
lost answer, a walk, a restart and a refused sign-in.  Run `reading`: two pages
and two visits, two lines of one channel, a cut, a failure.

## 4. Where the code departs from its words

Three listed runs end with a counterexample to something the repository says of
itself (the findings of `PROJECT.json`):

| Run | Property | What TLC shows |
|---|---|---|
| `tasks_ended` | `EndedByItsOwn` | a poll's late answer about a task already ended ends, and may remove the worktree of, the task begun since (`AR` 1332; comment at 1317) |
| `ledger_note` | `DoneIsEarned` | the merge of a task that named no note moves the newest unlinked note of the agent, which no task was for (`OR` 2888; `db/agent-tasks.ts` 102) |
| `reading_set` | `SameSet` | a report that outlasts its person's last session leaves a cursor map of one entry, which the next arrival takes for all of them (`OR` 3093; comment at 1141) |

More such properties are stated in the modules than are listed as runs.  Those
with a configuration here can be run as they are (where one configuration has two
properties, TLC stops at the first it refutes: keep the one in question, or run
with `-continue`); for the others the constants
that show them are given, to be put in a configuration over the module.  All of
them end with TLC's counterexample.

| Property | Configuration, or constants | What TLC shows |
|---|---|---|
| `TurnLoop!SteerIsHonest` | `turnloop_steer.cfg` | `!cancel` empties a waiting queue but leaves its steer mark; the next fresh question is framed as "arrived while you were working" (`AR` 1494-1500; comment at 1765) |
| `TurnLoop!CalledOffReachesRuntime` | `turnloop_calledoff.cfg` | `!cancel` during `await #systemPrompt()` stops nothing, and the prompt goes out |
| `TurnLoop!NeverSilentThroughDrops` | `turnloop_drop.cfg` | a turn that begins on a gateway that has not heard `agent:ready` ends without a prompt, a retry or a word (`AR` 1835; comment at 1776) |
| `TurnLoop!SilenceIsStopped` | `turnloop_hang.cfg` | the idle clock starts with the prompt; a runtime silent in its handshake or in `session/new` holds its turn for ever (`AR` 2398; `packages/acp-harness/README.md` 311-314) |
| `WorkerLife!GivenUpHasNoProcess` | three processes or more, one crash | the exit of a process that dies in its handshake is handled before the rejection; the worker is restarted, then given up on with a live process |
| `WorkerLife!OneCrashIsSurvived` | one crash, one reload | a reload that meets a restart gives up a worker that crashed once (`AR` 641-642; comment at 609) |
| `WorkerSessions!OneOpenEver` | `sessions_twice.cfg` | the `finally` of an open from before a reload deletes its successor's entry in `#creating` (`WK` 484-486; comment at 139-144) |
| `WorkerSessions!MemoryKnownEver` | `sessions_memory.cfg` | a memory written between a reload and the resume reaches nobody (`AR` 2085-2089; comment at 2117) |
| the same | `MCWorkerSessions`, `LimitsTool`, two scopes | `memory_set` answered after its turn exempts another conversation (`AR` 2356-2359; comment at 2344) |
| `WorkerSessions!ReloadKeepsConversations` | `MCWorkerSessions`, `LimitsMemory` | "to be told again" is taken for "never spoken in", and the conversation is not saved (`WK` 412-414; comment at 402-405) |
| the same | `MCWorkerSessions`, `LimitsRace` | a second reload during `session/resume` loses the conversation (`WK` 470-471, 518) |
| `WorkerSessions!BookIsCurrent` | `MCWorkerSessions`, `LimitsBook` | a session whose mode is being set when its process is replaced enters the next process's book (`WK` 566-569; comment at 563) |
| `WorkerSessions!RotateStartsOver` | `MCWorkerSessions`, `LimitsRotate` | `!rotate` during a resume drops nothing (`WK` 689-696; comment at 692) |
| `WorkerSessions!RootedWhereItWorks` | `MCWorkerSessions`, `LimitsMove` or `LimitsResumed` (with `LimitsMoves`, three moves and neither prewarm nor reload, it holds) | a turn joins a creation that began in the old directory; a resume is recorded under the directory of after its await (`WK` 501, 518; comment at 451-455) |
| `Memory!FailureIsTrue` | as in `sessions.cfg` | a lost reply is told to the owner as a failure, of a write that was made (`AR` 2127) |
| `Approvals!OpenQuestionsAreAnswerable` | `approvals_decided.cfg` | a reopened card keeps `decidedBy`, and refuses every click |
| `Approvals!AllButtonsReachTheRuntime` | `approvals_zone.cfg` | a resolution, or the leave, overtakes its request in the zone's await (`OR` 3578; `docs/GATEWAY.md` 722-723) |
| `Approvals!AllOpenQuestionsAreShown` | `approvals_zone.cfg` | a zone's question that is open when the socket drops is said again by a session that stands elsewhere, and dropped with neither card nor refusal (`OR` 3577, 1175-1185; `AR` 592-594: "so a card is neither lost ...") |
| `Approvals!ReplayTakesCardsDown` | one question, two sockets | the replayed resolution is refused because the card still belongs to the dead session (`OR` 3668; `AR` 592-594) |
| `Gateway!HearsOnce`, `StoppedIsOut`, `ToolsReachTheOffice` | as in `gateway.cfg` | two loops connect one agent twice after a handshake that was cut; `stop()` does not call off a connect under way; the tools of a worker hold the client they were opened with (`AR` 549, 583; `worker.ts`, restart) |
| `Tasks!NothingLost` | as in `tasks_ended.cfg` | what the agent writes between the verdict and `git worktree remove --force` goes with the worktree (`runner/tasks.ts` 531; comment at 31) |
| `Fleet!StopsWhoeverRuns`, `NeverTwice` | as in `machine.cfg` | of two reconciles the later to end drops by name the runner the other has just added (`supervisor.ts` 240) |
| `Ledger!LedgerFollowsAlways` | one note, two handlers, four reports | a report of a task and the one that it is over, taken down at once, leave it on (`db/agent-tasks.ts` 169) |
| `Ledger!NeverReopened` | the same, one note moved | a note a person took to done meanwhile is put back to "in progress" (`board-brief.ts` 81) |
| `Ledger!LinkKept` | two notes, unnamed tasks (`Items = {0}`), two handlers, four reports, two moves | two updates that both read no link write one over the other (`db/agent-tasks.ts` 102) |
| `Ledger!MergedIsDone` | one note, unnamed tasks, one handler, four reports | a linked note is found no more by a task that names none, and the merge moves nothing |
| `Desks!WaitIsFull`, `JudgedWhenTaken` | as in `office.cfg` | a begin that waits for the first board read takes a desk for an agent that has left meanwhile, and nobody else gets it (`OR` 2706; `seating.ts` 79) |
| `Desks!GoesToItsDesk` | the same, two seats | a session on its way to the old desk when a begin moves the agent goes on there, and works at a desk that is not its own (`OR` 5986) |
| `Routines!OnRecordIsHeard` | one room, one editor, one mishap | a slot is on the record as fired before its line is delivered; a room that stops in between leaves the record (`docs/ROUTINES.md` 100-102) |
| `Routines!ActiveIsDue`, `OneOfAName` | no room, two editors | two edits that read the same row: one pauses it under a new schedule, the other resumes the old one, and what is left repeats and is never due; two creates give one name twice (`db/routines.ts`, `updateRoutine`, `nameTaken`) |
| `Mentions!ChainEnds` | `mentions_near.cfg` | agents in earshot on the floor read each other's lines themselves, and answer for ever |
| `Mentions!FreshStart` | `mentions_walkup.cfg` | a person's line on the floor that an agent answers without being named wakes nobody, and leaves the count an agent's line put there (`hops.ts` 13-16) |
| `Board!EverybodyIsSent` | as in `board.cfg` | whoever's role could not be read is not sent the board, and the signature says they were (`OR` 2101) |
| `Presence!KeptIsNewest`, `ComesWhereTheyWere` | two pages, one of each disturbance | the place of a page that left is kept, and beats the seat of another page that drops after it; a seat whose answer was lost is taken for the one they were in, or the other way round (`last-places.ts` 59-60) |
| `Reading!ReportsArrive` | `reading_gap.cfg` | a report flushed on a closed socket counts as made (`game/readReports.ts`) |
| `Reading!AllUnreadIsShown` | `reading_gap.cfg` | a page whose socket is cut reads what it selects as of now, without having got the line, and once it is back asks only for what is then in view: the line is shown nowhere (`useConversations.ts` 276-285, 455-457; `unread.ts` 104-106) |
| `Reading!LookingReads` | one page, two lines | a line that comes before the page has its handlers up is in view and unread (`useConversations.ts` 274-275) |
| `Voice!NewSocketWins` | two people, two sockets, a socket lost in the office | two handshakes of one session end in the other order, and the page's new socket is put aside for its old one (`relay.ts` 354) |

Each property that is violated somewhere and shown elsewhere is shown outside
exactly the reported case, and the case is named in the property, in the
hypothesis of its theorem or in the constants of its run: `NeverSilent` until a
socket drops, `OpenQuestionsAreShown` outside `away`, `UnreadIsShown` for what is
newer than `blind`, `ButtonsReachTheRuntime` outside zones, `OneConnection` unless a
handshake was cut, `StoppedIsGone` unless `stop()` met a connect,
`SessionsKnowTheMemory` until a reload, `DoneIsEarned` for tasks that name their
note, `ChainEnds` in channels.

## 5. What is proved

Every safety property of every passing run, and both refinements, are theorems:
for any number of conversations, workers, processes, sockets, questions, agents,
people, rooms and so on, and for runs of any length.

**From which assumptions.**  Only what the modules assume of their constants:
finite sets of conversations, workers, questions and agents of a fleet; bounds that are natural
numbers, and those that are a size (`MaxLive`, `MaxBatch`, `MaxAttempts`,
`MaxPerAgent`, `OutboxSize`) at least one, as the code's constants are; enough
worker objects and processes that no step is refused for want of a number
(`EnoughWorkers`, `BoundAssumption`); pairs of people that are pairs
(`Voice`); finitely many notes, numbered from one (`Ledger`); and marks such as `NoTurn`,
`NoRead`, `None` that are none of the things they stand beside.  TLC evaluates
each of them on a run.

**Five theorems have a hypothesis**, each a temporal formula of the
specification and each needed, as section 4 shows by what the code does
without it.

* `SessionsCarryTheMemory`, given `[]AnsweredInTurn`: the model's own write of
  the memory is answered before the turn that made it is over.
* `CleanReloadsKeepConversations`, given that every reload is clean: unless it is
  the first, no open is under way, and every session that was spoken in has been
  told.
  `TheFirstReloadKeepsConversations` shows that the hypothesis is met: while
  nobody writes the memory, the first reload is such a one.
* `DoneNotesAreEarned` and `BranchesKeepTheirNote`, given `[]TaskIsFor(f)`: every
  task names the note of its branch, whichever note `f` that is.  An agent that
  takes its tasks from the board does; a task that names none is the finding.
  Without it `MergesComeFirst` still holds.

### The arguments

*Turn loop* (`TurnLoopProofs`).  `OneTurnPerScope` is not inductive: a drain
starts a turn on a worker it has just made, and overwrites `turns` there, so a
worker not made yet must have no turn (`UnmadeIsIdle`).  Every handler builds a
picture of the variables a drain reads and becomes what the drain makes of it;
the invariant `Sound` is therefore stated of pictures, shown to pass through
`Closed`, `Started`, `Refused` and `Drained`, and lifted to the variables through
`Now`.  On top of it:

* order (`Orderly`): the next message is behind everything there is, and a
  conversation's messages are nowhere else (`Apart`); what a drain may do to a
  picture is said once (`Starts`), and each handler is shown to do no more;
* the mailbox: a message is in one place (`OnePlace`), and no step takes it
  anywhere but on (`MailStep`);
* never silent (`Voiced`): of the messages sent, each waits, runs, or is settled:
  explained, or of a conversation in which the refusal of the model was said and
  somebody heard it (`Heard`), as long as the gateway is up, which it is until the
  first drop (`Connected`); what was said stays said;
* work (`Thrifty`): after a drain either nothing waits, or nothing is idle and
  the live workers are as many as there may be (`Spread`), provided that no turn
  holds a dead worker; a worker starting for the first time has the turn that
  asked for it (`FirstStarts`), or a failed start would leave a hole;
* stop (`Deserted`): every turn a stopped agent still has, has lost its process;
* the ceiling (`Fit`): a step brings a worker to life only out of the room a claim
  has measured, and a restart starts what was counted; a turn that has prompted is
  past the phases in which it could prompt;
* shown once (`Spent`): a message that was shown is in no queue and in no turn that
  has still to prompt.

*Worker* (`WorkerLifeProofs`).  One invariant carries the three: until the stop,
the processes told to stop are those a reload replaced and the worker's own is
none of them (`Ownership`); an exit still to be handled is of a replaced process
or of the worker's own (`ExitsAreOurs`), so one that counts is the worker's own;
and a process that is gone without having been told to stop has crashed
(`GoneCrashed`).

*Sessions and memory* (`SessionsProofs`).  A session is in one place at a time,
the book, the store of a reload or one open (`Placed`); until a reload a
conversation has one open, which its turn waits for (`Calm`); a session not to be
told again knows the memory, or is being told it by the turn that runs in it
(`Informed`); a conversation to be kept has its session in the book, in the store
or in the open that resumes it (`Keeping`); and what was spoken in was told
(`ToldFirst`).  Of the memory: a writer carries what it read and what it makes of
it (`MadeOf`), and a conditional write lands on the very row it read.

*Approvals* (`ApprovalsVoiceProofs`).  For consent: every *allow* on its way to
the agent is one the owner gave (`CarriesOwnersWord`), with the types of the
wire.  For what is shown: the card of an open question that is not `away` is up, or
its request, or the refusal of it, is on its way (`ShownOrOnItsWay`), and a question
once `away` stays so; what waits in the name of
the session in use is open, or its end is on its way (`EndIsOnItsWay`); a waiting
card is held by a session the office has (`HolderIsHere`); and once a card has
been made of a session's request, all that older sessions said has been read
(`ReadInOrder`).  The replay builds its frames from the set of open questions, so
the proof needs that a finite set can be listed, which is all it uses of
`SetToSeq`.

*Voice* (same module).  The wire from the relay to the page is a list of tables:
the page's own comes first, each message makes the next, a frame is under its
sender's byte in the table it meets, and the last is the relay's (`Follows`).
The page may be any number of messages behind.  The graph is kept by the two that
share it: a sweep tells the relay exactly the difference, and a session that ends
is taken out of both (`WithExactly`, `HearsThen`).  Each table follows because a
table after some have gone and some have come names the rest, and those
(`TableOfNames`), and a socket's first table is made of the hearers of the moment it
is bound, not of the moment its token was asked about.

*Gateway* (`GatewayFleetProofs`).  While no handshake has been cut there is one
attempt at most, a client the runner holds or a loop (`Sole`); a running agent
has one of the two (`HasWay`); an agent stopped outside a connect has neither
(`StopOK`).

*Fleet* (same module).  Reconciles race or not, an entry is a runner of its name
(`EntriesOK`), and whoever a reconcile still has on its list is gone or has the
name it has there (`ListsOK`): that is why deleting by name leaves no entry of a
runner that was stopped.  Until there is a race one reconcile is under way, what
it has on its list is an entry still and there once (`ListsHold`), and whoever is
there is an entry (`AllListed`).

*Tasks and ledger* (`TasksLedgerProofs`).  Of the tasks everything rests on the
lock: only the head of the queue is past being asked (`OthersWait`), so what it
found of the book when it began holds when it writes (`LockOK`).  The card is
right because whoever writes the book publishes, and a restart or a new socket
that only looks finds a task that was begun (`ActiveIsBegun`).  The ledger has
no lock: what its handlers and its look hold on to across their awaits is true
for good, a pull request's merge and a row (`MergesStay`, `RowsStay`) whatever
the tasks say, and a row's link, once it has one, where each branch has its note
(`LinksStay`); so whatever a stale handler writes, it writes what still is.  That
the note it finds is a note rests on a finite board having a newest one
(`FiniteHasGreatest`: the least set without one cannot be).

*Desks and routines* (`DesksRoutinesProofs`).  A desk has one holder because both
ways of giving one evict whoever held it; that nobody in the room is evicted
rests on the book's list of the gone, which names nobody who has a session
(`GoneAreOut`).  A slot is spoken once because one settle only finds its run
"missed", and a run found so is never missed again while the routine lives
(`Recorded`); a deleted routine takes its runs with it (`GoneHasNoRuns`), and an
edit that lands late does not bring it back (`EditsOK`).

*Board and reading* (`BoardReadingProofs`).  What makes `NeverBack` inductive is
that the newest read under way was begun after whatever the room holds had
landed: each row it has is at least as new (`NewestIsAhead`).  A page shows news
because nothing it takes for read, its own account or a cursor on any of its
ways, is past what a page has looked at, with the line or without it (`Looked`,
`OnlyTheSeenIsRead`).

## 6. What is only model-checked

*Liveness*: fairness and `ENABLED` are out of the prover's reach.  These are
`EveryoneIsAnswered`, `ReloadEnds`, `ComesBack`, `EverybodyComesBack`,
`SeatsAreGivenUp`, `MergedEnds`, `InLine`, `MergedIsDone`, `DeskComes`,
`MissedIsMadeUp`, `ChainEnds`, `ReachesEverybody`, `NeighboursAreHeard` and
`RowsComeDown`.  So are the counterexamples of section 4.  `Mentions` and
`Presence` have no proofs yet.  No recursive operator is used.

**Fairness, and why the code justifies it.**

* A settled promise's continuation runs; a timer fires (the clock of a prompted
  turn, the ten seconds the instructions may take, an approval's deadline, the
  reconnect delay, the polls, the ticks of a room, the watch of a page); the
  database, git and `gh` answer or fail.  This is `CodeFairness` of `TurnLoop` and
  the whole of the fairness of `Routines`, `Ledger`, `Board`, `Reading`, `Fleet`
  and `Desks`.
* A runtime that works answers its handshake and a `session/new`, and returns
  from a prompt it was told to stop, as `session/cancel` requires
  (`RuntimeFairness`).  It is *not* assumed to answer a prompt nobody stopped: the
  idle clock covers that.  The clock starts again with every report of the runtime
  (#touch, `AR` 2398-2405), and is held while a question to a person is open, which
  has a deadline of its own: `WF(Stall)` assumes that a runtime does not go on
  reporting for ever without answering.  `turnloop_hang.cfg` takes `RuntimeFairness` away.
* The office answers a join or refuses it, and either end of a dead socket finds
  out (pings).  A budget of refusals bounds how often it refuses, so `ComesBack`
  and `EverybodyComesBack` say that a *finite* outage is got over.
* A signal kills: SIGKILL follows SIGTERM after three seconds.
* Strong fairness is used twice: of the answer of `gh` (`Hears`), which a restart
  may pre-empt any number of times, and of the end of a page's window for its
  seat (`Closes`), which is a clock's doing and not a matter of being let.
* No person is assumed to click, write, walk or open anything.

Deadlock is not checked: a system whose budget of messages and disturbances is
spent, or whose agent was stopped, may rest.

## 7. What is modelled, and how much of the code that is

The repository has some 77,000 lines of implementation, of which the map names
about one in fifteen.  Those are the lines in which several parties act on
shared state; the bulk of the rest is interface (`apps/web`), schema, parsing,
text and rendering.  Of `AgentRunner.ts` the modules cover about half, of
`OfficeRoom.ts` a fifth: the handlers left out there answer one message with one
statement, or move avatars.

## 8. What is not modelled, and why

* Avatars' idle life, movement, maps, the web interface, the desktop shell and
  the website: rendering, numeric simulation and operating system calls.
* The MCP bridge (stateless but for the gateway it holds, which `Gateway` has),
  the permission catalogue (a pure choice, of which `Approvals` has the outcome),
  accounts, invites and challenges (single conditional statements of the
  database, each its own guard).
* In the turn loop: the triage of chat before the queue, the pacing of outbound
  lines, latency traces, the check of MCP servers, `!forget` turns (they ask the
  model a question of their own and never prompt twice).
* In the worker: slash-command captures, the framing of the protocol, the
  opening of the bridge on a first start.
* In the sessions: the cap of four sessions per worker and its evictions.
* In approvals: who may see a card, which option of the runtime stands for an
  answer, which of several open questions a typed answer means.
* In tasks and ledger: several repositories, titles and slugs, renames, which
  pull requests the office may look at, failing statements.
* In desks and presence: that an agent may be denied the scope to move (its key has
  it here), and that a socket is closed by the office with code 1000 (only an
  agent's is closed by the office, and with another).
* In the office: distances and routes, roles, admission, run-now of a routine,
  the wording of everything.
* In voice: capture, encoding and playback, limits of pace and backpressure.

`PROJECT.json` says the same per component.  One hazard is listed without a
property a run checks: a runtime that is silent before any clock watches it
(`AR` 1851: `SilenceIsStopped`, `turnloop_hang.cfg`).  The code does not keep it, so
there is nothing to show but the counterexample.  Two more are covered but for a
case, which their notes name: `AllOpenQuestionsAreShown` and `AllUnreadIsShown` of
section 4.

## 9. Plan

1. The types of `Routines`.
2. Safety properties of `Presence` and `Mentions` (the count of hops is what bounds
   a chain) worth stating and proving.
3. Operators against reference definitions: how a batch is cut and framed, which
   option an answer means.

## 10. Checking

    tlc -workers 2 -config turnloop_safety.cfg MCTurnLoop
    tlapm TurnLoopProofs.tla

A configuration says its module in `PROJECT.json` if it is a listed run; of the
others, `turnloop_*` is over `MCTurnLoop`, `sessions_*` over `MCWorkerSessions`,
`approvals_*` over `Approvals`, `mentions_*` over `Mentions` and `reading_*` over
`Reading`.
